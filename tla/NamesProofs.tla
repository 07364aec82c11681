----------------------------- MODULE NamesProofs -----------------------------
(***************************************************************************)
(* The check of the name in `spawn`, for any number of spawns, kills and   *)
(* names, and with every daemon free to end or to die at any step.         *)
(***************************************************************************)
EXTENDS Names, TLAPS

\* A daemon makes its files in the order in which the walk needs them.
FilesGrow ==
    \A d \in Daemons :
      /\ dpc[d] \in {"none", "bind"} => files[d] = {}
      /\ dpc[d] = "pid" => files[d] = {"sock"}
      /\ dpc[d] = "number" => files[d] = {"sock", "pid"}
      /\ dpc[d] \in {"child", "meta"} => files[d] = {"sock", "pid", "number"}
      /\ dpc[d] \in {"serve", "grace"} => files[d] = Sidecars

Walking == {"entry", "alive", "load"}
Past == {"serve", "grace", "clean"} \union Ended

\* A spawn has no daemon before its check is over, looks at one entry at a
\* time, and starts with nothing found.
WalkShape ==
    \A s \in Spawners :
      /\ spc[s] \in {"idle"} \union Walking => dpc[s] = "none"
      /\ spc[s] = "idle" => found[s] = {} /\ at[s] = {}
      /\ spc[s] = "entry" => at[s] = {}
      /\ \A d, e \in at[s] : d = e

\* What served when the walk began and still serves is yet to be visited, or
\* being looked at, or found; once the check is passed it serves no more.
HeldSeen ==
    \A s \in Spawners : \A d \in held[s] :
      /\ name[d] = name[s] /\ dpc[d] \in Past
      /\ spc[s] \in Walking /\ dpc[d] = "serve" => d \in todo[s] \union at[s] \union found[s]
      /\ spc[s] \in {"poll", "started", "error"} => dpc[d] # "serve"

\* What had ended when the walk began is over, and is not found.
OverUnseen ==
    \A s \in Spawners :
      /\ \A d \in over[s] : dpc[d] \in Ended
      /\ found[s] \intersect over[s] = {}
      /\ spc[s] = "load" => at[s] \intersect over[s] = {}
      /\ spc[s] = "refused" => \E d \in found[s] : name[d] = name[s]

Inv == TypeOK /\ FilesGrow /\ WalkShape /\ HeldSeen /\ OverUnseen

LEMMA Distinct == Old \notin Spawners /\ Spawners \subseteq Daemons /\ Old \in Daemons
  BY NamesAssumption DEF Daemons

LEMMA InvInit == Init => Inv
<1> SUFFICES ASSUME Init PROVE Inv
  OBVIOUS
<1> USE Distinct DEF Init
<1>1. TypeOK
  BY DEF TypeOK, Sidecars
<1>2. FilesGrow
  BY DEF FilesGrow
<1>3. WalkShape
  BY DEF WalkShape, Walking
<1>4. HeldSeen /\ OverUnseen
  BY DEF HeldSeen, OverUnseen
<1> QED BY <1>1, <1>2, <1>3, <1>4 DEF Inv

------------------------------------------------------------------------------
(* The moves of a daemon: what each of them leaves true for every walk. *)

LEMMA DaemonFrame ==
  ASSUME Inv, NEW d \in Daemons, NEW to, UNCHANGED <<name, spawnVars, killVars>>,
         dpc[d] # "none", dpc[d] \notin Ended, to \notin {"none", "bind"}, 
         dpc[d] \in Past => to \in Past, 
         to = "serve" => dpc[d] \notin Past,
         dpc' = [dpc EXCEPT ![d] = to]
  PROVE  WalkShape' /\ HeldSeen' /\ OverUnseen'
<1>1. \A e \in Daemons : dpc'[e] = IF e = d THEN to ELSE dpc[e]
  BY DEF Inv, TypeOK
<1>2. UNCHANGED <<name, spc, todo, at, found, held, over>>
  BY DEF spawnVars
<1>3. WalkShape'
  BY <1>1, <1>2, Distinct DEF Inv, WalkShape
<1>4. HeldSeen'
  BY <1>1, <1>2, Distinct DEF Inv, HeldSeen, TypeOK, Past
<1>5. OverUnseen'
  BY <1>1, <1>2, Distinct DEF Inv, OverUnseen, TypeOK
<1> QED BY <1>3, <1>4, <1>5

LEMMA DaemonStep ==
  ASSUME Inv, NEW d \in Daemons, Daemon(d)
  PROVE  Inv'
<1>0. UNCHANGED <<name, spawnVars, killVars>>
  BY DEF Daemon, Starts, Write, Become, StartFails, Close, GraceOver, Guard, Crash
<1> USE DEF Inv, TypeOK, FilesGrow, Become
<1>1. ASSUME NEW from, NEW file, NEW to, Write(d, from, file, to),
             <<from, file, to>> \in {<<"bind", "sock", "pid">>, <<"pid", "pid", "number">>,
                                    <<"number", "number", "child">>, <<"meta", "meta", "serve">>}
      PROVE  Inv'
  <2>1. WalkShape' /\ HeldSeen' /\ OverUnseen'
    BY <1>1, DaemonFrame DEF Write, Past, Ended
  <2>2. \A e \in Daemons : /\ dpc'[e] = IF e = d THEN to ELSE dpc[e]
                           /\ files'[e] = IF e = d THEN files[d] \union {file} ELSE files[e]
    BY <1>1 DEF Write
  <2>3. FilesGrow'
    BY <1>1, <2>2 DEF Write, Sidecars
  <2>4. TypeOK'
    BY <1>0, <1>1, <2>2 DEF Write, Sidecars, spawnVars, killVars
  <2> QED BY <2>1, <2>3, <2>4
<1>2. ASSUME NEW from, NEW to, Become(d, from, to), UNCHANGED files,
             <<from, to>> \in {<<"child", "meta">>, <<"child", "clean">>, <<"meta", "clean">>,
                              <<"serve", "grace">>, <<"serve", "clean">>, <<"grace", "clean">>}
      PROVE  Inv'
  <2>1. WalkShape' /\ HeldSeen' /\ OverUnseen'
    BY <1>2, DaemonFrame DEF Past, Ended
  <2>2. \A e \in Daemons : dpc'[e] = IF e = d THEN to ELSE dpc[e]
    BY <1>2
  <2>3. FilesGrow'
    BY <1>2, <2>2
  <2>4. TypeOK'
    BY <1>0, <1>2, <2>2 DEF spawnVars, killVars
  <2> QED BY <2>1, <2>3, <2>4
<1>3. CASE Starts(d)
  BY <1>1, <1>2, <1>3 DEF Starts
<1>4. CASE StartFails(d) \/ Close(d) \/ GraceOver(d)
  BY <1>2, <1>4 DEF StartFails, Close, GraceOver
<1>5. CASE Guard(d)
  <2>1. PICK to \in {"gone", "clean"} : Become(d, "clean", to)
    BY <1>5 DEF Guard
  <2> DEFINE next == IF "pid" \in files[d] THEN files[d] \ {"pid", "number"}
                     ELSE IF "sock" \in files[d] THEN files[d] \ {"sock"} ELSE {}
  <2>2. files' = [files EXCEPT ![d] = next] /\ next \subseteq files[d]
        /\ ("number" \in next => "pid" \in next)
    BY <1>5 DEF Guard
  <2> HIDE DEF next
  <2>3. \A e \in Daemons : /\ dpc'[e] = IF e = d THEN to ELSE dpc[e]
                           /\ files'[e] = IF e = d THEN next ELSE files[e]
    BY <2>1, <2>2
  <2>4. WalkShape' /\ HeldSeen' /\ OverUnseen'
    BY <2>1, <1>0, DaemonFrame DEF Past, Ended
  <2>5. FilesGrow'
    BY <2>1, <2>3
  <2>6. TypeOK'
    BY <1>0, <2>1, <2>2, <2>3 DEF spawnVars, killVars
  <2> QED BY <2>4, <2>5, <2>6
<1>6. CASE Crash(d)
  <2>1. dpc' = [dpc EXCEPT ![d] = "dead"] /\ UNCHANGED files /\ Alive(d)
    BY <1>6 DEF Crash
  <2>2. WalkShape' /\ HeldSeen' /\ OverUnseen'
    BY <2>1, <1>0, DaemonFrame DEF Past, Ended, Alive
  <2>3. \A e \in Daemons : dpc'[e] = IF e = d THEN "dead" ELSE dpc[e]
    BY <2>1
  <2>4. FilesGrow'
    BY <2>1, <2>3
  <2>5. TypeOK'
    BY <1>0, <2>1, <2>3 DEF spawnVars, killVars
  <2> QED BY <2>2, <2>4, <2>5
<1> QED BY <1>3, <1>4, <1>5, <1>6 DEF Daemon

------------------------------------------------------------------------------
(* The moves of a spawn. *)

\* A step that leaves the daemons alone and moves one spawn keeps what holds
\* of the files and of the other spawns.
LEMMA SpawnFrame ==
  ASSUME Inv, NEW s \in Spawners, UNCHANGED <<name, daemonVars, killVars>>,
         \A t \in Spawners \ {s} :
           /\ spc'[t] = spc[t] /\ todo'[t] = todo[t] /\ at'[t] = at[t]
           /\ found'[t] = found[t] /\ held'[t] = held[t] /\ over'[t] = over[t],
         TypeOK',
         /\ spc'[s] \in {"idle"} \union Walking => dpc[s] = "none"
         /\ spc'[s] = "idle" => found'[s] = {} /\ at'[s] = {}
         /\ spc'[s] = "entry" => at'[s] = {}
         /\ \A d, e \in at'[s] : d = e,
         \A d \in held'[s] :
           /\ name[d] = name[s] /\ dpc[d] \in Past
           /\ spc'[s] \in Walking /\ dpc[d] = "serve"
                => d \in todo'[s] \union at'[s] \union found'[s]
           /\ spc'[s] \in {"poll", "started", "error"} => dpc[d] # "serve",
         /\ \A d \in over'[s] : dpc[d] \in Ended
         /\ found'[s] \intersect over'[s] = {}
         /\ spc'[s] = "load" => at'[s] \intersect over'[s] = {}
         /\ spc'[s] = "refused" => \E d \in found'[s] : name[d] = name[s]
  PROVE  Inv'
<1>1. FilesGrow'
  BY DEF Inv, FilesGrow, daemonVars
<1>2. WalkShape'
  BY DEF Inv, WalkShape, daemonVars
<1>3. HeldSeen'
  BY DEF Inv, HeldSeen, daemonVars
<1>4. OverUnseen'
  BY DEF Inv, OverUnseen, daemonVars
<1> QED BY <1>1, <1>2, <1>3, <1>4 DEF Inv

LEMMA SpawnStep ==
  ASSUME Inv, NEW s \in Spawners, Spawn(s)
  PROVE  Inv'
<1> USE Distinct DEF TypeOK, Walking, Walk
<1> USE DEF daemonVars, killVars
<1>0. Inv => TypeOK /\ WalkShape /\ HeldSeen /\ OverUnseen /\ FilesGrow
  BY DEF Inv
<1>1. CASE Begin(s)
  <2>1. TypeOK'
    BY <1>0, <1>1 DEF Begin, SameName
  <2>2. \A d \in Daemons : dpc[d] = "serve" => "pid" \in files[d]
    BY <1>0 DEF FilesGrow, Sidecars
  <2>3. /\ todo'[s] = {d \in Daemons : "pid" \in files[d]}
        /\ held'[s] = {d \in SameName(s) : dpc[d] = "serve"}
        /\ over'[s] = {d \in Daemons : dpc[d] \in Ended}
        /\ spc[s] = "idle" /\ spc'[s] = "entry" /\ UNCHANGED <<at, found>>
    BY <1>0, <1>1 DEF Begin
  <2>4. \A d \in held'[s] : name[d] = name[s] /\ dpc[d] = "serve" /\ d \in todo'[s]
    BY <2>2, <2>3 DEF SameName
  <2>5. found[s] = {} /\ at[s] = {} /\ dpc[s] = "none"
    BY <1>0, <2>3 DEF WalkShape
  <2>6. UNCHANGED <<name, killVars, daemonVars>>
    BY <1>1 DEF Begin
  <2>7. \A t \in Spawners \ {s} :
          /\ spc'[t] = spc[t] /\ todo'[t] = todo[t] /\ at'[t] = at[t]
          /\ found'[t] = found[t] /\ held'[t] = held[t] /\ over'[t] = over[t]
    BY <1>0, <1>1 DEF Begin
  <2>8. /\ \A d \in held'[s] : dpc[d] \in Past
        /\ found'[s] = {} /\ at'[s] = {}
        /\ \A d \in over'[s] : dpc[d] \in Ended
    BY <2>3, <2>4, <2>5 DEF Past
  <2> QED BY <2>1, <2>3, <2>4, <2>5, <2>6, <2>7, <2>8, SpawnFrame
<1>2. CASE ReadPid(s)
  <2>1. PICK d \in todo[s] :
          /\ spc[s] = "entry" /\ UNCHANGED <<name, killVars, daemonVars, found, held, over>>
          /\ spc' = [spc EXCEPT ![s] = IF "number" \in files[d] THEN "alive" ELSE "entry"]
          /\ todo' = [todo EXCEPT ![s] = @ \ {d}]
          /\ at' = [at EXCEPT ![s] = IF "number" \in files[d] THEN {d} ELSE {}]
    BY <1>2 DEF ReadPid
  <2>2. d \in Daemons /\ (dpc[d] = "serve" => "number" \in files[d])
    BY <1>0 DEF FilesGrow, Sidecars
  <2>3. TypeOK'
    BY <1>0, <2>1, <2>2
  <2>4. /\ spc'[s] = IF "number" \in files[d] THEN "alive" ELSE "entry"
        /\ todo'[s] = todo[s] \ {d}
        /\ at'[s] = IF "number" \in files[d] THEN {d} ELSE {}
        /\ dpc[s] = "none" /\ at[s] = {}
    BY <1>0, <2>1 DEF WalkShape
  <2>5. \A e \in held[s] : dpc[e] = "serve" => e \in todo'[s] \union at'[s] \union found[s]
    BY <1>0, <2>1, <2>2, <2>4 DEF HeldSeen
  <2>6. /\ \A e \in held[s] : name[e] = name[s] /\ dpc[e] \in Past
        /\ \A e \in over[s] : dpc[e] \in Ended
        /\ found[s] \intersect over[s] = {}
    BY <1>0 DEF HeldSeen, OverUnseen
  <2>7. \A t \in Spawners \ {s} :
          /\ spc'[t] = spc[t] /\ todo'[t] = todo[t] /\ at'[t] = at[t]
          /\ found'[t] = found[t] /\ held'[t] = held[t] /\ over'[t] = over[t]
    BY <1>0, <2>1
  <2>8. /\ UNCHANGED <<name, daemonVars, killVars>>
        /\ found'[s] = found[s] /\ held'[s] = held[s] /\ over'[s] = over[s]
        /\ spc'[s] \in {"alive", "entry"} /\ (spc'[s] = "entry" => at'[s] = {})
        /\ \A e, f \in at'[s] : e = f
    BY <2>1, <2>4
  <2> HIDE DEF TypeOK, Walk, daemonVars, killVars
  <2> QED BY <2>3, <2>4, <2>5, <2>6, <2>7, <2>8, SpawnFrame
<1>3. CASE CheckAlive(s)
  <2> DEFINE up == {d \in at[s] : Alive(d)}
  <2>1. /\ spc[s] = "alive" /\ UNCHANGED <<name, killVars, daemonVars, todo, found, held, over>>
        /\ spc' = [spc EXCEPT ![s] = IF \A d \in at[s] : Alive(d) THEN "load" ELSE "entry"]
        /\ at' = [at EXCEPT ![s] = up]
    BY <1>3 DEF CheckAlive
  <2>2. /\ spc'[s] = (IF \A d \in at[s] : Alive(d) THEN "load" ELSE "entry")
        /\ at'[s] = up /\ dpc[s] = "none" /\ \A d, e \in at[s] : d = e
    BY <1>0, <2>1 DEF WalkShape
  <2>3. TypeOK'
    BY <1>0, <2>1
  <2>4. spc'[s] = "entry" => at'[s] = {}
    BY <2>2
  <2>5. \A e \in held[s] : dpc[e] = "serve" => e \in todo[s] \union at'[s] \union found[s]
    BY <1>0, <2>1, <2>2 DEF HeldSeen, Alive, Ended
  <2>6. /\ \A e \in held[s] : name[e] = name[s] /\ dpc[e] \in Past
        /\ \A e \in over[s] : dpc[e] \in Ended
        /\ found[s] \intersect over[s] = {}
        /\ at'[s] \intersect over[s] = {}
    BY <1>0, <2>2 DEF HeldSeen, OverUnseen, Alive
  <2>7. \A t \in Spawners \ {s} :
          /\ spc'[t] = spc[t] /\ todo'[t] = todo[t] /\ at'[t] = at[t]
          /\ found'[t] = found[t] /\ held'[t] = held[t] /\ over'[t] = over[t]
    BY <1>0, <2>1
  <2>8. /\ UNCHANGED <<name, daemonVars, killVars>>
        /\ todo'[s] = todo[s] /\ found'[s] = found[s] /\ held'[s] = held[s] /\ over'[s] = over[s]
        /\ spc'[s] \in {"load", "entry"} /\ \A d, e \in at'[s] : d = e
    BY <2>1, <2>2
  <2> HIDE DEF TypeOK, Walk, daemonVars, killVars
  <2> QED BY <2>2, <2>3, <2>4, <2>5, <2>6, <2>7, <2>8, SpawnFrame
<1>4. CASE LoadMeta(s)
  <2>1. /\ spc[s] = "load" /\ UNCHANGED <<name, killVars, daemonVars, todo, held, over>>
        /\ spc' = [spc EXCEPT ![s] = "entry"] /\ at' = [at EXCEPT ![s] = {}]
        /\ found' = [found EXCEPT ![s] = @ \union {d \in at[s] : "meta" \in files[d]}]
    BY <1>4 DEF LoadMeta
  <2>2. /\ spc'[s] = "entry" /\ at'[s] = {} /\ dpc[s] = "none"
        /\ found'[s] = found[s] \union {d \in at[s] : "meta" \in files[d]}
    BY <1>0, <2>1 DEF WalkShape
  <2>3. TypeOK'
    BY <1>0, <2>1
  <2>4. \A e \in held[s] : dpc[e] = "serve" => e \in todo[s] \union at'[s] \union found'[s]
    BY <1>0, <2>1, <2>2 DEF HeldSeen, FilesGrow, Sidecars
  <2>5. /\ \A e \in held[s] : name[e] = name[s] /\ dpc[e] \in Past
        /\ \A e \in over[s] : dpc[e] \in Ended
        /\ found'[s] \intersect over[s] = {}
    BY <1>0, <2>1, <2>2 DEF HeldSeen, OverUnseen
  <2> QED BY <1>0, <2>1, <2>2, <2>3, <2>4, <2>5, SpawnFrame
<1>5. CASE Refuse(s)
  <2>1. /\ spc[s] = "entry" /\ spc' = [spc EXCEPT ![s] = "refused"]
        /\ UNCHANGED <<name, killVars, daemonVars, todo, at, found, held, over>>
        /\ \E d \in found[s] : name[d] = name[s]
    BY <1>5 DEF Refuse, Taken, SameName
  <2>2. TypeOK'
    BY <1>0, <2>1
  <2>3. \A t \in Spawners \ {s} :
          /\ spc'[t] = spc[t] /\ todo'[t] = todo[t] /\ at'[t] = at[t]
          /\ found'[t] = found[t] /\ held'[t] = held[t] /\ over'[t] = over[t]
    BY <1>0, <2>1
  <2>4. spc'[s] = "refused" /\ \A d, e \in at[s] : d = e
    BY <1>0, <2>1 DEF WalkShape
  <2>5. /\ \A d \in held[s] : name[d] = name[s] /\ dpc[d] \in Past
        /\ \A d \in over[s] : dpc[d] \in Ended
        /\ found[s] \intersect over[s] = {}
    BY <1>0 DEF HeldSeen, OverUnseen
  <2> QED BY <1>0, <2>1, <2>2, <2>3, <2>4, <2>5, SpawnFrame
<1>6. CASE Return(s)
  <2>1. PICK to \in {"started", "error"} :
          /\ spc[s] = "poll" /\ spc' = [spc EXCEPT ![s] = to]
          /\ UNCHANGED <<name, killVars, daemonVars, todo, at, found, held, over>>
    BY <1>6 DEF Return
  <2>2. TypeOK'
    BY <1>0, <2>1
  <2>3. \A t \in Spawners \ {s} :
          /\ spc'[t] = spc[t] /\ todo'[t] = todo[t] /\ at'[t] = at[t]
          /\ found'[t] = found[t] /\ held'[t] = held[t] /\ over'[t] = over[t]
    BY <1>0, <2>1
  <2>4. spc'[s] = to /\ \A d, e \in at[s] : d = e
    BY <1>0, <2>1 DEF WalkShape
  <2>5. /\ \A d \in held[s] : name[d] = name[s] /\ dpc[d] \in Past /\ dpc[d] # "serve"
        /\ \A d \in over[s] : dpc[d] \in Ended
        /\ found[s] \intersect over[s] = {}
    BY <1>0, <2>1 DEF HeldSeen, OverUnseen
  <2> QED BY <1>0, <2>1, <2>2, <2>3, <2>4, <2>5, SpawnFrame
<1>7. CASE Fork(s)
  <2>1. /\ spc[s] = "entry" /\ todo[s] = {} /\ found[s] \intersect SameName(s) = {}
        /\ spc' = [spc EXCEPT ![s] = "poll"] /\ dpc' = [dpc EXCEPT ![s] = "bind"]
        /\ found' = [found EXCEPT ![s] = {}]
        /\ UNCHANGED <<name, killVars, files, todo, at, held, over>>
    BY <1>7 DEF Fork, Taken
  <2>2. /\ dpc[s] = "none" /\ s \in Daemons /\ at[s] = {}
        /\ \A d \in Daemons : dpc'[d] = IF d = s THEN "bind" ELSE dpc[d]
        /\ \A t \in Spawners : /\ spc'[t] = IF t = s THEN "poll" ELSE spc[t]
                               /\ found'[t] = IF t = s THEN {} ELSE found[t]
    BY <1>0, <2>1 DEF WalkShape
  <2>3. \A d \in held[s] : dpc[d] # "serve"
    BY <1>0, <2>1, <2>2 DEF HeldSeen, SameName
  <2>4. TypeOK'
    BY <1>0, <2>1, <2>2
  <2>5. FilesGrow'
    BY <1>0, <2>1, <2>2 DEF FilesGrow
  <2>6. WalkShape'
    BY <1>0, <2>1, <2>2 DEF WalkShape
  <2>7. HeldSeen'
    BY <1>0, <2>1, <2>2, <2>3 DEF HeldSeen, Past, Ended
  <2>8. OverUnseen'
    BY <1>0, <2>1, <2>2 DEF OverUnseen, Ended
  <2> QED BY <2>4, <2>5, <2>6, <2>7, <2>8 DEF Inv
<1> QED BY <1>1, <1>2, <1>3, <1>4, <1>5, <1>6, <1>7 DEF Spawn

------------------------------------------------------------------------------
LEMMA Inductive == Spec => []Inv
<1>1. Inv /\ [Next]_vars => Inv'
  <2> SUFFICES ASSUME Inv, [Next]_vars PROVE Inv'
    OBVIOUS
  <2>1. ASSUME UNCHANGED <<name, daemonVars, spawnVars>>,
               kpc' \in [Killers -> {"idle", "queued", "accepted", "returned", "failed"}],
               victim' \in [Killers -> Daemons]
        PROVE  Inv'
    BY <2>1 DEF Inv, TypeOK, FilesGrow, WalkShape, HeldSeen, OverUnseen,
         daemonVars, spawnVars
  <2>2. CASE UNCHANGED vars
    BY <2>1, <2>2 DEF vars, killVars, Inv, TypeOK
  <2>3. ASSUME NEW k \in Killers, Connect(k) \/ Accept(k) \/ Answered(k) \/ Broken(k)
        PROVE  Inv'
    BY <2>1, <2>3 DEF Connect, Accept, Answered, Broken, Kill, Inv, TypeOK
  <2> QED BY <2>2, <2>3, DaemonStep, SpawnStep DEF Next
<1> QED BY InvInit, <1>1, PTL DEF Spec

\* Every state of the daemons, the walks and the kills is well typed.
THEOREM TypeInvariance == Spec => []TypeOK
<1>1. Inv => TypeOK
  BY DEF Inv
<1> QED BY Inductive, <1>1, PTL

\* The check of the name in run_spawn (cli.rs:499-517, meta.rs:57-80): a name
\* that is held throughout the walk is found, and nothing dead refuses it.
THEOREM NameCheckInvariance == Spec => []NameCheckDecides
<1>1. Inv => NameCheckDecides
  <2> SUFFICES ASSUME Inv, NEW s \in Spawners
               PROVE  /\ spc[s] \in {"poll", "started", "error"} =>
                           \A d \in held[s] : dpc[d] # "serve"
                      /\ spc[s] = "refused" =>
                           \E d \in found[s] \ over[s] : name[d] = name[s]
    BY DEF NameCheckDecides
  <2>1. spc[s] \in {"poll", "started", "error"} => \A d \in held[s] : dpc[d] # "serve"
    BY DEF Inv, HeldSeen
  <2>2. spc[s] = "refused" => \E d \in found[s] \ over[s] : name[d] = name[s]
    BY DEF Inv, OverUnseen
  <2> QED BY <2>1, <2>2
<1> QED BY Inductive, <1>1, PTL

==============================================================================
