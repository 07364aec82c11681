--------------------------------- MODULE Names ---------------------------------
(***************************************************************************)
(* The names of daemons: `spawn --name` (cli.rs) looks for its name among  *)
(* the active daemons (meta.rs) and starts its own if it finds none, while *)
(* daemons start, end, die and are asked to close by `kill`.  The check is *)
(* the only guard of a name, and nothing is locked: every file it reads is *)
(* a step.  Without --id the id is a new one, so the daemon of a spawn is  *)
(* known by that spawn.  A name here is a project and a name in it.        *)
(***************************************************************************)
CONSTANTS Spawners,   \* `spawn --name` processes, each with the daemon it may start
          Old,        \* a daemon that serves at the start
          Killers,    \* `kill` processes
          Names,
          MayCrash    \* the daemons that may die of SIGKILL (a bound)

Daemons == Spawners \union {Old}

ASSUME NamesAssumption ==
    /\ Old \notin Spawners /\ MayCrash \subseteq Daemons

VARIABLES name,    \* daemon -> the name it is given, or would be
          dpc,     \* daemon -> where it stands
          files,   \* daemon -> its sidecars; "number": the pid is in .pid
          spc,     \* spawn -> where it stands
          todo,    \* spawn -> the .pid entries its walk has still to visit
          at,      \* spawn -> the daemons whose entry it is looking at
          found,   \* spawn -> the daemons list_active_metas returns
          held,    \* spawn -> daemons of its name that served when it began
          over,    \* spawn -> daemons that had ended when it began
          kpc,     \* kill -> where it stands
          victim   \* kill -> the daemon it has asked

daemonVars == <<dpc, files>>
spawnVars == <<spc, todo, at, found, held, over>>
killVars == <<kpc, victim>>
vars == <<name, daemonVars, spawnVars, killVars>>

------------------------------------------------------------------------------
Sidecars == {"sock", "pid", "number", "meta"}
Ended == {"gone", "dead"}
Alive(d) == dpc[d] \notin Ended \union {"none"}
Listening(d) == dpc[d] \in {"pid", "number", "child", "meta", "serve", "grace"}
CanConnect(d) == "sock" \in files[d] /\ Listening(d)
SameName(s) == {d \in Daemons : name[d] = name[s]}

Init ==
    /\ name \in [Daemons -> Names]
    /\ dpc = [d \in Daemons |-> IF d = Old THEN "serve" ELSE "none"]
    /\ files = [d \in Daemons |-> IF d = Old THEN Sidecars ELSE {}]
    /\ spc = [s \in Spawners |-> "idle"]
    /\ todo = [s \in Spawners |-> {}]
    /\ at = [s \in Spawners |-> {}]
    /\ found = [s \in Spawners |-> {}]
    /\ held = [s \in Spawners |-> {}]
    /\ over = [s \in Spawners |-> {}]
    /\ kpc = [k \in Killers |-> "idle"]
    /\ victim = [k \in Killers |-> Old]

------------------------------------------------------------------------------
(* A daemon, as the walk can see it: the socket is there before the .pid,  *)
(* the .pid before the child, and the .meta last.                          *)

Become(d, from, to) == dpc[d] = from /\ dpc' = [dpc EXCEPT ![d] = to]
                       /\ UNCHANGED <<name, spawnVars, killVars>>
Write(d, from, file, to) == /\ Become(d, from, to)
                            /\ files' = [files EXCEPT ![d] = @ \union {file}]

Starts(d) == \/ Write(d, "bind", "sock", "pid")
             \/ Write(d, "pid", "pid", "number")
             \/ Write(d, "number", "number", "child")
             \/ Become(d, "child", "meta") /\ UNCHANGED files
             \/ Write(d, "meta", "meta", "serve")

\* openpty, the command or a file fails: the guard cleans up.
StartFails(d) == /\ dpc[d] \in {"child", "meta"}
                 /\ Become(d, dpc[d], "clean") /\ UNCHANGED files

\* A close, a signal, the idle timer: the child gets its grace period; after
\* the linger of a child that has exited there is none.
Close(d) == \E to \in {"grace", "clean"} : Become(d, "serve", to) /\ UNCHANGED files
GraceOver(d) == Become(d, "grace", "clean") /\ UNCHANGED files

\* Mutant: the guard removes the files in the order of their making.
GuardForwards(d) ==
    /\ Become(d, "clean", IF files[d] = {} THEN "gone" ELSE "clean")
    /\ files' = [files EXCEPT ![d] = IF "sock" \in @ THEN @ \ {"sock"}
                                     ELSE IF "pid" \in @ THEN @ \ {"pid"} ELSE {}]

\* The guard removes .pid, then .sock, then .meta; with nothing left it is over.
Guard(d) ==
    /\ Become(d, "clean", IF files[d] = {} THEN "gone" ELSE "clean")
    /\ files' = [files EXCEPT ![d] = IF "pid" \in @ THEN @ \ {"pid", "number"}
                                     ELSE IF "sock" \in @ THEN @ \ {"sock"} ELSE {}]

Crash(d) == /\ d \in MayCrash /\ Alive(d)
            /\ Become(d, dpc[d], "dead") /\ UNCHANGED files

------------------------------------------------------------------------------
(* run_spawn: list_active_metas, the check of the name, ensure_daemon. *)

Walk(s, from, to) == spc[s] = from /\ spc' = [spc EXCEPT ![s] = to]
                     /\ UNCHANGED <<name, killVars>>

\* read_dir: the entries there are now; each is looked at later.
Begin(s) ==
    /\ Walk(s, "idle", "entry")
    /\ todo' = [todo EXCEPT ![s] = {d \in Daemons : "pid" \in files[d]}]
    /\ held' = [held EXCEPT ![s] = {d \in SameName(s) : dpc[d] = "serve"}]
    /\ over' = [over EXCEPT ![s] = {d \in Daemons : dpc[d] \in Ended}]
    /\ UNCHANGED <<daemonVars, at, found>>

\* A .pid without a number in it is passed over, one that has gone too.
ReadPid(s) ==
    \E d \in todo[s] :
        /\ Walk(s, "entry", IF "number" \in files[d] THEN "alive" ELSE "entry")
        /\ todo' = [todo EXCEPT ![s] = @ \ {d}]
        /\ at' = [at EXCEPT ![s] = IF "number" \in files[d] THEN {d} ELSE {}]
        /\ UNCHANGED <<daemonVars, found, held, over>>

\* Mutant: every .pid with a number in it counts as active.
CheckAliveBlind(s) ==
    /\ Walk(s, "alive", "load")
    /\ UNCHANGED <<daemonVars, todo, at, found, held, over>>

\* kill(pid, 0)
CheckAlive(s) ==
    /\ Walk(s, "alive", IF \A d \in at[s] : Alive(d) THEN "load" ELSE "entry")
    /\ at' = [at EXCEPT ![s] = {d \in @ : Alive(d)}]
    /\ UNCHANGED <<daemonVars, todo, found, held, over>>

\* Mutant: the walk ends at the first daemon without a .meta.
LoadMetaStops(s) ==
    LET there == {d \in at[s] : "meta" \in files[d]}
    IN /\ Walk(s, "load", "entry")
       /\ found' = [found EXCEPT ![s] = @ \union there]
       /\ todo' = [todo EXCEPT ![s] = IF there = {} THEN {} ELSE @]
       /\ at' = [at EXCEPT ![s] = {}]
       /\ UNCHANGED <<daemonVars, held, over>>

\* A daemon without its .meta is passed over: early in its start, or at the
\* end of its cleanup.
LoadMeta(s) ==
    /\ Walk(s, "load", "entry")
    /\ found' = [found EXCEPT ![s] = @ \union {d \in at[s] : "meta" \in files[d]}]
    /\ at' = [at EXCEPT ![s] = {}]
    /\ UNCHANGED <<daemonVars, todo, held, over>>

Taken(s) == todo[s] = {} /\ found[s] \intersect SameName(s) # {}
Refuse(s) == /\ Taken(s) /\ Walk(s, "entry", "refused")
             /\ UNCHANGED <<daemonVars, todo, at, found, held, over>>
Fork(s) == /\ todo[s] = {} /\ ~Taken(s) /\ Walk(s, "entry", "poll")
           /\ dpc' = [dpc EXCEPT ![s] = "bind"]
           /\ found' = [found EXCEPT ![s] = {}]
           /\ UNCHANGED <<files, todo, at, held, over>>

\* The socket answers: spawn returns, before there is a .meta or even a .pid.
Return(s) ==
    /\ \/ CanConnect(s) /\ Walk(s, "poll", "started")
       \/ ~CanConnect(s) /\ ~Alive(s) /\ Walk(s, "poll", "error")
    /\ UNCHANGED <<daemonVars, todo, at, found, held, over>>

------------------------------------------------------------------------------
(* run_kill: it returns with the answer, before the daemon has closed (the  *)
(* Close of its victim, if that did not end by itself).                     *)

Kill(k, from, to) == kpc[k] = from /\ kpc' = [kpc EXCEPT ![k] = to]
                     /\ UNCHANGED <<name, daemonVars, spawnVars>>
Connect(k) == \E d \in Daemons : /\ Kill(k, "idle", "queued") /\ CanConnect(d)
                                 /\ victim' = [victim EXCEPT ![k] = d]
Accept(k) == /\ Kill(k, "queued", "accepted") /\ dpc[victim[k]] = "serve"
             /\ UNCHANGED victim
Answered(k) == /\ Kill(k, "accepted", "returned")
               /\ dpc[victim[k]] \in {"serve", "grace"} /\ UNCHANGED victim
Broken(k) == /\ kpc[k] \in {"queued", "accepted"} /\ Kill(k, kpc[k], "failed")
             /\ dpc[victim[k]] \in {"clean"} \union Ended /\ UNCHANGED victim

------------------------------------------------------------------------------
Spawn(s) == \/ Begin(s) \/ ReadPid(s) \/ CheckAlive(s) \/ LoadMeta(s) \/ Refuse(s)
            \/ Fork(s) \/ Return(s)
Daemon(d) == \/ Starts(d) \/ StartFails(d) \/ Close(d) \/ GraceOver(d) \/ Guard(d)
             \/ Crash(d)
Next == \/ \E d \in Daemons : Daemon(d)
        \/ \E s \in Spawners : Spawn(s)
        \/ \E k \in Killers : Connect(k) \/ Accept(k) \/ Answered(k) \/ Broken(k)
Spec == Init /\ [][Next]_vars

------------------------------------------------------------------------------
TypeOK ==
    /\ name \in [Daemons -> Names]
    /\ dpc \in [Daemons -> {"none", "bind", "pid", "number", "child", "meta", "serve",
                            "grace", "clean", "gone", "dead"}]
    /\ files \in [Daemons -> SUBSET Sidecars]
    /\ \A d \in Daemons : "number" \in files[d] => "pid" \in files[d]
    /\ spc \in [Spawners -> {"idle", "entry", "alive", "load", "refused", "poll",
                             "started", "error"}]
    /\ todo \in [Spawners -> SUBSET Daemons]
    /\ at \in [Spawners -> SUBSET Daemons]
    /\ found \in [Spawners -> SUBSET Daemons]
    /\ held \in [Spawners -> SUBSET Daemons]
    /\ over \in [Spawners -> SUBSET Daemons]
    /\ kpc \in [Killers -> {"idle", "queued", "accepted", "returned", "failed"}]
    /\ victim \in [Killers -> Daemons]

(* cli.rs:499-501 ("the CLI is the single point of policy here"): a spawn  *)
(* that begins while a daemon of its name serves starts another only if    *)
(* that one stops meanwhile, whatever else starts, ends or dies around the *)
(* walk; and it is never refused over a daemon that had ended before.      *)
NameCheckDecides ==
    \A s \in Spawners :
      /\ spc[s] \in {"poll", "started", "error"} => \A d \in held[s] : dpc[d] # "serve"
      /\ spc[s] = "refused" => \E d \in found[s] \ over[s] : name[d] = name[s]

=============================================================================
