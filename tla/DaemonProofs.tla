---------------------------- MODULE DaemonProofs ----------------------------
(***************************************************************************)
(* What a daemon leaves behind, for any number of clients, any exit codes, *)
(* any capacity of the reset channel and any number of faults and signals. *)
(***************************************************************************)
EXTENDS Daemon, TLAPS

LEMMA ConstantTypes ==
    /\ MaxFaults \in Nat /\ MaxSignals \in Nat /\ ResetCap \in Nat
    /\ NoCode \notin Codes /\ Codes # {}
    /\ Codes \intersect {"none", "running", "sent", "closing"} = {}
  BY DaemonAssumption

\* Nothing has happened to the child, the loop and the guard during startup.
StartupQuiet ==
    pc \in Startup => waiter = "off" /\ reason = "error" /\ cleaned = 0

\* The waiter thread reaps the child, the loop hears of it once, and from then
\* on the code it keeps is the child's, or none where wait() failed.
ChildView ==
    /\ waiter \in {"reaped", "sent", "failed", "taken"} <=> child = "reaped"
    /\ child \in {"zombie", "reaped"} => code \in Codes
    /\ linger = "armed" <=> waiter = "taken"
    /\ waiter = "failed" => faults > 0
    /\ waiter = "taken" => seen = code \/ (seen = NoCode /\ faults > 0)
    /\ seen # NoCode => waiter = "taken"
    /\ reason = "child_exited" => waiter = "taken"

\* A client was told that the daemon will close.
Closing == \E c \in Clients : req[c] = "close" /\ answer[c] = "closing"

\* What the clients were told, and what follows from it.
Told ==
    /\ \A c \in Clients : answer[c] # "none" => conn[c] \in {"closing", "closed"}
    /\ \A c \in Clients : conn[c] = "closing" => req[c] = "close" /\ answer[c] = "closing"
    /\ permit = 1 => Closing
    /\ reason = "close" => Closing
    /\ \A c \in Clients : req[c] = "status" /\ answer[c] \in Codes
                            => state = "exited" /\ seen = answer[c]

\* The guard goes through the suffixes once, and writes its line at the end.
Swept ==
    /\ \A i \in 1..5 : i <= cleaned => Suffixes[i] \notin files
    /\ cleaned > 0 => pc \in {"drop", "done"}
    /\ pc = "done" => cleaned = 5
    /\ recent # NoEntry => pc = "done" /\ recent = [reason |-> reason, code |-> seen]

\* Past the loop the child has ended, unless the daemon never got that far.
ChildDown == pc \in {"drop", "done"} /\ reason # "error" => child # "running"

Inv == TypeOK /\ StartupQuiet /\ ChildView /\ Told /\ Swept /\ ChildDown

------------------------------------------------------------------------------
LEMMA InvInit == Init => Inv
<1> SUFFICES ASSUME Init PROVE Inv
  OBVIOUS
<1>1. TypeOK
  BY ConstantTypes DEF Init, TypeOK, Startup, Ended, NoEntry
<1>2. StartupQuiet /\ ChildView /\ ChildDown
  BY DEF Init, StartupQuiet, ChildView, ChildDown
<1>3. Told
  BY ConstantTypes DEF Init, Told
<1>4. Swept
  BY DEF Init, Swept
<1> QED BY <1>1, <1>2, <1>3, <1>4 DEF Inv

\* A signal leaves a child that has ended as it is, and SIGKILL ends any.
LEMMA KillEnds ==
  ASSUME NEW hard \in BOOLEAN, Kill(hard), TypeOK, ChildView
  PROVE  /\ child' \in {"none", "running", "zombie", "reaped"}
         /\ code' \in Codes \union {NoCode}
         /\ child = "reaped" <=> child' = "reaped"
         /\ child # "running" => child' = child /\ code' = code
         /\ child' \in {"zombie", "reaped"} => code' \in Codes
         /\ hard => child' # "running"
         /\ child' = "running" => child = "running"
  BY DEF Kill, TypeOK, ChildView

------------------------------------------------------------------------------
LEMMA TypeStep == TypeOK /\ ChildView /\ [Next]_vars => TypeOK'
<1> SUFFICES ASSUME TypeOK, ChildView, [Next]_vars PROVE TypeOK'
  OBVIOUS
<1> USE ConstantTypes DEF TypeOK, Startup, Ended, Requests, loopVars, clientVars,
     childVars, boundVars
<1>1. CASE UNCHANGED vars
  BY <1>1 DEF vars
<1>2. ASSUME NEW step \in Startup, NEW file \in {"pid", "version", "cmd", "sock", "meta"},
             NEW then \in Startup, WriteSidecar(step, file, then)
      PROVE  TypeOK'
  BY <1>2 DEF WriteSidecar
<1>3. CASE Sidecars
  BY <1>2, <1>3 DEF Sidecars, Startup
<1>4. CASE WriteMeta
  BY <1>2, <1>4 DEF WriteMeta, Startup
<1>5. CASE SpawnChild
  BY <1>5 DEF SpawnChild
<1>6. CASE OpenLog
  BY <1>6 DEF OpenLog
<1>7. CASE StartWaiter
  BY <1>7 DEF StartWaiter
<1>8. CASE FailsUnguarded
  BY <1>8 DEF FailsUnguarded, Fault
<1>9. CASE FailsGuarded
  BY <1>9 DEF FailsGuarded, Fault
<1>10. ASSUME NEW c \in Clients, Accept(c) PROVE TypeOK'
  BY <1>10 DEF Accept, Arm
<1>11. CASE ExitArm
  BY <1>11 DEF ExitArm, Arm
<1>12. CASE LingerArm
  BY <1>12 DEF LingerArm, Arm
<1>13. CASE IdleResetArm
  BY <1>13 DEF IdleResetArm, Arm
<1>14. CASE CloseArm
  <2>1. Kill(FALSE)
    BY <1>14 DEF CloseArm, TermArm, Arm
  <2>2. /\ child' \in {"none", "running", "zombie", "reaped"}
        /\ code' \in Codes \union {NoCode}
    BY <2>1, KillEnds
  <2> QED BY <1>14, <2>2 DEF CloseArm, TermArm, Arm
<1>15. CASE SignalArm
  <2>1. Kill(FALSE)
    BY <1>15 DEF SignalArm, TermArm, Arm
  <2>2. /\ child' \in {"none", "running", "zombie", "reaped"}
        /\ code' \in Codes \union {NoCode}
    BY <2>1, KillEnds
  <2> QED BY <1>15, <2>2 DEF SignalArm, TermArm, Arm
<1>16. CASE IdleArm
  <2>1. Kill(FALSE)
    BY <1>16 DEF IdleArm, TermArm, Arm
  <2>2. /\ child' \in {"none", "running", "zombie", "reaped"}
        /\ code' \in Codes \union {NoCode}
    BY <2>1, KillEnds
  <2> QED BY <1>16, <2>2 DEF IdleArm, TermArm, Arm
<1>17. CASE GraceOver
  <2>1. Kill(TRUE)
    BY <1>17 DEF GraceOver
  <2>2. /\ child' \in {"none", "running", "zombie", "reaped"}
        /\ code' \in Codes \union {NoCode}
    BY <2>1, KillEnds
  <2>3. state' \in {"running", "exited"}
    BY <1>17 DEF GraceOver
  <2> QED BY <1>17, <2>2, <2>3 DEF GraceOver
<1>18. CASE CleanNext
  <2>1. files' \subseteq files
    BY <1>18 DEF CleanNext
  <2>2. cleaned' \in 0..5
    BY <1>18 DEF CleanNext
  <2>3. UNCHANGED <<pc, childVars, loopVars, recent, clientVars, boundVars>>
    BY <1>18 DEF CleanNext
  <2>4. files' \subseteq {"pid", "version", "cmd", "sock", "meta"}
    BY <2>1
  <2> QED BY <2>2, <2>3, <2>4
<1>19. CASE Record
  BY <1>19 DEF Record
<1>20. ASSUME NEW c \in Clients, Handle(c) PROVE TypeOK'
  <2>1. /\ child' \in {"none", "running", "zombie", "reaped"}
        /\ code' \in Codes \union {NoCode}
    BY <1>20, KillEnds DEF Handle
  <2>2. Reply(c) \in Codes \union {"none", "running", "sent", "closing", NoCode}
    BY <1>20 DEF Reply, Handle, Requests
  <2>3. resets' \in 0..ResetCap
    BY <1>20 DEF Handle, Poke
  <2>4. /\ conn' \in [Clients -> {"away", "queued", "gone", "open", "openGone", "closing", "closed"}]
        /\ answer' \in [Clients -> Codes \union {"none", "running", "sent", "closing", NoCode}]
    BY <1>20, <2>2 DEF Handle
  <2>5. pc' \in Startup \union Ended \union {"select", "grace", "drop"}
    BY <1>20 DEF Handle, Ended
  <2> QED BY <1>20, <2>1, <2>3, <2>4, <2>5 DEF Handle
<1>21. ASSUME NEW c \in Clients, HandleProbe(c) PROVE TypeOK'
  BY <1>21 DEF HandleProbe
<1>22. ASSUME NEW c \in Clients, NotifyClose(c) PROVE TypeOK'
  BY <1>22 DEF NotifyClose
<1>23. ASSUME NEW c \in Clients, Connect(c) PROVE TypeOK'
  BY <1>23 DEF Connect
<1>24. ASSUME NEW c \in Clients, Abandon(c) PROVE TypeOK'
  BY <1>24 DEF Abandon
<1>25. CASE ChildExits
  BY <1>25 DEF ChildExits
<1>26. CASE Reap
  BY <1>26 DEF Reap
<1>27. CASE SendExit
  BY <1>27 DEF SendExit, Fault
<1>28. CASE Shutdown
  BY <1>28 DEF Shutdown
<1> QED
  BY <1>1, <1>3, <1>4, <1>5, <1>6, <1>7, <1>8, <1>9, <1>10, <1>11, <1>12, <1>13,
       <1>14, <1>15, <1>16, <1>17, <1>18, <1>19, <1>20, <1>21, <1>22, <1>23, <1>24,
       <1>25, <1>26, <1>27, <1>28
  DEF Next, Main, Select, Task, Waiter

\* The child and the loop's view of it.
LEMMA ChildStep ==
  ASSUME TypeOK, StartupQuiet, ChildView, ChildDown, [Next]_vars
  PROVE  (StartupQuiet /\ ChildView /\ ChildDown)'
<1> DEFINE Goal == StartupQuiet /\ ChildView /\ ChildDown
<1> USE ConstantTypes DEF StartupQuiet, ChildView, ChildDown, Startup, Ended,
     loopVars, clientVars, childVars, boundVars
<1>1. CASE UNCHANGED vars
  BY <1>1 DEF vars
<1>2. ASSUME NEW step \in Startup, NEW file \in {"pid", "version", "cmd", "sock", "meta"},
             NEW then \in Startup, WriteSidecar(step, file, then)
      PROVE  Goal'
  BY <1>2 DEF WriteSidecar
<1>3. CASE Sidecars
  BY <1>2, <1>3 DEF Sidecars, Startup
<1>4. CASE WriteMeta
  BY <1>2, <1>4 DEF WriteMeta, Startup
<1>5. CASE SpawnChild
  BY <1>5 DEF SpawnChild, TypeOK
<1>6. CASE OpenLog
  BY <1>6 DEF OpenLog
<1>7. CASE StartWaiter
  BY <1>7 DEF StartWaiter
<1>8. CASE FailsUnguarded
  BY <1>8 DEF FailsUnguarded, Fault, TypeOK
<1>9. CASE FailsGuarded
  BY <1>9 DEF FailsGuarded, Fault, TypeOK
<1>10. ASSUME NEW c \in Clients, Accept(c) PROVE Goal'
  BY <1>10 DEF Accept, Arm
<1>11. CASE ExitArm
  BY <1>11 DEF ExitArm, Arm, TypeOK
<1>12. CASE LingerArm
  BY <1>12 DEF LingerArm, Arm
<1>13. CASE IdleResetArm
  BY <1>13 DEF IdleResetArm, Arm
<1>14. CASE CloseArm
  <2>1. Kill(FALSE)
    BY <1>14 DEF CloseArm, TermArm, Arm
  <2> QED BY <1>14, <2>1, KillEnds DEF CloseArm, TermArm, Arm
<1>15. CASE SignalArm
  <2>1. Kill(FALSE)
    BY <1>15 DEF SignalArm, TermArm, Arm
  <2> QED BY <1>15, <2>1, KillEnds DEF SignalArm, TermArm, Arm
<1>16. CASE IdleArm
  <2>1. Kill(FALSE)
    BY <1>16 DEF IdleArm, TermArm, Arm
  <2> QED BY <1>16, <2>1, KillEnds DEF IdleArm, TermArm, Arm
<1>17. CASE GraceOver
  <2>1. Kill(TRUE)
    BY <1>17 DEF GraceOver
  <2> QED BY <1>17, <2>1, KillEnds DEF GraceOver
<1>18. CASE CleanNext
  BY <1>18 DEF CleanNext
<1>19. CASE Record
  BY <1>19 DEF Record
<1>20. ASSUME NEW c \in Clients, Handle(c) PROVE Goal'
  <2>1. CASE \E hard \in BOOLEAN : Kill(hard)
    BY <1>20, <2>1, KillEnds DEF Handle, Awaiting
  <2>2. CASE UNCHANGED <<child, code>>
    BY <1>20, <2>2 DEF Handle, Awaiting
  <2> QED BY <1>20, <2>1, <2>2 DEF Handle
<1>21. ASSUME NEW c \in Clients, HandleProbe(c) PROVE Goal'
  BY <1>21 DEF HandleProbe
<1>22. ASSUME NEW c \in Clients, NotifyClose(c) PROVE Goal'
  BY <1>22 DEF NotifyClose
<1>23. ASSUME NEW c \in Clients, Connect(c) PROVE Goal'
  BY <1>23 DEF Connect
<1>24. ASSUME NEW c \in Clients, Abandon(c) PROVE Goal'
  BY <1>24 DEF Abandon
<1>25. CASE ChildExits
  BY <1>25 DEF ChildExits
<1>26. CASE Reap
  BY <1>26 DEF Reap, TypeOK
<1>27. CASE SendExit
  BY <1>27 DEF SendExit, Fault, TypeOK
<1>28. CASE Shutdown
  BY <1>28 DEF Shutdown
<1> QED
  BY <1>1, <1>3, <1>4, <1>5, <1>6, <1>7, <1>8, <1>9, <1>10, <1>11, <1>12, <1>13,
       <1>14, <1>15, <1>16, <1>17, <1>18, <1>19, <1>20, <1>21, <1>22, <1>23, <1>24,
       <1>25, <1>26, <1>27, <1>28
  DEF Next, Main, Select, Task, Waiter

\* What clients were told stays true: answers are given once.
LEMMA ToldStep ==
  ASSUME TypeOK, StartupQuiet, ChildView, Told, [Next]_vars
  PROVE  Told'
<1> USE ConstantTypes DEF loopVars, clientVars, childVars, boundVars
<1>0. ASSUME answer' = answer, req' = req, NEW c \in Clients,
             \A d \in Clients \ {c} : conn'[d] = conn[d],
             answer[c] = "none" \/ conn'[c] \in {"closing", "closed"},
             conn'[c] = "closing" => conn[c] = "closing",
             permit' = 1 => permit = 1 \/ Closing, reason' = reason, state' = state, seen' = seen
      PROVE  Told'
  BY <1>0 DEF Told, Closing
<1>1. CASE UNCHANGED vars
  BY <1>1 DEF vars, Told, Closing
<1>2. ASSUME NEW step \in Startup, NEW file \in {"pid", "version", "cmd", "sock", "meta"},
             NEW then \in Startup, WriteSidecar(step, file, then)
      PROVE  Told'
  BY <1>2 DEF WriteSidecar, Told, Closing
<1>3. CASE Sidecars
  BY <1>2, <1>3 DEF Sidecars, Startup
<1>4. CASE WriteMeta
  BY <1>2, <1>4 DEF WriteMeta, Startup
<1>5. CASE SpawnChild
  BY <1>5 DEF SpawnChild, Told, Closing
<1>6. CASE OpenLog
  BY <1>6 DEF OpenLog, Told, Closing
<1>7. CASE StartWaiter
  BY <1>7 DEF StartWaiter, Told, Closing
<1>8. CASE FailsUnguarded
  BY <1>8 DEF FailsUnguarded, Fault, Told, Closing
<1>9. CASE FailsGuarded
  BY <1>9 DEF FailsGuarded, Fault, Told, Closing
<1>10. ASSUME NEW c \in Clients, Accept(c) PROVE Told'
  BY <1>10, <1>0 DEF Accept, Arm, TypeOK, Told
<1>11. CASE ExitArm
  BY <1>11 DEF ExitArm, Arm, Told, Closing, ChildView, TypeOK
<1>12. CASE LingerArm
  BY <1>12 DEF LingerArm, Arm, Told, Closing
<1>13. CASE IdleResetArm
  BY <1>13 DEF IdleResetArm, Arm, Told, Closing
<1>14. CASE CloseArm
  BY <1>14 DEF CloseArm, TermArm, Arm, Told, Closing
<1>15. CASE SignalArm
  BY <1>15 DEF SignalArm, TermArm, Arm, Told, Closing
<1>16. CASE IdleArm
  BY <1>16 DEF IdleArm, TermArm, Arm, Told, Closing
<1>17. CASE GraceOver
  BY <1>17 DEF GraceOver, Told, Closing
<1>18. CASE CleanNext
  BY <1>18 DEF CleanNext, Told, Closing
<1>19. CASE Record
  BY <1>19 DEF Record, Told, Closing
<1>20. ASSUME NEW c \in Clients, Handle(c) PROVE Told'
  <2>1. answer[c] = "none" /\ req[c] # "probe" /\ c \in DOMAIN answer /\ c \in DOMAIN conn
    BY <1>20 DEF Handle, TypeOK, Told
  <2>2. UNCHANGED <<req, permit, reason, state, seen>>
    BY <1>20 DEF Handle
  <2>3. CASE conn[c] = "openGone"
    <3>1. answer' = answer /\ conn' = [conn EXCEPT ![c] = "closed"]
      BY <1>20, <2>3 DEF Handle
    <3> QED BY <1>0, <2>1, <2>2, <3>1
  <2>4. CASE conn[c] = "open"
    <3>1. /\ answer' = [answer EXCEPT ![c] = Reply(c)]
          /\ conn' = [conn EXCEPT ![c] = IF req[c] = "close" THEN "closing" ELSE "closed"]
      BY <1>20, <2>4 DEF Handle
    <3>2. /\ answer'[c] = Reply(c) /\ conn'[c] = (IF req[c] = "close" THEN "closing" ELSE "closed")
          /\ \A d \in Clients \ {c} : answer'[d] = answer[d] /\ conn'[d] = conn[d]
      BY <2>1, <3>1
    <3>3. /\ req[c] = "close" => Reply(c) = "closing"
          /\ req[c] = "status" /\ Reply(c) \in Codes => state = "exited" /\ seen = Reply(c)
      BY DEF Reply, TypeOK
    <3>4. Closing => Closing'
      BY <2>1, <2>2, <3>2 DEF Closing
    <3> QED BY <2>1, <2>2, <3>2, <3>3, <3>4 DEF Told
  <2> QED BY <1>20, <2>3, <2>4 DEF Handle
<1>21. ASSUME NEW c \in Clients, HandleProbe(c) PROVE Told'
  BY <1>21, <1>0 DEF HandleProbe, TypeOK, Told
<1>22. ASSUME NEW c \in Clients, NotifyClose(c) PROVE Told'
  BY <1>22, <1>0 DEF NotifyClose, TypeOK, Told, Closing
<1>23. ASSUME NEW c \in Clients, Connect(c) PROVE Told'
  BY <1>23, <1>0 DEF Connect, TypeOK, Told
<1>24. ASSUME NEW c \in Clients, Abandon(c) PROVE Told'
  BY <1>24, <1>0 DEF Abandon, TypeOK, Told
<1>25. CASE ChildExits
  BY <1>25 DEF ChildExits, Told, Closing
<1>26. CASE Reap
  BY <1>26 DEF Reap, Told, Closing
<1>27. CASE SendExit
  BY <1>27 DEF SendExit, Told, Closing
<1>28. CASE Shutdown
  BY <1>28 DEF Shutdown, Told, Closing
<1> QED
  BY <1>1, <1>3, <1>4, <1>5, <1>6, <1>7, <1>8, <1>9, <1>10, <1>11, <1>12, <1>13,
       <1>14, <1>15, <1>16, <1>17, <1>18, <1>19, <1>20, <1>21, <1>22, <1>23, <1>24,
       <1>25, <1>26, <1>27, <1>28
  DEF Next, Main, Select, Task, Waiter

\* The guard: each suffix goes once and for all, and the line comes last.
LEMMA SweptStep ==
  ASSUME TypeOK, StartupQuiet, Swept, [Next]_vars
  PROVE  Swept'
<1> USE DEF loopVars, clientVars, childVars, boundVars, Startup, Ended
<1>1. CASE UNCHANGED vars
  BY <1>1 DEF vars, Swept
<1>2. ASSUME NEW step \in Startup, NEW file \in {"pid", "version", "cmd", "sock", "meta"},
             NEW then \in Startup, WriteSidecar(step, file, then)
      PROVE  Swept'
  BY <1>2 DEF WriteSidecar, StartupQuiet, Swept
<1>3. CASE Sidecars
  BY <1>2, <1>3 DEF Sidecars, Startup
<1>4. CASE WriteMeta
  BY <1>2, <1>4 DEF WriteMeta, Startup
<1>5. CASE SpawnChild
  BY <1>5 DEF SpawnChild, StartupQuiet, Swept
<1>6. CASE OpenLog
  BY <1>6 DEF OpenLog, StartupQuiet, Swept
<1>7. CASE StartWaiter
  BY <1>7 DEF StartWaiter, StartupQuiet, Swept
<1>8. CASE FailsUnguarded
  BY <1>8 DEF FailsUnguarded, Fault, StartupQuiet, Swept
<1>9. CASE FailsGuarded
  BY <1>9 DEF FailsGuarded, Fault, StartupQuiet, Swept
<1>10. ASSUME NEW c \in Clients, Accept(c) PROVE Swept'
  BY <1>10 DEF Accept, Arm, Swept
<1>11. CASE ExitArm
  BY <1>11 DEF ExitArm, Arm, Swept
<1>12. CASE LingerArm
  BY <1>12 DEF LingerArm, Arm, Swept
<1>13. CASE IdleResetArm
  BY <1>13 DEF IdleResetArm, Arm, Swept
<1>14. CASE CloseArm
  BY <1>14 DEF CloseArm, TermArm, Arm, Swept
<1>15. CASE SignalArm
  BY <1>15 DEF SignalArm, TermArm, Arm, Swept
<1>16. CASE IdleArm
  BY <1>16 DEF IdleArm, TermArm, Arm, Swept
<1>17. CASE GraceOver
  BY <1>17 DEF GraceOver, Swept
<1>18. CASE CleanNext
  <2>1. /\ cleaned \in 0..4 /\ cleaned' = cleaned + 1 /\ pc = "drop" /\ pc' = "drop"
        /\ recent' = recent /\ reason' = reason /\ seen' = seen
    BY <1>18 DEF CleanNext, TypeOK
  <2>2. files' = files \ {Suffixes[cleaned + 1]}
    BY <1>18 DEF CleanNext
  <2>3. ASSUME NEW i \in 1..5, i <= cleaned + 1 PROVE Suffixes[i] \notin files'
    <3>1. i = cleaned + 1 \/ i <= cleaned
      BY <2>1, <2>3
    <3> QED BY <2>2, <3>1 DEF Swept
  <2> QED BY <2>1, <2>3 DEF Swept
<1>19. CASE Record
  BY <1>19 DEF Record, Swept, TypeOK
<1>20. ASSUME NEW c \in Clients, Handle(c) PROVE Swept'
  BY <1>20 DEF Handle, Awaiting, Swept
<1>21. ASSUME NEW c \in Clients, HandleProbe(c) PROVE Swept'
  BY <1>21 DEF HandleProbe, Swept
<1>22. ASSUME NEW c \in Clients, NotifyClose(c) PROVE Swept'
  BY <1>22 DEF NotifyClose, Swept
<1>23. ASSUME NEW c \in Clients, Connect(c) PROVE Swept'
  BY <1>23 DEF Connect, Swept
<1>24. ASSUME NEW c \in Clients, Abandon(c) PROVE Swept'
  BY <1>24 DEF Abandon, Swept
<1>25. CASE ChildExits
  BY <1>25 DEF ChildExits, Swept
<1>26. CASE Reap
  BY <1>26 DEF Reap, Swept
<1>27. CASE SendExit
  BY <1>27 DEF SendExit, Swept
<1>28. CASE Shutdown
  BY <1>28 DEF Shutdown, Swept
<1> QED
  BY <1>1, <1>3, <1>4, <1>5, <1>6, <1>7, <1>8, <1>9, <1>10, <1>11, <1>12, <1>13,
       <1>14, <1>15, <1>16, <1>17, <1>18, <1>19, <1>20, <1>21, <1>22, <1>23, <1>24,
       <1>25, <1>26, <1>27, <1>28
  DEF Next, Main, Select, Task, Waiter

------------------------------------------------------------------------------
LEMMA Inductive == Spec => []Inv
<1>1. Inv /\ [Next]_vars => Inv'
  BY TypeStep, ChildStep, ToldStep, SweptStep DEF Inv
<1> QED BY InvInit, <1>1, PTL DEF Spec

\* Every state of a daemon is well typed.
THEOREM TypeInvariance == Spec => []TypeOK
<1>1. Inv => TypeOK
  BY DEF Inv
<1> QED BY Inductive, <1>1, PTL

\* No child outlives its daemon's loop (daemon.rs:318-357), however many
\* closes, signals and timers coincide with its exit.
THEOREM NoOrphanInvariance == Spec => []NoOrphan
<1>1. Inv => NoOrphan
  BY DEF Inv, ChildDown, NoOrphan
<1> QED BY Inductive, <1>1, PTL

\* The line in recent.jsonl (daemon.rs:127-141) comes last and agrees with the
\* child and with everything clients were told.
THEOREM RecordInvariance == Spec => []RecordExplainsExit
<1>1. Inv => RecordExplainsExit
  <2> SUFFICES ASSUME Inv, recent # NoEntry PROVE RecordExplainsExit
    BY DEF RecordExplainsExit
  <2>1. /\ pc = "done" /\ cleaned = 5
        /\ recent.reason = reason /\ recent.code = seen
    BY DEF Inv, Swept
  <2>2. files = {}
    <3>1. \A i \in 1..5 : Suffixes[i] \notin files
      BY <2>1 DEF Inv, Swept
    <3>2. /\ Suffixes[1] = "pid" /\ Suffixes[2] = "version" /\ Suffixes[3] = "cmd"
          /\ Suffixes[4] = "sock" /\ Suffixes[5] = "meta"
      BY DEF Suffixes
    <3> QED BY <3>1, <3>2 DEF Inv, TypeOK
  <2>3. recent.code # NoCode => child = "reaped" /\ recent.code = code
    BY <2>1 DEF Inv, ChildView
  <2>4. \A c \in Clients : req[c] = "status" /\ answer[c] \in Codes => recent.code = answer[c]
    BY <2>1 DEF Inv, Told
  <2>5. recent.reason = "child_exited" /\ faults = 0 => recent.code # NoCode
    BY <2>1, ConstantTypes DEF Inv, ChildView
  <2>6. recent.reason = "close" => Closing
    BY <2>1 DEF Inv, Told
  <2> QED BY <2>2, <2>3, <2>4, <2>5, <2>6 DEF RecordExplainsExit, Closing
<1> QED BY Inductive, <1>1, PTL

\* What one client was told of the exit, every later one is told
\* (daemon.rs:430-437), also during the grace period.
THEOREM ExitedStaysExited == Spec => ExitedIsFinal
<1> DEFINE Agree == \A c, d \in Clients :
                      /\ req[c] = "status" /\ answer[c] \in Codes
                      /\ req[d] = "status" /\ answer'[d] # answer[d]
                      => answer'[d] = answer[c]
<1>1. Inv /\ [Next]_vars => [Agree]_vars
  <2> SUFFICES ASSUME Inv, Next, NEW c \in Clients, NEW d \in Clients,
                      req[c] = "status", answer[c] \in Codes,
                      req[d] = "status", answer'[d] # answer[d]
               PROVE  answer'[d] = answer[c]
    OBVIOUS
  <2>1. PICK e \in Clients : Handle(e)
    BY DEF Next, Main, Select, Task, Waiter, Sidecars, WriteMeta, WriteSidecar,
         SpawnChild,
           OpenLog, StartWaiter, FailsUnguarded, FailsGuarded, Accept, ExitArm, LingerArm,
           IdleResetArm, CloseArm, SignalArm, IdleArm, TermArm, GraceOver, CleanNext, Record,
           HandleProbe, NotifyClose, Connect, Abandon, ChildExits, Reap, SendExit, Shutdown,
           clientVars
  <2>2. answer'[d] = Reply(d)
    BY <2>1 DEF Handle, Inv, TypeOK
  <2>3. state = "exited" /\ seen = answer[c]
    BY DEF Inv, Told
  <2> QED BY <2>2, <2>3 DEF Reply
<1>2. Spec => [][Agree]_vars
  BY Inductive, <1>1, PTL DEF Spec
<1> QED BY <1>2 DEF ExitedIsFinal

=============================================================================
