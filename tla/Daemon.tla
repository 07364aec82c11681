-------------------------------- MODULE Daemon --------------------------------
(***************************************************************************)
(* One daemon process (src/src/daemon.rs), from bind to exit: the main     *)
(* task with its select loop, one task per connection, the thread that     *)
(* waits for the child, the child, and the clients of the socket.  The     *)
(* runtime is single-threaded (main.rs:48), so a task runs from one await  *)
(* to the next undisturbed; threads, the child, the clients and signals    *)
(* come in between.  Time is abstract: a timer that is armed may fire.     *)
(***************************************************************************)
EXTENDS Naturals

CONSTANTS Clients,     \* processes that connect once and send one request
          Codes,       \* exit codes of the child
          IdleSettings, \* the values AGENT_TERM_IDLE_TIMEOUT_MS > 0 may have
          MaxFaults,   \* bound: failing calls during startup, and of wait()
          MaxSignals,  \* bound: TERM/INT/HUP sent to the daemon
          ResetCap     \* capacity of the idle_reset channel (64)

CONSTANT NoCode
ASSUME DaemonAssumption ==
    /\ IdleSettings \subseteq BOOLEAN
    /\ MaxFaults \in Nat /\ MaxSignals \in Nat /\ ResetCap \in Nat
    /\ NoCode \notin Codes /\ Codes # {}
    /\ Codes \intersect {"none", "running", "sent", "closing"} = {}

VARIABLES pc,        \* where the main task stands
          files,     \* the sidecars on disk
          cleaned,   \* suffixes cleanup_stale_files has gone through
          child,     \* the child process: none, running, zombie, reaped
          code,      \* its exit code
          waiter,    \* the waiter thread: off, waiting, reaped; then it has sent
                     \* the code or None (sent, failed), and the loop took it
          state,     \* SharedState.state: running or exited
          seen,      \* the code in SharedState.state and in the guard
          linger,    \* linger_deadline is Some(_)
          permit,    \* the permit stored in close_notify
          sig,       \* a signal reached the receivers of this select poll
          resets,    \* messages in the idle_reset channel
          reason,    \* exit_reason
          recent,    \* the line this daemon added to recent.jsonl
          conn,      \* client -> state of its connection
          req,       \* client -> the request it sends
          answer,    \* client -> the response written to it
          idleOn,    \* an idle timeout is set for this daemon
          faults, signals

loopVars == <<state, seen, linger, permit, sig, resets, reason>>
clientVars == <<conn, req, answer>>
childVars == <<child, code, waiter>>
boundVars == <<idleOn, faults, signals>>
vars == <<pc, files, cleaned, childVars, loopVars, recent, clientVars, boundVars>>

------------------------------------------------------------------------------
Suffixes == <<"pid", "version", "cmd", "sock", "meta">>   \* state.rs:8
Requests == {"status", "signal", "close", "probe"}
NoEntry == [reason |-> "none", code |-> NoCode]
Startup == {"bind", "pid", "version", "cmd", "spawn", "log", "meta", "wait"}
Ended == {"done", "failed", "dead"}
\* Tasks other than the main one run only while it awaits.
Awaiting == pc \in {"select", "grace"}

Init ==
    /\ pc = "bind" /\ files = {} /\ cleaned = 0
    /\ child = "none" /\ code = NoCode /\ waiter = "off"
    /\ state = "running" /\ seen = NoCode
    /\ linger = "off" /\ permit = 0 /\ sig = "none" /\ resets = 0
    /\ reason = "error" /\ recent = NoEntry
    /\ conn = [c \in Clients |-> "away"]
    /\ req \in [Clients -> Requests]
    /\ answer = [c \in Clients |-> "none"]
    /\ faults = 0 /\ signals = 0
    /\ idleOn \in IdleSettings

Fault == faults < MaxFaults /\ faults' = faults + 1 /\ UNCHANGED <<idleOn, signals>>

------------------------------------------------------------------------------
(* Startup: run_daemon and the head of run_main_loop. *)

\* Bind, then .pid, .version and .cmd, each followed by the next.
WriteSidecar(step, file, then) ==
    /\ pc = step
    /\ files' = files \union {file}
    /\ pc' = then
    /\ UNCHANGED <<cleaned, childVars, loopVars, recent, clientVars, boundVars>>
Sidecars == \/ WriteSidecar("bind", "sock", "pid")
            \/ WriteSidecar("pid", "pid", "version")
            \/ WriteSidecar("version", "version", "cmd")
            \/ WriteSidecar("cmd", "cmd", "spawn")

\* `?` before the guard exists: the process exits and cleans up nothing.
FailsUnguarded ==
    /\ pc \in {"bind", "pid", "version", "cmd"}
    /\ Fault
    /\ pc' = "failed"
    /\ UNCHANGED <<files, cleaned, childVars, loopVars, recent, clientVars>>

SpawnChild ==
    /\ pc = "spawn"
    /\ child' = "running"
    /\ pc' = "log"
    /\ UNCHANGED <<files, cleaned, code, waiter, loopVars, recent,
                   clientVars, boundVars>>

\* The log is opened and the reader thread started.
OpenLog ==
    /\ pc = "log"
    /\ pc' = "meta"
    /\ UNCHANGED <<files, cleaned, childVars, loopVars, recent, clientVars, boundVars>>
WriteMeta == WriteSidecar("meta", "meta", "wait")

\* `?` under the guard: the sidecars go and the entry says "error".
FailsGuarded ==
    /\ pc \in {"spawn", "log", "meta"}
    /\ Fault
    /\ pc' = "drop"
    /\ UNCHANGED <<files, cleaned, childVars, loopVars, recent, clientVars>>

StartWaiter ==
    /\ pc = "wait"
    /\ waiter' = "waiting"
    /\ pc' = "select"
    /\ UNCHANGED <<files, cleaned, child, code, loopVars, recent,
                   clientVars, boundVars>>

------------------------------------------------------------------------------
(* The arms of select!.  Any ready arm may win; the receivers of the losing *)
(* shutdown_signal() are dropped with a signal they hold, whereas channels  *)
(* and Notify keep theirs.                                                  *)

Arm(next) == pc = "select" /\ pc' = next /\ sig' = "none"

Accept(c) ==
    /\ Arm("select") /\ conn[c] \in {"queued", "gone"}
    /\ conn' = [conn EXCEPT ![c] = IF @ = "gone" THEN "openGone" ELSE "open"]
    /\ UNCHANGED <<files, cleaned, childVars, state, seen, linger, permit, resets,
                   reason, recent, req, answer, boundVars>>

\* Mutant: the linger deadline is never set.
ExitArmNoLinger ==
    /\ Arm("select") /\ linger = "off" /\ waiter \in {"sent", "failed"}
    /\ waiter' = "taken"
    /\ state' = "exited" /\ seen' = IF waiter = "sent" THEN code ELSE NoCode
    /\ reason' = "child_exited"
    /\ UNCHANGED <<files, cleaned, child, code, permit, resets,
                   linger, recent, clientVars, boundVars>>

ExitArm ==
    /\ Arm("select") /\ linger = "off" /\ waiter \in {"sent", "failed"}
    /\ waiter' = "taken"
    /\ state' = "exited" /\ seen' = IF waiter = "sent" THEN code ELSE NoCode
    /\ linger' = "armed"
    /\ reason' = "child_exited"
    /\ UNCHANGED <<files, cleaned, child, code, permit, resets,
                   recent, clientVars, boundVars>>

LingerArm ==
    /\ Arm("drop") /\ linger = "armed"
    /\ UNCHANGED <<files, cleaned, childVars, state, seen, linger, permit, resets,
                   reason, recent, clientVars, boundVars>>

\* kill(child_pid, ..): SIGKILL ends a running child, any other signal leaves
\* it to the child (ChildExits); a child that has ended is past both.
Kill(hard) ==
    IF hard /\ child = "running" THEN child' = "zombie" /\ code' \in Codes
                                 ELSE UNCHANGED <<child, code>>

\* Mutant: Exited { code: None } is stored before the grace period.
TermArmStoresEarly(ready, why) ==
    /\ Arm("grace") /\ ready
    /\ Kill(FALSE)
    /\ reason' = why
    /\ state' = "exited" /\ seen' = NoCode
    /\ UNCHANGED <<files, cleaned, waiter, linger, resets,
                   recent, clientVars, boundVars>>

\* close, a signal, or the idle timer: SIGTERM, then the grace period.
\* exit_reason is assigned after the grace; nothing reads it before.
TermArm(ready, why) ==
    /\ Arm("grace") /\ ready
    /\ Kill(FALSE)
    /\ reason' = why
    /\ UNCHANGED <<files, cleaned, waiter, state, seen, linger, resets,
                   recent, clientVars, boundVars>>
CloseArm == TermArm(permit = 1, "close") /\ permit' = 0
SignalArm == TermArm(sig = "got", "signal") /\ UNCHANGED permit
\* Mutant: `continue` for `break`: the child gets SIGTERM and the loop goes on.
IdleArmContinues ==
    /\ Arm("select") /\ idleOn
    /\ Kill(FALSE)
    /\ reason' = "idle"
    /\ UNCHANGED <<files, cleaned, waiter, state, seen, linger, permit, resets,
                   recent, clientVars, boundVars>>
IdleArm == TermArm(idleOn, "idle") /\ UNCHANGED permit

IdleResetArm ==
    /\ Arm("select") /\ resets > 0
    /\ resets' = resets - 1
    /\ UNCHANGED <<files, cleaned, childVars, state, seen, linger, permit, reason,
                   recent, clientVars, boundVars>>

\* Mutant: no SIGKILL after the grace.
GraceOverNoKill ==
    /\ pc = "grace"
    /\ Kill(FALSE)
    /\ state' = IF reason = "close" THEN "exited" ELSE state
    /\ pc' = "drop"
    /\ UNCHANGED <<files, cleaned, waiter, seen, linger, permit, sig, resets,
                   reason, recent, clientVars, boundVars>>

\* The grace is over: SIGKILL, and the loop ends.  The close arm also stores
\* Exited { code: None }, which no task reads any more.
GraceOver ==
    /\ pc = "grace"
    /\ Kill(TRUE)
    /\ state' = IF reason = "close" THEN "exited" ELSE state
    /\ pc' = "drop"
    /\ UNCHANGED <<files, cleaned, waiter, seen, linger, permit, sig, resets,
                   reason, recent, clientVars, boundVars>>

\* Mutant: one suffix is forgotten.
CleanNextShort ==
    /\ pc = "drop" /\ cleaned < 5
    /\ files' = IF cleaned = 4 THEN files ELSE files \ {Suffixes[cleaned + 1]}
    /\ cleaned' = cleaned + 1
    /\ UNCHANGED <<pc, childVars, loopVars, recent, clientVars, boundVars>>

\* Drop for CleanupGuard: the sidecars one after the other, then the entry.
CleanNext ==
    /\ pc = "drop" /\ cleaned < 5
    /\ files' = files \ {Suffixes[cleaned + 1]}
    /\ cleaned' = cleaned + 1
    /\ UNCHANGED <<pc, childVars, loopVars, recent, clientVars, boundVars>>

\* Mutant: the exit code is only kept when the child's exit ended the loop.
RecordDropsCode ==
    /\ pc = "drop" /\ cleaned = 5
    /\ recent' = [reason |-> reason,
                  code |-> IF reason = "child_exited" THEN seen ELSE NoCode]
    /\ pc' = "done"
    /\ UNCHANGED <<files, cleaned, childVars, loopVars, clientVars, boundVars>>

Record ==
    /\ pc = "drop" /\ cleaned = 5
    /\ recent' = [reason |-> reason, code |-> seen]
    /\ pc' = "done"
    /\ UNCHANGED <<files, cleaned, childVars, loopVars, clientVars, boundVars>>

------------------------------------------------------------------------------
(* Connections: handle_connection and dispatch. *)

\* connect() succeeds as long as the socket file is there and listened to;
\* the request is in the buffer before the daemon looks at it.
Connect(c) ==
    /\ conn[c] = "away" /\ "sock" \in files /\ pc \notin Ended
    /\ conn' = [conn EXCEPT ![c] = "queued"]
    /\ UNCHANGED <<pc, files, cleaned, childVars, loopVars, recent, req, answer,
                   boundVars>>

\* The client dies, or its read times out, before it has the response.
Abandon(c) ==
    /\ conn[c] \in {"queued", "open"}
    /\ conn' = [conn EXCEPT ![c] = IF @ = "queued" THEN "gone" ELSE "openGone"]
    /\ UNCHANGED <<pc, files, cleaned, childVars, loopVars, recent, req, answer,
                   boundVars>>

Reply(c) == [status |-> IF state = "running" THEN state ELSE seen,
             signal |-> "sent", close |-> "closing"][req[c]]

\* Mutant: the channel is unbounded.
PokeUnbounded == resets' = IF idleOn THEN resets + 1 ELSE resets
Poke == resets' = IF idleOn /\ resets < ResetCap THEN resets + 1 ELSE resets

\* Mutant: the connection ends after the answer, the loop is never notified.
HandleForgetsClose(c) ==
    /\ Awaiting
    /\ conn[c] \in {"open", "openGone"} /\ req[c] # "probe"
    /\ Poke
    /\ UNCHANGED <<child, code, pc>>
    /\ answer' = IF conn[c] = "open" THEN [answer EXCEPT ![c] = Reply(c)] ELSE answer
    /\ conn' = [conn EXCEPT ![c] = "closed"]
    /\ UNCHANGED <<files, cleaned, waiter, state, seen, linger, permit, sig,
                   reason, recent, req, boundVars>>

\* A request is read and dispatched and its response written.  A writer whose
\* peer is gone gets an error and stops, also before a close takes effect; or
\* the write raises SIGPIPE, as its build has it, and the process dies
\* (main.rs:29).
Handle(c) ==
    /\ Awaiting
    /\ conn[c] \in {"open", "openGone"} /\ req[c] # "probe"
    /\ Poke
    /\ IF req[c] = "signal" THEN \E hard \in BOOLEAN : Kill(hard)
                            ELSE UNCHANGED <<child, code>>
    /\ IF conn[c] = "open"
       THEN /\ answer' = [answer EXCEPT ![c] = Reply(c)]
            /\ conn' = [conn EXCEPT ![c] = IF req[c] = "close" THEN "closing" ELSE "closed"]
            /\ UNCHANGED pc
       ELSE /\ conn' = [conn EXCEPT ![c] = "closed"]
            /\ pc' \in {pc, "dead"}
            /\ UNCHANGED answer
    /\ UNCHANGED <<files, cleaned, waiter, state, seen, linger, permit, sig,
                   reason, recent, req, boundVars>>

\* can_connect opens a connection and closes it: the task reads EOF.
HandleProbe(c) ==
    /\ Awaiting
    /\ conn[c] \in {"open", "openGone"} /\ req[c] = "probe"
    /\ conn' = [conn EXCEPT ![c] = "closed"]
    /\ UNCHANGED <<pc, files, cleaned, childVars, loopVars, recent, req, answer,
                   boundVars>>

\* 50 ms after a close was answered, the loop is notified.
NotifyClose(c) ==
    /\ Awaiting /\ conn[c] = "closing"
    /\ permit' = 1
    /\ conn' = [conn EXCEPT ![c] = "closed"]
    /\ UNCHANGED <<pc, files, cleaned, childVars, state, seen, linger, sig, resets,
                   reason, recent, req, answer, boundVars>>

------------------------------------------------------------------------------
(* The child, the thread that waits for it, and signals to the daemon. *)

ChildExits ==
    /\ child = "running"
    /\ child' = "zombie" /\ code' \in Codes
    /\ UNCHANGED <<pc, files, cleaned, waiter, loopVars, recent,
                   clientVars, boundVars>>

Reap ==
    /\ pc \notin Ended /\ waiter = "waiting" /\ child = "zombie"
    /\ child' = "reaped"
    /\ waiter' = "reaped"
    /\ UNCHANGED <<pc, files, cleaned, code, loopVars, recent, clientVars,
                   boundVars>>

\* The code, or None where wait() gave an error although the child is gone.
SendExit ==
    /\ pc \notin Ended /\ waiter = "reaped"
    /\ \/ waiter' = "sent" /\ UNCHANGED boundVars
       \/ waiter' = "failed" /\ Fault
    /\ UNCHANGED <<pc, files, cleaned, child, code, loopVars, recent, clientVars>>

\* TERM, INT or HUP: fatal until the first select poll installs the handlers;
\* then kept for the poll that waits, and ignored once the loop has ended.
Shutdown ==
    /\ pc \notin Ended /\ signals < MaxSignals
    /\ signals' = signals + 1 /\ UNCHANGED <<idleOn, faults>>
    /\ pc' = IF pc \in Startup THEN "dead" ELSE pc
    /\ sig' = IF pc = "select" THEN "got" ELSE sig
    /\ UNCHANGED <<files, cleaned, childVars, state, seen, linger, permit, resets,
                   reason, recent, clientVars>>

------------------------------------------------------------------------------
Select == \/ \E c \in Clients : Accept(c)
          \/ ExitArm \/ LingerArm \/ CloseArm \/ SignalArm \/ IdleArm \/ IdleResetArm
Main == \/ Sidecars \/ SpawnChild \/ OpenLog \/ WriteMeta \/ StartWaiter
        \/ Select \/ GraceOver \/ CleanNext \/ Record
Task(c) == Handle(c) \/ HandleProbe(c) \/ NotifyClose(c)
Waiter == Reap \/ SendExit

Next == \/ Main \/ Waiter \/ FailsUnguarded \/ FailsGuarded
        \/ \E c \in Clients : Task(c) \/ Connect(c) \/ Abandon(c)
        \/ ChildExits \/ Shutdown

\* The runtime keeps polling the main task and every connection task, armed
\* timers fire, and the waiter thread is scheduled.  Nothing is assumed of
\* the child, the clients, signals or failures.
Fairness == /\ WF_vars(Main) /\ WF_vars(Waiter)
            /\ \A c \in Clients : WF_vars(Task(c))
Spec == Init /\ [][Next]_vars
FairSpec == Spec /\ Fairness

------------------------------------------------------------------------------
TypeOK ==
    /\ pc \in Startup \union Ended \union {"select", "grace", "drop"}
    /\ files \subseteq {"pid", "version", "cmd", "sock", "meta"} /\ cleaned \in 0..5
    /\ child \in {"none", "running", "zombie", "reaped"}
    /\ code \in Codes \union {NoCode} /\ seen \in Codes \union {NoCode}
    /\ waiter \in {"off", "waiting", "reaped", "sent", "failed", "taken"}
    /\ state \in {"running", "exited"}
    /\ linger \in {"off", "armed"} /\ permit \in {0, 1} /\ sig \in {"none", "got"}
    /\ resets \in 0..ResetCap
    /\ reason \in {"error", "child_exited", "close", "signal", "idle"}
    /\ recent \in [reason : {"none", "error", "child_exited", "close", "signal", "idle"},
                   code : Codes \union {NoCode}]
    /\ conn \in [Clients -> {"away", "queued", "gone", "open", "openGone",
                             "closing", "closed"}]
    /\ req \in [Clients -> Requests]
    /\ answer \in [Clients -> Codes \union {"none", "running", "sent", "closing", NoCode}]
    /\ faults \in 0..MaxFaults /\ signals \in 0..MaxSignals

\* However the loop ends, the child does not outlive the daemon: it has exited
\* or was sent SIGKILL (daemon.rs:318-357), whatever signals, closes, idle
\* timers and exits coincided.
NoOrphan == pc = "done" /\ reason # "error" => child # "running"

\* The line in recent.jsonl is only there once every sidecar is gone, and it
\* tells what happened: an exit code in it is the child's own and the one that
\* `status` gave, whatever ended the daemon afterwards; "child_exited"
\* comes with one unless wait() failed; and "close" only after a client was told
\* so: a close whose answer could not be written never ends the daemon
\* (daemon.rs:463-472).
RecordExplainsExit ==
    recent # NoEntry =>
      /\ files = {}
      /\ recent.code # NoCode => child = "reaped" /\ recent.code = code
      /\ \A c \in Clients : req[c] = "status" /\ answer[c] \in Codes => recent.code = answer[c]
      /\ recent.reason = "child_exited" /\ faults = 0 => recent.code # NoCode
      /\ recent.reason = "close" =>
           \E c \in Clients : req[c] = "close" /\ answer[c] = "closing"

\* Once a client was told that the child exited, no later status answer says
\* otherwise, also during the grace period of a close or a signal.
ExitedIsFinal ==
    [][\A c, d \in Clients :
         /\ req[c] = "status" /\ answer[c] \in Codes
         /\ req[d] = "status" /\ answer'[d] # answer[d]
         => answer'[d] = answer[c]]_vars

\* The daemon ends: after a close that was answered, in spite of every other
\* event the loop serves first (Notify keeps its permit); after its child has
\* exited, whoever keeps asking; and with an idle timeout once its clients stop.
DaemonEnds ==
    /\ \A c \in Clients : (answer[c] = "closing") ~> (pc \in Ended)
    /\ (child = "reaped") ~> (pc \in Ended)
    /\ idleOn => <>(pc \in Ended)

=============================================================================
