------------------------------- MODULE MCDaemon -------------------------------
(***************************************************************************)
(* Daemon with two clients.                                                *)
(***************************************************************************)
EXTENDS Daemon

CONSTANTS c1, c2
ClientSet == {c1, c2}

\* The clients differ in nothing but their requests: one order is enough.
Rank == [status |-> 1, signal |-> 2, close |-> 3, probe |-> 4]
MCInit == Init /\ Rank[req[c1]] <= Rank[req[c2]]
MCSpec == MCInit /\ [][Next]_vars /\ Fairness

=============================================================================
