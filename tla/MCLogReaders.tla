---------------------------- MODULE MCLogReaders ----------------------------
(* What the documents say of the readers of a log, beyond what they keep.   *)
EXTENDS LogReaders

(* commands.md:153: exit code 2 of wait says "Process exited before the     *)
(* pattern matched".                                                        *)
ExitTwoMeansExited == waitpc = "exited" => child \in {"dead", "exited"}

=============================================================================
