---------------------------- MODULE MCShellServer ----------------------------
(* Two sessions that compete for four descriptors. *)
EXTENDS ShellServer

CONSTANTS s1, s2

Good == [get |-> TRUE, upgrade |-> TRUE, key |-> TRUE, version |-> TRUE,
         uri |-> TRUE, origin |-> "valid", protocols |-> 0]

\* A browser, and a client for each way to be refused.
MCRequests == { Good, [Good EXCEPT !.get = FALSE], [Good EXCEPT !.key = FALSE],
                [Good EXCEPT !.origin = "absent"], [Good EXCEPT !.protocols = 2] }
=============================================================================
