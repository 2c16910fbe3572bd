----------------------------- MODULE OutputPipe -----------------------------
(***************************************************************************)
(* What the output side of a session promises, without sockets, mutexes or *)
(* system calls: workers take the output of the shell away piece by piece, *)
(* every byte once, and each worker delivers the piece it holds.  A piece  *)
(* is dropped only after the connection is down.  Nothing is said of the   *)
(* order in which two workers deliver.                                     *)
(***************************************************************************)
EXTENDS Naturals

CONSTANTS
    Workers,    \* who carries the output
    MaxOut      \* how much output there is at most

VARIABLES
    taken,      \* how many bytes have been taken, from the first one on
    held,       \* the bytes each worker holds
    delivered,  \* the bytes delivered
    up          \* the connection is up

pipeVars == <<taken, held, delivered, up>>

Init ==
    /\ taken = 0
    /\ held = [w \in Workers |-> {}]
    /\ delivered = {}
    /\ up = TRUE

Take(w) ==
    /\ held[w] = {}
    /\ \E n \in 1..MaxOut :
          /\ taken + n <= MaxOut
          /\ taken' = taken + n
          /\ held' = [held EXCEPT ![w] = (taken + 1)..(taken + n)]
    /\ UNCHANGED <<delivered, up>>

Deliver(w) ==
    /\ up
    /\ held[w] # {}
    /\ delivered' = delivered \cup held[w]
    /\ held' = [held EXCEPT ![w] = {}]
    /\ UNCHANGED <<taken, up>>

Drop(w) ==
    /\ ~up
    /\ held' = [held EXCEPT ![w] = {}]
    /\ UNCHANGED <<taken, delivered, up>>

HangUp ==
    /\ up
    /\ up' = FALSE
    /\ UNCHANGED <<taken, held, delivered>>

Next == HangUp \/ \E w \in Workers : Take(w) \/ Deliver(w) \/ Drop(w)

Spec == Init /\ [][Next]_pipeVars
=============================================================================
