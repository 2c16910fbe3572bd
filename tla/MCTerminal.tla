----------------------------- MODULE MCTerminal -----------------------------
(* Terminal with three rows and a scrollback that fills up. *)
EXTENDS Terminal

\* No parameters, a region of one row, one upside down, two off the screen.
MCRegions == { [top |-> 0, bottom |-> 0], [top |-> 2, bottom |-> 2],
               [top |-> 3, bottom |-> 1], [top |-> 1, bottom |-> 4],
               [top |-> 4, bottom |-> 1] }
=============================================================================
