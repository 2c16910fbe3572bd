--------------------------- MODULE MCTerminalPage ---------------------------
(***************************************************************************)
(* Small instances of TerminalPage for TLC.                                *)
(***************************************************************************)
EXTENDS TerminalPage

MCOpenSize == [cols |-> 2, rows |-> 2]

\* As opened, taller, and a container too small for a character.
MCGeometries == {[cols |-> 2, rows |-> 2], [cols |-> 1, rows |-> 3],
                 [cols |-> -1, rows |-> 0]}
MCTwo == {[cols |-> 2, rows |-> 2], [cols |-> -1, rows |-> 0]}
=============================================================================
