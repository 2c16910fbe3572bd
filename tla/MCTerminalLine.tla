--------------------------- MODULE MCTerminalLine ---------------------------
(* A line of a terminal that is one column wide, or three. *)
EXTENDS TerminalLine

MCColumns == {1, 3}
=============================================================================
