--------------------------- MODULE WebSockWrapper ---------------------------
(***************************************************************************)
(* websocketwriter.go: the writer both output goroutines of main.go copy   *)
(* the TTY to.  Every Write becomes one WebSocket frame.                   *)
(*                                                                         *)
(* The output of the shell is a stream of bytes and a byte is named by its *)
(* position in it, 1..MaxOut.  Wide holds the positions at which a         *)
(* two-byte UTF-8 rune starts; all other runes are one byte long.  A chunk *)
(* is an interval lo..hi of positions.                                     *)
(***************************************************************************)
EXTENDS Naturals

CONSTANTS
    MaxOut,     \* bound: how many bytes the shell writes
    Wide,       \* where the two-byte runes of the output start
    Mode        \* WebSocketMode: "binary" or "text"

ASSUME OutAssumption == MaxOut \in Nat

ASSUME WideAssumption ==
    /\ Wide \subseteq 1..MaxOut
    /\ \A p \in Wide : p + 1 \notin Wide

ASSUME ModeAssumption == Mode \in {"binary", "text"}

\* Mutant: a rune cut by the beginning of the chunk goes unnoticed.
IllFormedAtEnd(lo, hi) == {p \in {hi} : p \in Wide}

\* The bytes of the chunk that the UTF-8 encoder finds ill formed and replaces
\* by U+FFFD.  It keeps no state between Strings and takes the chunk for the
\* whole of its input, so a rune cut by either end of the chunk is ill formed.
IllFormed(lo, hi) ==
    {p \in {lo} : p - 1 \in Wide} \cup {p \in {hi} : p \in Wide}

\* The frame Write sends for a chunk, for the goroutine `by'.  Binary mode
\* sends the bytes as they are; text mode sends the encoder's output.  The
\* encoder's own error is overwritten by Send's.
Write(by, lo, hi) ==
    [op  |-> Mode,
     by  |-> by,
     lo  |-> lo,
     hi  |-> hi,
     bad |-> IF Mode = "binary" THEN {} ELSE IllFormed(lo, hi)]
=============================================================================
