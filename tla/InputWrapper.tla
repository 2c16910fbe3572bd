---------------------------- MODULE InputWrapper ----------------------------
(***************************************************************************)
(* inputwrapper.go: the reader the stdin goroutine of main.go copies to    *)
(* the TTY.  One Read receives one WebSocket frame and either drops it or  *)
(* copies as much of it as fits in the caller's buffer.                    *)
(*                                                                         *)
(* A message is a sequence of bytes; the bytes themselves, the length of   *)
(* the patterns and the patterns are parameters (in the program: 5, and    *)
(* ESC [ > 0 ; and ESC P 0 + r).                                           *)
(***************************************************************************)
EXTENDS Naturals, Sequences

CONSTANTS
    Byte,           \* the byte values a message is made of
    PatternLen,     \* patternLen
    IgnoredInputs,  \* ignoredInputs
    BufLen          \* the length of io.Copy's buffer, 32 KiB in the program

ASSUME PatternAssumption ==
    /\ PatternLen \in Nat \ {0}
    /\ IgnoredInputs \subseteq [1..PatternLen -> Byte]

ASSUME BufLenAssumption == BufLen \in Nat \ {0}

\* bytes.Equal(pattern[:], data[:patternLen]) for some pattern: the message
\* BEGINS with an ignored sequence.  Shorter messages are never compared.
Ignored(data) ==
    /\ Len(data) >= PatternLen
    /\ SubSeq(data, 1, PatternLen) \in IgnoredInputs

\* copy(out, data): what does not fit in the buffer is lost, as the next Read
\* receives the next frame.
Copied(data) ==
    SubSeq(data, 1, IF Len(data) < BufLen THEN Len(data) ELSE BufLen)

\* What one Read of a received message hands to io.Copy.  The whole message
\* is dropped when it is ignored: 0, nil.
Read(data) == IF Ignored(data) THEN <<>> ELSE Copied(data)
=============================================================================
