--------------------------- MODULE MCShellSession ---------------------------
(***************************************************************************)
(* Small instances of ShellSession for TLC.  A message is at most three    *)
(* bytes long, a pattern two: "e" stands for the escape character that     *)
(* starts both patterns of the program.                                    *)
(***************************************************************************)
EXTENDS ShellSession

MCByte == {"e", "k", "x"}
MCIgnoredInputs == {<<"e", "k">>}
MCWide == {1}
MCNone == {}

Text(data) == [op |-> "text", masked |-> TRUE, data |-> data]
Ping == [op |-> "ping", masked |-> TRUE, data |-> <<>>]

\* The progress run: a message longer than the room for input, or a ping.
MCPaste == {Text(<<"x", "k">>), Ping}

\* The session run: a key, a message longer than io.Copy's buffer, one longer
\* than the limit, the ignored sequence alone and with a key behind it, its
\* two halves as fragments, and every kind of control frame.
MCFrames ==
    {Text(d) : d \in {<<"x">>, <<"x", "k", "e">>, <<"x", "x", "x", "x">>,
                      <<"e", "k">>, <<"e", "k", "x">>, <<"e">>, <<>>}}
    \cup {[Text(<<"k">>) EXCEPT !.op = "continuation"],
          [Text(<<"k">>) EXCEPT !.op = "binary"],
          [Text(<<"k">>) EXCEPT !.op = "reserved"],
          [Text(<<"x">>) EXCEPT !.masked = FALSE],
          Ping, [Ping EXCEPT !.op = "pong"]}
=============================================================================
