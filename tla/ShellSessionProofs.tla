------------------------- MODULE ShellSessionProofs -------------------------
(***************************************************************************)
(* Proofs about ShellSession, for every value of its constants.            *)
(***************************************************************************)
EXTENDS ShellSession, SequenceProofs, SequenceTheorems, TLAPS

USE DEF Copiers, Goroutines

LEMMA GoroutineNames ==
    /\ \A c \in Copiers : c \in Goroutines /\ c # "stdin"
    /\ "stdin" \in Goroutines
    /\ Free \notin Goroutines
  BY DEF Free

LEMMA ControlType == \A op \in {"pong", "close"} : Control(op) \in Frame
  BY OutAssumption DEF Control, Frame

LEMMA WriteType ==
    ASSUME NEW c \in Copiers, NEW lo \in 1..MaxOut, NEW hi \in lo..MaxOut
    PROVE  Write(c, lo, hi) \in Frame
  BY OutAssumption, ModeAssumption DEF Write, IllFormed, Frame

LEMMA InputType ==
    ASSUME NEW f \in ClientFrame
    PROVE  Input(f) \in Seq(Byte)
<1>1. f.data \in Seq(Byte)
  BY DEF ClientFrame
<1>2. Copied(f.data) \in Seq(Byte)
  <2> DEFINE n == IF Len(f.data) < BufLen THEN Len(f.data) ELSE BufLen
  <2>1. n \in 0..Len(f.data)
    BY <1>1, BufLenAssumption, LenProperties
  <2>2. \A i \in 1..n : f.data[i] \in Byte
    BY <1>1, <2>1, ElementOfSeq, LenProperties
  <2> QED
    BY <1>1, <2>1, <2>2, SubSeqProperties DEF Copied
<1> QED
  BY <1>2 DEF Input, Read

-----------------------------------------------------------------------------
(***************************************************************************)
(* Type correctness.                                                       *)
(***************************************************************************)

LEMMA TailType ==
    ASSUME NEW S, NEW s \in Seq(S), s # <<>>
    PROVE  Head(s) \in S /\ Tail(s) \in Seq(S)
  BY HeadTailProperties

LEMMA PutType ==
    ASSUME TypeOK, NEW g \in Goroutines, NEW part \in {"header", "payload"},
           Put(part, msg[g])
    PROVE  s2c' \in Seq(Piece) /\ Len(s2c') <= NetCap
<1>1. [part |-> part, frame |-> msg[g]] \in Piece
  BY DEF TypeOK, Piece
<1>2. CASE s2c' = s2c
  BY <1>2 DEF TypeOK
<1>3. CASE /\ Len(s2c) < NetCap
           /\ s2c' = Append(s2c, [part |-> part, frame |-> msg[g]])
  BY <1>1, <1>3, AppendProperties, LenProperties, CapAssumption DEF TypeOK
<1> QED
  BY <1>2, <1>3 DEF Put

LEMMA InitType == Init => TypeOK
<1>1. ASSUME Init PROVE msg \in [Goroutines -> Frame]
  BY <1>1, ControlType DEF Init
<1>2. /\ <<>> \in Seq(Byte) /\ <<>> \in Seq(Piece)
      /\ <<>> \in Seq(ClientFrame) /\ <<>> \in Seq(Frame)
  OBVIOUS
<1>3. Len(<<>>) = 0
  OBVIOUS
<1>4. ASSUME Init PROVE s2c \in Seq(Piece) /\ Len(s2c) <= NetCap
  BY <1>2, <1>3, <1>4, CapAssumption DEF Init
<1> SUFFICES ASSUME Init PROVE TypeOK
  OBVIOUS
<1>5. /\ pc \in [Goroutines -> PCs]
      /\ \A c \in Copiers : pc[c] # "write"
      /\ pc["stdin"] \notin {"syscall", "write"}
  BY DEF Init, PCs
<1>6. produced \in 0..MaxOut /\ consumed \in 0..produced /\ unread \in 0..InCap
      /\ produced - consumed <= PtyCap
  BY OutAssumption, CapAssumption DEF Init
<1> QED
  BY <1>1, <1>2, <1>4, <1>5, <1>6 DEF Init, TypeOK, Free

LEMMA HandlerType == TypeOK /\ Handler => TypeOK'
  BY DEF TypeOK, Handler, Accept, Reject, Start, StartPanics, Wait, CloseTty,
         CloseConn, PCs, goVars, ttyVars, connVars, peerVars

LEMMA WriteFrameType ==
    ASSUME TypeOK, NEW g \in Goroutines, WriteFrame(g)
    PROVE  TypeOK'
<1>1. CASE Lock(g)
  BY <1>1 DEF TypeOK, Lock, PCs, ttyVars, peerVars
<1>2. CASE WriteHeader(g)
  <2>1. s2c' \in Seq(Piece) /\ Len(s2c') <= NetCap
    BY <1>2, PutType DEF WriteHeader
  <2> QED
    BY <1>2, <2>1 DEF TypeOK, WriteHeader, PCs, ttyVars, peerVars
<1>3. CASE WritePayload(g)
  <2>1. s2c' \in Seq(Piece) /\ Len(s2c') <= NetCap
    BY <1>3, PutType DEF WritePayload
  <2>2. flushed' \in Seq(Frame)
    BY <1>3, AppendProperties DEF TypeOK, WritePayload
  <2>3. pc' \in [Goroutines -> PCs] /\ pc'[g] \in {"read", "done"}
    BY <1>3 DEF TypeOK, WritePayload, PCs, AfterFrame
  <2> QED
    BY <1>3, <2>1, <2>2, <2>3 DEF TypeOK, WritePayload, PCs, ttyVars, peerVars
<1>4. CASE WriteFails(g)
  BY <1>4 DEF TypeOK, WriteFails, PCs, ttyVars, peerVars
<1> QED
  BY <1>1, <1>2, <1>3, <1>4 DEF WriteFrame

LEMMA CopyOutType ==
    ASSUME TypeOK, NEW c \in Copiers, CopyOut(c)
    PROVE  TypeOK'
<1>1. CASE EnterRead(c) \/ ReadClosed(c) \/ ReadEIO(c)
  BY <1>1 DEF TypeOK, EnterRead, ReadClosed, ReadEIO, PCs, ttyVars, connVars, peerVars
<1>2. CASE ReadChunk(c)
  <2>1. PICK n \in 1..BufLen :
          /\ consumed + n <= produced
          /\ consumed' = consumed + n
          /\ msg' = [msg EXCEPT ![c] = Write(c, consumed + 1, consumed + n)]
    BY <1>2 DEF ReadChunk
  <2>2. Write(c, consumed + 1, consumed + n) \in Frame
    BY <2>1, WriteType, BufLenAssumption, OutAssumption DEF TypeOK
  <2>3. consumed' \in 0..produced /\ produced - consumed' <= PtyCap
    BY <2>1, BufLenAssumption, OutAssumption, CapAssumption DEF TypeOK
  <2> QED
    BY <1>2, <2>1, <2>2, <2>3 DEF TypeOK, ReadChunk, PCs, connVars, peerVars
<1>3. CASE WriteFrame(c)
  BY <1>3, WriteFrameType
<1> QED
  BY <1>1, <1>2, <1>3 DEF CopyOut

LEMMA CopyInType == TypeOK /\ CopyIn => TypeOK'
<1> SUFFICES ASSUME TypeOK, CopyIn PROVE TypeOK'
  OBVIOUS
<1>1. CASE Receive
  <2> DEFINE f == Head(c2s)
  <2>1. f \in ClientFrame /\ c2s' \in Seq(ClientFrame)
    BY <1>1, TailType DEF TypeOK, Receive
  <2>2. ibuf' \in Seq(Byte)
    BY <1>1, <2>1, InputType DEF Receive
  <2>3. msg' \in [Goroutines -> Frame]
    BY <1>1, ControlType DEF TypeOK, Receive
  <2>4. /\ AfterReceive(f) \in PCs \ {"syscall"}
        /\ AfterReceive(f) = "write" => Input(f) # <<>>
    BY <2>1 DEF AfterReceive, ClientFrame, PCs, DataOps
  <2> QED
    BY <1>1, <2>1, <2>2, <2>3, <2>4 DEF TypeOK, Receive, ttyVars, connVars
<1>2. CASE ReceiveFails \/ EnterWrite \/ TtyWriteFails
  BY <1>2 DEF TypeOK, ReceiveFails, EnterWrite, TtyWriteFails, PCs, ttyVars, connVars, peerVars
<1>3. CASE TtyWrite
  <2>1. ibuf' \in Seq(Byte) /\ written' \in Seq(Byte)
    BY <1>3, TailType, AppendProperties DEF TypeOK, TtyWrite
  <2> QED
    BY <1>3, <2>1, CapAssumption DEF TypeOK, TtyWrite, PCs, connVars, peerVars
<1>4. CASE WriteFrame("stdin")
  BY <1>4, WriteFrameType
<1> QED
  BY <1>1, <1>2, <1>3, <1>4 DEF CopyIn

LEMMA ShellType == TypeOK /\ Shell => TypeOK'
<1>1. TypeOK /\ ShellOutput => TypeOK'
  <2> SUFFICES ASSUME TypeOK, ShellOutput PROVE TypeOK'
    OBVIOUS
  <2>1. /\ produced' \in 0..MaxOut /\ consumed' \in 0..produced'
        /\ produced' - consumed' <= PtyCap
    BY OutAssumption, CapAssumption DEF TypeOK, ShellOutput
  <2> QED
    BY <2>1 DEF TypeOK, ShellOutput, goVars, connVars, peerVars
<1>2. TypeOK /\ ShellRead => TypeOK'
  BY CapAssumption DEF TypeOK, ShellRead, goVars, connVars, peerVars
<1>3. TypeOK /\ ShellExit => TypeOK'
  BY DEF TypeOK, ShellExit, goVars, connVars, peerVars
<1>4. TypeOK /\ (JobStart \/ JobExit) => TypeOK'
  <2> SUFFICES ASSUME TypeOK, JobStart \/ JobExit PROVE TypeOK'
    OBVIOUS
  <2>1. jobs' \in BOOLEAN
    BY Zenon DEF JobStart, JobExit
  <2> QED
    BY <2>1 DEF TypeOK, JobStart, JobExit, goVars, connVars, peerVars
<1> QED
  BY <1>1, <1>2, <1>3, <1>4 DEF Shell

LEMMA SentFrameType == \A f \in ClientFrames : f \in ClientFrame
  BY CapAssumption

\* A frame cut short by the end of the stream is a frame.
LEMMA PartType ==
    ASSUME NEW f \in ClientFrames, NEW k \in 0..(Len(f.data) - 1)
    PROVE  [f EXCEPT !.data = SubSeq(f.data, 1, k)] \in ClientFrame
<1>1. f \in ClientFrame /\ f.data \in Seq(Byte)
  BY SentFrameType DEF ClientFrame
<1>2. SubSeq(f.data, 1, k) \in Seq(Byte)
  <2>1. Len(f.data) \in Nat
    BY <1>1, LenProperties
  <2>2. \A i \in 1..k : f.data[i] \in Byte
    BY <1>1, <2>1, ElementOfSeq
  <2> QED
    BY <2>1, <2>2, SubSeqProperties
<1> QED
  BY <1>1, <1>2 DEF ClientFrame

LEMMA BrowserType == TypeOK /\ Browser => TypeOK'
<1> SUFFICES ASSUME TypeOK, Browser PROVE TypeOK'
  OBVIOUS
<1>1. CASE BrowserSend
  <2>1. PICK f \in ClientFrames : c2s' = Append(c2s, f) /\ typed' = Append(typed, f)
    BY <1>1 DEF BrowserSend
  <2>2. c2s' \in Seq(ClientFrame) /\ typed' \in Seq(ClientFrame)
    BY <2>1, SentFrameType, AppendProperties DEF TypeOK
  <2> QED
    BY <1>1, <2>2 DEF TypeOK, BrowserSend, goVars, ttyVars, connVars
<1>2. CASE BrowserClose
  <2> DEFINE f == [op |-> "close", masked |-> TRUE, data |-> <<>>]
  <2>1. f \in ClientFrame
    BY DEF ClientFrame, DataOps
  <2>2. c2s' = Append(c2s, f) /\ typed' = Append(typed, f)
    BY <1>2 DEF BrowserClose
  <2>3. c2s' \in Seq(ClientFrame) /\ typed' \in Seq(ClientFrame)
    BY <2>1, <2>2, AppendProperties DEF TypeOK
  <2> QED
    BY <1>2, <2>3 DEF TypeOK, BrowserClose, goVars, ttyVars, connVars
<1>3. CASE BrowserReceive
  <2>1. \A i \in 3..Len(s2c) : s2c[i] \in Piece
    BY ElementOfSeq, LenProperties DEF TypeOK
  <2>2. s2c' \in Seq(Piece) /\ Len(s2c') <= NetCap
    BY <1>3, <2>1, SubSeqProperties, LenProperties, CapAssumption DEF TypeOK, BrowserReceive
  <2> QED
    BY <1>3, <2>2 DEF TypeOK, BrowserReceive, goVars, ttyVars, peerVars
<1>4. CASE BrowserLeave
  <2>1. s2c' \in Seq(Piece) /\ Len(s2c') <= NetCap
    BY <1>4, CapAssumption DEF BrowserLeave
  <2> QED
    BY <1>4, <2>1 DEF TypeOK, BrowserLeave, goVars, ttyVars
<1>5. CASE BrowserLeaveMidFrame
  <2>0. PICK f \in ClientFrames : \E k \in 0..(Len(f.data) - 1) :
          LET part == [f EXCEPT !.data = SubSeq(f.data, 1, k)] IN
          c2s' = Append(c2s, part) /\ typed' = Append(typed, part)
    BY <1>5 DEF BrowserLeaveMidFrame
  <2>1. PICK k \in 0..(Len(f.data) - 1) :
          LET part == [f EXCEPT !.data = SubSeq(f.data, 1, k)] IN
          c2s' = Append(c2s, part) /\ typed' = Append(typed, part)
    BY <2>0
  <2> DEFINE part == [f EXCEPT !.data = SubSeq(f.data, 1, k)]
  <2>4. part \in ClientFrame
    BY PartType
  <2>5. c2s' \in Seq(ClientFrame) /\ typed' \in Seq(ClientFrame)
    BY <2>1, <2>4, AppendProperties DEF TypeOK
  <2>6. s2c' \in Seq(Piece) /\ Len(s2c') <= NetCap
    BY <1>5, CapAssumption DEF BrowserLeaveMidFrame
  <2> QED
    BY <1>5, <2>5, <2>6 DEF TypeOK, BrowserLeaveMidFrame, goVars, ttyVars
<1> QED
  BY <1>1, <1>2, <1>3, <1>4, <1>5 DEF Browser

LEMMA StutterType == TypeOK /\ UNCHANGED vars => TypeOK'
  BY DEF TypeOK, vars, goVars, ttyVars, connVars, peerVars

LEMMA TypeStep == TypeOK /\ [Next]_vars => TypeOK'
  BY HandlerType, CopyOutType, CopyInType, ShellType, BrowserType, StutterType
  DEF Next, Over

\* Every reachable state is well typed: in particular no goroutine reads output
\* that bash has not written, and stdin never writes from an empty buffer.
THEOREM TypeCorrect == Spec => []TypeOK
  BY InitType, TypeStep, PTL DEF Spec

-----------------------------------------------------------------------------
(***************************************************************************)
(* The order of the teardown.                                              *)
(***************************************************************************)

\* What has been opened and closed, for each place of the handler; no goroutine
\* runs before bash does.
HandlerInv ==
    /\ shell = "none" => \A g \in Goroutines : pc[g] = "off"
    /\ hpc \in {"upgrade", "start"} => shell = "none" /\ tty = "none"
    /\ hpc = "wait" => shell # "none" /\ tty = "open"
    /\ hpc = "closeTty" => shell = "exited" /\ tty = "open"
    /\ hpc \in {"closeConn", "done"} =>
          \/ shell = "none" /\ tty = "none"
          \/ shell = "exited" /\ tty = "closed"
    /\ conn = IF hpc = "done" THEN "closed" ELSE "open"

LEMMA HandlerStep == TypeOK /\ HandlerInv /\ [Next]_vars => HandlerInv'
<1> SUFFICES ASSUME TypeOK, HandlerInv, [Next]_vars PROVE HandlerInv'
  OBVIOUS
<1>1. CASE Handler
  BY <1>1 DEF TypeOK, HandlerInv, Handler, Accept, Reject, Start, StartPanics, Wait,
              CloseTty, CloseConn, goVars, ttyVars, connVars
<1>2. CASE ShellExit
  BY <1>2 DEF TypeOK, HandlerInv, ShellExit, goVars, connVars
<1>3. CASE UNCHANGED <<hpc, shell, tty, conn>> /\ (pc' = pc \/ shell # "none")
  BY <1>3 DEF HandlerInv
<1>4. ASSUME NEW g \in Goroutines, WriteFrame(g)
      PROVE  UNCHANGED <<hpc, shell, tty, conn>> /\ shell # "none"
  BY <1>4 DEF HandlerInv, WriteFrame, Lock, WriteHeader, WritePayload, WriteFails, ttyVars
<1>5. ASSUME NEW c \in Copiers, CopyOut(c)
      PROVE  UNCHANGED <<hpc, shell, tty, conn>> /\ shell # "none"
  BY <1>4, <1>5 DEF HandlerInv, CopyOut, EnterRead, ReadClosed, ReadChunk, ReadEIO, ttyVars, connVars
<1>6. ASSUME CopyIn
      PROVE  UNCHANGED <<hpc, shell, tty, conn>> /\ shell # "none"
  BY <1>4, <1>6 DEF HandlerInv, CopyIn, Receive, ReceiveFails, EnterWrite, TtyWrite, TtyWriteFails, ttyVars, connVars
<1>7. ASSUME Shell, ~ShellExit PROVE UNCHANGED <<hpc, shell, tty, conn, pc>>
  BY <1>7 DEF Shell, ShellOutput, ShellRead, JobStart, JobExit, goVars, connVars
<1>8. ASSUME Browser PROVE UNCHANGED <<hpc, shell, tty, conn, pc>>
  BY <1>8 DEF Browser, BrowserSend, BrowserClose, BrowserReceive, BrowserLeave,
              BrowserLeaveMidFrame, goVars, ttyVars, connVars
<1>9. ASSUME UNCHANGED vars PROVE UNCHANGED <<hpc, shell, tty, conn, pc>>
  BY <1>9 DEF vars, goVars, ttyVars, connVars
<1> QED
  BY <1>1, <1>2, <1>3, <1>5, <1>6, <1>7, <1>8, <1>9 DEF Next, Over

\* sh closes the tty only after bash has exited and the connection only after
\* the tty, and never returns with bash still running.
THEOREM TeardownOrdered == Spec => []TornDownInOrder
<1>1. Init => HandlerInv
  BY DEF Init, HandlerInv
<1>2. TypeOK /\ HandlerInv => TornDownInOrder
  BY DEF TypeOK, HandlerInv, TornDownInOrder
<1> QED
  BY <1>1, <1>2, HandlerStep, TypeCorrect, PTL DEF Spec

-----------------------------------------------------------------------------
(***************************************************************************)
(* Whole frames.                                                           *)
(***************************************************************************)

\* wio is owned by the goroutine that is writing a frame, and by no other.
WioInv == \A g \in Goroutines : pc[g] \in {"header", "payload"} <=> wio = g

LEMMA WioStep == TypeOK /\ HandlerInv /\ WioInv /\ [Next]_vars => WioInv'
<1> SUFFICES ASSUME TypeOK, HandlerInv, WioInv, [Next]_vars PROVE WioInv'
  OBVIOUS
<1>1. ASSUME NEW g \in Goroutines, WriteFrame(g) PROVE WioInv'
  BY <1>1 DEF TypeOK, WioInv, Free, WriteFrame, Lock, WriteHeader, WritePayload,
              WriteFails, AfterFrame
<1>2. ASSUME NEW c \in Copiers, CopyOut(c) PROVE WioInv'
  BY <1>1, <1>2 DEF TypeOK, WioInv, CopyOut, EnterRead, ReadClosed, ReadChunk, ReadEIO,
                    connVars
<1>3. ASSUME CopyIn PROVE WioInv'
  <2>1. CASE Receive
    <3>1. Head(c2s) \in ClientFrame
      BY <2>1, TailType DEF TypeOK, Receive
    <3>2. AfterReceive(Head(c2s)) \in {"read", "lock", "write", "done"}
      BY <3>1 DEF AfterReceive, ClientFrame, DataOps
    <3> QED
      BY <2>1, <3>2 DEF TypeOK, WioInv, Receive, connVars
  <2>2. CASE ReceiveFails \/ EnterWrite \/ TtyWrite \/ TtyWriteFails
    BY <2>2 DEF TypeOK, WioInv, ReceiveFails, EnterWrite, TtyWrite, TtyWriteFails, connVars
  <2> QED
    BY <1>1, <1>3, <2>1, <2>2 DEF CopyIn
<1>4. CASE Handler
  BY <1>4 DEF TypeOK, HandlerInv, WioInv, Handler, Accept, Reject, Start, StartPanics, Wait, CloseTty,
              CloseConn, goVars, connVars
<1>5. CASE UNCHANGED <<pc, wio>>
  BY <1>5 DEF WioInv
<1>6. ASSUME Shell \/ Browser PROVE UNCHANGED <<pc, wio>>
  BY <1>6 DEF Shell, ShellOutput, ShellRead, JobStart, JobExit, ShellExit, Browser, BrowserSend, BrowserClose,
              BrowserReceive, BrowserLeave, BrowserLeaveMidFrame, goVars, connVars
<1>7. ASSUME UNCHANGED vars PROVE UNCHANGED <<pc, wio>>
  BY <1>7 DEF vars, goVars, connVars
<1> QED
  BY <1>2, <1>3, <1>4, <1>5, <1>6, <1>7 DEF Next, Over

\* As long as the browser gets what is written, the header of the frame that
\* is being written is the last thing in the socket.  Once the browser has
\* gone the socket is empty.
HeaderOut ==
    /\ \A g \in Goroutines : pc[g] = "payload" /\ Up =>
          s2c # <<>> /\ s2c[Len(s2c)] = [part |-> "header", frame |-> msg[g]]
    /\ peer = "gone" => s2c = <<>>

\* A step that neither writes to the socket nor reads from it.
Quiet ==
    /\ UNCHANGED <<s2c, werr>>
    /\ Up' => Up
    /\ peer' = "gone" => peer = "gone"
    /\ \A g \in Goroutines : pc[g] = "payload" <=> pc'[g] = "payload"
    /\ \A g \in Goroutines : pc[g] = "payload" => msg'[g] = msg[g]

LEMMA QuietFrames == TypeOK /\ WellFramed /\ HeaderOut /\ Quiet => WellFramed' /\ HeaderOut'
  BY DEF TypeOK, Quiet, WellFramed, HeaderOut

LEMMA WriteHeaderFrames ==
    ASSUME TypeOK, WioInv, WellFramed, HeaderOut, NEW g \in Goroutines, WriteHeader(g)
    PROVE  WellFramed' /\ HeaderOut'
<1> DEFINE new == [part |-> "header", frame |-> msg[g]]
<1>1. /\ pc[g] = "header" /\ pc' = [pc EXCEPT ![g] = "payload"]
      /\ UNCHANGED <<msg, conn, werr, wio, peer>>
  BY DEF WriteHeader, peerVars
<1>2. \A h \in Goroutines : pc[h] # "payload"
  BY <1>1 DEF TypeOK, WioInv
<1>3. pc'[g] = "payload" /\ \A h \in Goroutines \ {g} : pc'[h] # "payload"
  BY <1>1, <1>2 DEF TypeOK
<1>4. CASE peer = "gone"
  <2>1. s2c' = <<>>
    BY <1>4 DEF WriteHeader, Put, HeaderOut
  <2>2. ~Up'
    BY <1>1, <1>4 DEF Up
  <2> QED
    BY <2>1, <2>2 DEF WellFramed, HeaderOut
<1>5. CASE peer # "gone"
  <2>1. s2c' = Append(s2c, new) /\ ~werr
    BY <1>5 DEF WriteHeader, Put
  <2>2. new \in Piece
    BY DEF TypeOK, Piece
  <2>3. /\ Len(s2c) \in Nat /\ Len(s2c') = Len(s2c) + 1 /\ s2c' # <<>>
        /\ \A i \in 1..Len(s2c) : s2c'[i] = s2c[i]
        /\ s2c'[Len(s2c) + 1] = new
    <3> HIDE DEF new
    <3>1. s2c \in Seq(Piece)
      BY DEF TypeOK
    <3> QED
      BY <2>1, <2>2, <3>1, AppendProperties, LenProperties
  <2>4. \A i \in 1..Len(s2c) : s2c[i] \in Piece
    BY ElementOfSeq DEF TypeOK
  <2>5. s2c # <<>> => s2c[Len(s2c)].part = "payload"
    BY <1>2, <2>1, <2>3, <2>4, EmptySeq DEF WellFramed, TypeOK, Piece
  <2>6. s2c'[1].part = "header"
    <3>1. s2c \in Seq(Piece)
      BY DEF TypeOK
    <3>2. CASE s2c = <<>>
      <4>1. Len(s2c) + 1 = 1
        BY <3>2
      <4> QED
        BY <2>3, <4>1
    <3>3. CASE s2c # <<>>
      <4>1. 1 \in 1..Len(s2c) /\ s2c[1].part = "header"
        BY <2>3, <3>1, <3>3, EmptySeq DEF WellFramed
      <4> QED
        BY <2>3, <4>1
    <3> QED
      BY <3>2, <3>3
  <2>7. ASSUME NEW i \in 1..(Len(s2c') - 1)
        PROVE  IF s2c'[i].part = "header"
                 THEN s2c'[i + 1] = [part |-> "payload", frame |-> s2c'[i].frame]
                 ELSE s2c'[i + 1].part = "header"
    <3>1. CASE i < Len(s2c)
      BY <2>3, <2>7, <3>1 DEF WellFramed
    <3>2. CASE i = Len(s2c)
      BY <2>3, <2>5, <2>7, <3>2 DEF TypeOK
    <3> QED
      BY <2>3, <2>7, <3>1, <3>2
  <2>8. s2c'[Len(s2c')] = [part |-> "header", frame |-> msg'[g]]
    BY <1>1, <2>3
  <2>9. WellFramed'
    BY <1>3, <2>6, <2>7, <2>8 DEF WellFramed
  <2> QED
    BY <1>1, <1>3, <1>5, <2>3, <2>8, <2>9 DEF HeaderOut
<1> QED
  BY <1>4, <1>5

LEMMA WritePayloadFrames ==
    ASSUME TypeOK, WioInv, WellFramed, HeaderOut, NEW g \in Goroutines, WritePayload(g)
    PROVE  WellFramed' /\ HeaderOut'
<1> DEFINE new == [part |-> "payload", frame |-> msg[g]]
<1>1. /\ pc[g] = "payload" /\ pc' = [pc EXCEPT ![g] = AfterFrame(g)]
      /\ UNCHANGED <<msg, conn, werr, peer>> /\ conn = "open" /\ ~werr
  BY DEF WritePayload, Put, peerVars
<1>2. \A h \in Goroutines : pc'[h] # "payload"
  BY <1>1 DEF TypeOK, WioInv, AfterFrame
<1>3. CASE peer = "gone"
  <2>1. s2c' = <<>>
    BY <1>3 DEF WritePayload, Put, HeaderOut
  <2> QED
    BY <1>2, <2>1 DEF WellFramed, HeaderOut
<1>4. CASE peer # "gone"
  <2>1. s2c' = Append(s2c, new)
    BY <1>4 DEF WritePayload, Put
  <2>2. new \in Piece
    BY DEF TypeOK, Piece
  <2>3. /\ Len(s2c) \in Nat /\ Len(s2c') = Len(s2c) + 1 /\ s2c' # <<>>
        /\ \A i \in 1..Len(s2c) : s2c'[i] = s2c[i]
        /\ s2c'[Len(s2c) + 1] = new
    <3> HIDE DEF new
    <3>1. s2c \in Seq(Piece)
      BY DEF TypeOK
    <3> QED
      BY <2>1, <2>2, <3>1, AppendProperties, LenProperties
  <2>4. s2c # <<>> /\ s2c[Len(s2c)] = [part |-> "header", frame |-> msg[g]]
    BY <1>1, <1>4 DEF HeaderOut, Up
  <2>5. Len(s2c) > 0
    BY <2>3, <2>4, EmptySeq DEF TypeOK
  <2>6. s2c'[1].part = "header"
    BY <2>3, <2>4, <2>5 DEF WellFramed
  <2>7. ASSUME NEW i \in 1..(Len(s2c') - 1)
        PROVE  IF s2c'[i].part = "header"
                 THEN s2c'[i + 1] = [part |-> "payload", frame |-> s2c'[i].frame]
                 ELSE s2c'[i + 1].part = "header"
    <3>1. CASE i < Len(s2c)
      BY <2>3, <2>7, <3>1 DEF WellFramed
    <3>2. CASE i = Len(s2c)
      BY <2>3, <2>4, <2>7, <3>2
    <3> QED
      BY <2>3, <2>7, <3>1, <3>2
  <2>8. s2c'[Len(s2c')].part = "payload"
    BY <2>3
  <2>9. WellFramed'
    BY <2>6, <2>7, <2>8 DEF WellFramed
  <2> QED
    BY <1>1, <1>2, <1>4, <2>9 DEF HeaderOut
<1> QED
  BY <1>3, <1>4

LEMMA BrowserReceiveFrames ==
    ASSUME TypeOK, WellFramed, HeaderOut, BrowserReceive
    PROVE  WellFramed' /\ HeaderOut'
<1>1. /\ s2c' = SubSeq(s2c, 3, Len(s2c)) /\ Len(s2c) >= 2 /\ peer # "gone"
      /\ UNCHANGED <<pc, msg, conn, werr, peer>>
  BY DEF BrowserReceive, goVars, peerVars
<1>2. Len(s2c) \in Nat /\ \A i \in 1..Len(s2c) : s2c[i] \in Piece
  BY ElementOfSeq, LenProperties DEF TypeOK
<1>3. \A i \in 3..Len(s2c) : s2c[i] \in Piece
  BY <1>2
<1>4. /\ s2c' \in Seq(Piece) /\ Len(s2c') = Len(s2c) - 2
      /\ \A i \in 1..(Len(s2c) - 2) : s2c'[i] = s2c[i + 2]
  <2> DEFINE n == Len(s2c)
  <2>1. n \in Int /\ \A i \in 3..n : s2c[i] \in Piece
    BY <1>2, <1>3
  <2> HIDE DEF n
  <2>2. /\ SubSeq(s2c, 3, n) \in Seq(Piece)
        /\ Len(SubSeq(s2c, 3, n)) = IF 3 <= n THEN n - 3 + 1 ELSE 0
        /\ \A i \in 1..(n - 3 + 1) : SubSeq(s2c, 3, n)[i] = s2c[3 + i - 1]
    BY <2>1, SubSeqProperties
  <2>3. s2c' = SubSeq(s2c, 3, n) /\ n >= 2
    BY <1>1 DEF n
  <2>4. ASSUME NEW i \in 1..(n - 2) PROVE s2c'[i] = s2c[i + 2]
    <3>1. i \in 1..(n - 3 + 1) /\ 3 + i - 1 = i + 2
      BY <2>1
    <3> QED
      BY <2>2, <2>3, <3>1
  <2>5. s2c' \in Seq(Piece) /\ Len(s2c') = n - 2
    BY <2>1, <2>2, <2>3
  <2> QED
    BY <2>4, <2>5 DEF n
<1>5. s2c # <<>> /\ s2c[1].part = "header" /\ s2c[2].part = "payload"
  <2>1. s2c # <<>> /\ 1 \in 1..(Len(s2c) - 1)
    <3>1. Len(<<>>) = 0
      OBVIOUS
    <3> QED
      BY <1>1, <1>2, <3>1
  <2>2. s2c[1].part = "header" /\ s2c[1 + 1] = [part |-> "payload", frame |-> s2c[1].frame]
    BY <2>1 DEF WellFramed
  <2> QED
    BY <2>1, <2>2
<1>6. Len(s2c) > 2 => s2c[3].part = "header"
  <2> SUFFICES ASSUME Len(s2c) > 2 PROVE s2c[3].part = "header"
    OBVIOUS
  <2>1. 2 \in 1..(Len(s2c) - 1)
    BY <1>2
  <2>2. s2c[2 + 1].part = "header"
    BY <1>5, <2>1 DEF WellFramed
  <2> QED
    BY <2>2
<1>7. CASE Len(s2c) = 2
  <2>1. s2c' = <<>>
    BY <1>4, <1>7, EmptySeq
  <2>2. s2c[Len(s2c)].part = "payload"
    BY <1>5, <1>7
  <2>3. ~(\E g \in Goroutines : pc[g] = "payload" /\ Up)
    BY <2>2 DEF HeaderOut
  <2> QED
    BY <1>1, <2>1, <2>3 DEF WellFramed, HeaderOut, Up
<1>8. CASE Len(s2c) > 2
  <2>1. s2c' # <<>> /\ s2c'[Len(s2c')] = s2c[Len(s2c)]
    BY <1>2, <1>4, <1>8, EmptySeq
  <2>2. s2c'[1].part = "header"
    BY <1>2, <1>4, <1>6, <1>8
  <2>3. ASSUME NEW i \in 1..(Len(s2c') - 1)
        PROVE  IF s2c'[i].part = "header"
                 THEN s2c'[i + 1] = [part |-> "payload", frame |-> s2c'[i].frame]
                 ELSE s2c'[i + 1].part = "header"
    <3>1. i + 2 \in 1..(Len(s2c) - 1) /\ s2c'[i] = s2c[i + 2] /\ s2c'[i + 1] = s2c[(i + 2) + 1]
      BY <1>2, <1>4, <2>3
    <3> QED
      BY <3>1 DEF WellFramed
  <2>4. WellFramed'
    BY <1>1, <1>5, <2>1, <2>2, <2>3 DEF WellFramed
  <2> QED
    BY <1>1, <2>1, <2>4 DEF HeaderOut, Up
<1> QED
  BY <1>1, <1>2, <1>7, <1>8

LEMMA FramesStep ==
    TypeOK /\ HandlerInv /\ WioInv /\ WellFramed /\ HeaderOut /\ [Next]_vars
        => WellFramed' /\ HeaderOut'
<1> SUFFICES ASSUME TypeOK, HandlerInv, WioInv, WellFramed, HeaderOut, [Next]_vars
             PROVE  WellFramed' /\ HeaderOut'
  OBVIOUS
<1>1. ASSUME Quiet PROVE WellFramed' /\ HeaderOut'
  BY <1>1, QuietFrames
<1>2. ASSUME NEW g \in Goroutines, WriteFrame(g) PROVE WellFramed' /\ HeaderOut'
  <2>1. CASE Lock(g)
    <3>1. Quiet
      BY <2>1 DEF TypeOK, Lock, Quiet, Up, peerVars
    <3> QED
      BY <1>1, <3>1
  <2>2. CASE WriteFails(g)
    BY <2>2 DEF WriteFails, WellFramed, HeaderOut, Up, peerVars
  <2> QED
    BY <1>2, <2>1, <2>2, WriteHeaderFrames, WritePayloadFrames DEF WriteFrame
<1>3. ASSUME NEW c \in Copiers, CopyOut(c) PROVE WellFramed' /\ HeaderOut'
  <2>1. CASE EnterRead(c) \/ ReadClosed(c) \/ ReadChunk(c) \/ ReadEIO(c)
    <3>1. Quiet
      BY <2>1 DEF TypeOK, EnterRead, ReadClosed, ReadChunk, ReadEIO, Quiet, Up, connVars, peerVars
    <3> QED
      BY <1>1, <3>1
  <2> QED
    BY <1>2, <1>3, <2>1 DEF CopyOut
<1>4. ASSUME CopyIn PROVE WellFramed' /\ HeaderOut'
  <2>1. CASE Receive
    <3>1. Head(c2s) \in ClientFrame
      BY <2>1, TailType DEF TypeOK, Receive
    <3>2. AfterReceive(Head(c2s)) # "payload"
      BY <3>1 DEF AfterReceive, ClientFrame, DataOps
    <3>3. Quiet
      BY <2>1, <3>2 DEF TypeOK, Receive, Quiet, Up, connVars
    <3> QED
      BY <1>1, <3>3
  <2>2. CASE ReceiveFails \/ EnterWrite \/ TtyWrite \/ TtyWriteFails
    <3>1. Quiet
      BY <2>2 DEF TypeOK, ReceiveFails, EnterWrite, TtyWrite, TtyWriteFails, Quiet, Up, connVars, peerVars
    <3> QED
      BY <1>1, <3>1
  <2> QED
    BY <1>2, <1>4, <2>1, <2>2 DEF CopyIn
<1>5. ASSUME Handler PROVE Quiet
  BY <1>5 DEF TypeOK, HandlerInv, Handler, Accept, Reject, Start, StartPanics, Wait, CloseTty,
              CloseConn, Quiet, Up, goVars, connVars, peerVars
<1>6. ASSUME Shell PROVE Quiet
  BY <1>6 DEF Shell, ShellOutput, ShellRead, JobStart, JobExit, ShellExit, Quiet, Up, goVars, connVars, peerVars
<1>7. ASSUME Browser PROVE WellFramed' /\ HeaderOut'
  <2>1. CASE BrowserSend \/ BrowserClose
    <3>1. Quiet
      BY <2>1 DEF BrowserSend, BrowserClose, Quiet, Up, goVars, connVars
    <3> QED
      BY <1>1, <3>1
  <2>2. CASE BrowserLeave \/ BrowserLeaveMidFrame
    <3>1. s2c' = <<>> /\ peer' = "gone"
      BY <2>2 DEF BrowserLeave, BrowserLeaveMidFrame
    <3> QED
      BY <3>1 DEF WellFramed, HeaderOut, Up
  <2> QED
    BY <1>7, <2>1, <2>2, BrowserReceiveFrames DEF Browser
<1>8. ASSUME UNCHANGED vars PROVE Quiet
  BY <1>8 DEF vars, Quiet, Up, goVars, connVars, peerVars
<1> QED
  BY <1>1, <1>3, <1>4, <1>5, <1>6, <1>7, <1>8 DEF Next, Over

\* However the three goroutines interleave and whoever fails, the browser is
\* sent whole frames, one after the other.
THEOREM FramesWhole == Spec => []WellFramed
<1>1. Init => HandlerInv /\ WioInv /\ WellFramed /\ HeaderOut
  BY DEF Init, HandlerInv, WioInv, WellFramed, HeaderOut, Free, Up
<1> QED
  BY <1>1, HandlerStep, WioStep, FramesStep, TypeCorrect, PTL DEF Spec

-----------------------------------------------------------------------------
(***************************************************************************)
(* Input.                                                                  *)
(***************************************************************************)

\* A frame more gives its own input more.
LEMMA InputOfAppend ==
    ASSUME NEW t \in Seq(ClientFrame), NEW f \in ClientFrame
    PROVE  /\ InputOf(t) \in Seq(Byte)
           /\ InputOf(Append(t, f)) = InputOf(t) \o Input(f)
<1> DEFINE u == Append(t, f)
           ss == [i \in DOMAIN t |-> Input(t[i])]
           tt == [i \in DOMAIN u |-> Input(u[i])]
           x == Input(f)
<1>1. u \in Seq(ClientFrame) /\ Len(u) = Len(t) + 1 /\ u[Len(t) + 1] = f
      /\ \A i \in 1..Len(t) : u[i] = t[i]
  OBVIOUS
<1>2. Len(t) \in Nat /\ DOMAIN t = 1..Len(t) /\ DOMAIN u = 1..(Len(t) + 1)
      /\ \A i \in 1..Len(t) : t[i] \in ClientFrame
  BY <1>1
<1> HIDE DEF u
<1>3. /\ ss \in Seq(Seq(Byte)) /\ Len(ss) = Len(t)
      /\ \A i \in 1..Len(t) : ss[i] = Input(t[i])
  <2>1. \A i \in 1..Len(t) : Input(t[i]) \in Seq(Byte)
    BY <1>2, InputType
  <2> QED
    BY <1>2, <2>1
<1>4. x \in Seq(Byte)
  BY InputType
<1>5. tt = Append(ss, x)
  <2> DEFINE a == Append(ss, x)
  <2>1. tt \in Seq(Seq(Byte)) /\ Len(tt) = Len(t) + 1
        /\ \A i \in 1..(Len(t) + 1) : tt[i] = Input(u[i])
    <3>1. \A i \in 1..(Len(t) + 1) : Input(u[i]) \in Seq(Byte)
      BY <1>1, <1>2, InputType
    <3> QED
      BY <1>2, <3>1
  <2> HIDE DEF ss, x, tt
  <2>2. a \in Seq(Seq(Byte)) /\ Len(a) = Len(t) + 1 /\ a[Len(t) + 1] = x
        /\ \A i \in 1..Len(t) : a[i] = ss[i]
    BY <1>3, <1>4
  <2> HIDE DEF a
  <2>3. ASSUME NEW i \in 1..(Len(t) + 1) PROVE tt[i] = a[i]
    <3>1. CASE i \in 1..Len(t)
      BY <1>1, <1>3, <2>1, <2>2, <3>1
    <3>2. CASE i = Len(t) + 1
      BY <1>1, <2>1, <2>2, <3>2 DEF x
    <3> QED
      BY <1>2, <3>1, <3>2
  <2>4. tt = a
    BY <2>1, <2>2, <2>3, SeqEqual
  <2> QED
    BY <2>4 DEF a
<1> HIDE DEF ss, tt, x
<1>6. FlattenSeq(ss) \in Seq(Byte) /\ FlattenSeq(Append(ss, x)) = FlattenSeq(ss) \o x
  BY <1>3, <1>4, FlattenAppend
<1> QED
  BY <1>5, <1>6 DEF InputOf, ss, tt, u, x

\* The frames in the socket are the last ones sent.
QueueInv ==
    /\ Len(c2s) <= Len(typed)
    /\ \A i \in 1..Len(c2s) : c2s[i] = typed[Len(typed) - Len(c2s) + i]

LEMMA TakenType ==
    ASSUME TypeOK, QueueInv
    PROVE  Taken \in Seq(ClientFrame) /\ InputOf(Taken) \in Seq(Byte)
<1>1. typed \in Seq(ClientFrame) /\ Len(typed) \in Nat /\ Len(c2s) \in Nat
  BY LenProperties DEF TypeOK
<1>2. Len(typed) - Len(c2s) \in 0..Len(typed)
  BY <1>1 DEF QueueInv
<1>3. Taken \in Seq(ClientFrame)
  BY <1>1, <1>2, FrontOf DEF Taken
<1>4. [op |-> "close", masked |-> TRUE, data |-> <<>>] \in ClientFrame
  BY DEF ClientFrame, DataOps
<1> QED
  BY <1>3, <1>4, InputOfAppend

\* The browser sends: nothing more is taken.
LEMMA SendTakes ==
    ASSUME TypeOK, QueueInv, NEW f \in ClientFrame,
           c2s' = Append(c2s, f), typed' = Append(typed, f)
    PROVE  QueueInv' /\ Taken' = Taken
<1> DEFINE k == Len(typed)
           m == Len(c2s)
<1>1. typed \in Seq(ClientFrame) /\ c2s \in Seq(ClientFrame) /\ k \in Nat /\ m \in Nat /\ m <= k
  BY LenProperties DEF TypeOK, QueueInv
<1>2. /\ Len(typed') = k + 1 /\ typed'[k + 1] = f /\ \A i \in 1..k : typed'[i] = typed[i]
      /\ Len(c2s') = m + 1 /\ c2s'[m + 1] = f /\ \A i \in 1..m : c2s'[i] = c2s[i]
  BY <1>1
<1>3. \A i \in 1..m : c2s[i] = typed[k - m + i]
  BY DEF QueueInv
<1> HIDE DEF k, m
<1>4. (k + 1) - (m + 1) = k - m /\ k - m \in 0..k
  BY <1>1
<1>5. ASSUME NEW i \in 1..(m + 1) PROVE c2s'[i] = typed'[k - m + i]
  <2>1. CASE i \in 1..m
    <3>1. k - m + i \in 1..k
      BY <1>1, <2>1
    <3> QED
      BY <1>2, <1>3, <2>1, <3>1
  <2>2. CASE i = m + 1
    <3>1. k - m + i = k + 1
      BY <1>1, <2>2
    <3> QED
      BY <1>2, <2>2, <3>1
  <2>3. i \in 1..m \/ i = m + 1
    BY <1>1
  <2> QED
    BY <2>1, <2>2, <2>3, Zenon
<1>6. m + 1 <= k + 1
  BY <1>1
<1>7. QueueInv'
  <2>1. Len(c2s') <= Len(typed')
    BY <1>2, <1>6, Zenon
  <2>2. \A i \in 1..Len(c2s') : c2s'[i] = typed'[(k + 1) - (m + 1) + i]
    BY <1>2, <1>4, <1>5, Zenon
  <2>3. \A i \in 1..Len(c2s') : c2s'[i] = typed'[Len(typed') - Len(c2s') + i]
    BY <1>2, <2>2, Zenon
  <2> QED
    BY <2>1, <2>3, Zenon DEF QueueInv
<1>8. SubSeq(Append(typed, f), 1, k - m) = SubSeq(typed, 1, k - m)
  <2>1. k - m \in 0..Len(typed)
    BY <1>4 DEF k
  <2> QED
    BY <1>1, <2>1, FrontOfAppend
<1> QED
  BY <1>2, <1>4, <1>7, <1>8 DEF Taken, k, m

\* The server takes the first frame of the socket.
LEMMA ReceiveTakes ==
    ASSUME TypeOK, QueueInv, c2s # <<>>, c2s' = Tail(c2s), typed' = typed
    PROVE  QueueInv' /\ Taken' = Append(Taken, Head(c2s))
<1> DEFINE k == Len(typed)
           m == Len(c2s)
<1>1. typed \in Seq(ClientFrame) /\ c2s \in Seq(ClientFrame) /\ k \in Nat /\ m \in Nat \ {0} /\ m <= k
  BY LenProperties, EmptySeq DEF TypeOK, QueueInv
<1>2. Head(c2s) = c2s[1] /\ Len(c2s') = m - 1 /\ \A i \in 1..(m - 1) : c2s'[i] = c2s[i + 1]
  BY <1>1, HeadTailProperties
<1>3. \A i \in 1..m : c2s[i] = typed[k - m + i]
  BY DEF QueueInv
<1> HIDE DEF k, m
<1>4. k - (m - 1) = k - m + 1 /\ k - m + 1 \in 1..k /\ (k - m + 1) - 1 = k - m /\ 1 \in 1..m
  BY <1>1
<1>5. ASSUME NEW i \in 1..(m - 1) PROVE c2s'[i] = typed[k - (m - 1) + i]
  <2>1. i + 1 \in 1..m /\ k - m + (i + 1) = k - (m - 1) + i
    BY <1>1
  <2> QED
    BY <1>2, <1>3, <2>1
<1>6. m - 1 <= k
  BY <1>1
<1>7. QueueInv'
  BY <1>2, <1>5, <1>6 DEF QueueInv, k
<1>8. SubSeq(typed, 1, k - m + 1) = Append(SubSeq(typed, 1, k - m), typed[k - m + 1])
  <2> DEFINE n == k - m + 1
  <2>1. n \in 1..Len(typed) /\ n - 1 = k - m
    BY <1>4 DEF k
  <2> HIDE DEF n
  <2>2. SubSeq(typed, 1, n) = Append(SubSeq(typed, 1, n - 1), typed[n])
    BY <1>1, <2>1, FrontGrows
  <2> QED
    BY <2>1, <2>2 DEF n
<1>9. Head(c2s) = typed[k - m + 1]
  BY <1>2, <1>3, <1>4
<1> QED
  BY <1>2, <1>4, <1>7, <1>8, <1>9 DEF Taken, k, m

\* What is in the socket and what is left in the buffer are both still to come.
InputInv == QueueInv /\ InputFaithful

\* Places where stdin has nothing left to write.
Waiting == {"off", "read", "lock", "header", "payload"}

\* A step that takes nothing and writes nothing to the terminal.
LEMMA InputIdle ==
    ASSUME TypeOK, InputInv, QueueInv', Taken' = Taken, written' = written, ibuf' = ibuf,
           \/ pc'["stdin"] = pc["stdin"]
           \/ pc["stdin"] \in Waiting /\ pc'["stdin"] \in Waiting
           \/ pc["stdin"] = "write" /\ pc'["stdin"] = "syscall"
           \/ pc'["stdin"] = "done"
    PROVE  InputInv'
  BY DEF InputInv, InputFaithful, Waiting

LEMMA InputReceive ==
    ASSUME TypeOK, InputInv, Receive
    PROVE  InputInv'
<1> DEFINE f == Head(c2s)
           d == InputOf(Taken)
<1>1. /\ pc["stdin"] = "read" /\ c2s # <<>> /\ c2s' = Tail(c2s) /\ UNCHANGED <<typed, written>>
      /\ pc' = [pc EXCEPT !["stdin"] = AfterReceive(f)] /\ ibuf' = Input(f)
  BY DEF Receive, ttyVars
<1>2. f \in ClientFrame
  BY <1>1, TailType DEF TypeOK
<1>3. QueueInv' /\ Taken' = Append(Taken, f)
  BY <1>1, ReceiveTakes DEF InputInv
<1>4. Taken \in Seq(ClientFrame) /\ d \in Seq(Byte)
  BY TakenType DEF InputInv
<1>5. InputOf(Taken') = d \o Input(f)
  BY <1>2, <1>3, <1>4, InputOfAppend
<1>6. written = d
  BY <1>1 DEF InputInv, InputFaithful
<1>7. pc'["stdin"] = AfterReceive(f)
  BY <1>1 DEF TypeOK
<1>8. Input(f) \in Seq(Byte)
  BY <1>2, InputType
<1>9. AfterReceive(f) # "write" => Input(f) = <<>>
  BY <1>2 DEF AfterReceive, Input, Accepted, ClientFrame, DataOps
<1>10. d \o <<>> = d
  BY <1>4, ConcatEmptySeq
<1>11. IsPrefix(d, d \o Input(f))
  BY <1>4, <1>8, PrefixOfConcat
<1> HIDE DEF d, f
<1>12. InputFaithful'
  BY <1>1, <1>5, <1>6, <1>7, <1>9, <1>10, <1>11 DEF InputFaithful
<1> QED
  BY <1>3, <1>12 DEF InputInv

LEMMA InputTtyWrite ==
    ASSUME TypeOK, InputInv, TtyWrite
    PROVE  InputInv'
<1> DEFINE d == InputOf(Taken)
<1>1. /\ pc["stdin"] = "syscall" /\ UNCHANGED <<c2s, typed>>
      /\ written' = Append(written, Head(ibuf)) /\ ibuf' = Tail(ibuf)
      /\ \E next \in IF Tail(ibuf) = <<>> THEN {"read"} ELSE {"syscall", "write"} :
            pc' = [pc EXCEPT !["stdin"] = next]
  BY DEF TtyWrite, peerVars
<1>2. QueueInv' /\ Taken' = Taken
  BY <1>1 DEF InputInv, QueueInv, Taken
<1>3. written \in Seq(Byte) /\ ibuf \in Seq(Byte) /\ ibuf # <<>>
  BY <1>1 DEF TypeOK
<1>4. written \o ibuf = d
  BY <1>1 DEF InputInv, InputFaithful
<1>5. written' \o ibuf' = d
  BY <1>1, <1>3, <1>4, ConcatShift
<1>6. written' \in Seq(Byte) /\ ibuf' \in Seq(Byte)
  BY <1>1, <1>3, TailType, AppendProperties
<1>7. IsPrefix(written', d)
  BY <1>5, <1>6, PrefixOfConcat
<1>8. pc'["stdin"] \in IF ibuf' = <<>> THEN {"read"} ELSE {"syscall", "write"}
  BY <1>1 DEF TypeOK
<1>9. written' \o <<>> = written'
  BY <1>6, ConcatEmptySeq
<1> HIDE DEF d
<1>10. InputOf(Taken') = d
  BY <1>2 DEF d
<1>11. InputFaithful'
  BY <1>5, <1>7, <1>8, <1>9, <1>10 DEF InputFaithful
<1> QED
  BY <1>2, <1>11 DEF InputInv

LEMMA InputStep == TypeOK /\ HandlerInv /\ InputInv /\ [Next]_vars => InputInv'
<1> SUFFICES ASSUME TypeOK, HandlerInv, InputInv, [Next]_vars PROVE InputInv'
  OBVIOUS
<1>1. ASSUME UNCHANGED <<c2s, typed>> PROVE QueueInv' /\ Taken' = Taken
  BY <1>1 DEF InputInv, QueueInv, Taken
<1>2. ASSUME NEW g \in Goroutines, WriteFrame(g) PROVE InputInv'
  <2>1. UNCHANGED <<c2s, typed, written, ibuf>>
    BY <1>2 DEF WriteFrame, Lock, WriteHeader, WritePayload, WriteFails, ttyVars, peerVars
  <2>2. CASE g = "stdin"
    <3>1. pc["stdin"] \in Waiting /\ (pc'["stdin"] \in Waiting \/ pc'["stdin"] = "done")
      BY <1>2, <2>2 DEF TypeOK, WriteFrame, Lock, WriteHeader, WritePayload, WriteFails,
                        AfterFrame, Waiting
    <3> QED
      BY <1>1, <2>1, <3>1, InputIdle
  <2>3. CASE g # "stdin"
    <3>1. pc'["stdin"] = pc["stdin"]
      BY <1>2, <2>3 DEF TypeOK, WriteFrame, Lock, WriteHeader, WritePayload, WriteFails
    <3> QED
      BY <1>1, <2>1, <3>1, InputIdle
  <2> QED
    BY <2>2, <2>3
<1>3. ASSUME NEW c \in Copiers, CopyOut(c) PROVE InputInv'
  <2>1. CASE EnterRead(c) \/ ReadClosed(c) \/ ReadChunk(c) \/ ReadEIO(c)
    <3>1. UNCHANGED <<c2s, typed, written, ibuf>> /\ pc'["stdin"] = pc["stdin"]
      BY <2>1 DEF TypeOK, EnterRead, ReadClosed, ReadChunk, ReadEIO, ttyVars, peerVars
    <3> QED
      BY <1>1, <3>1, InputIdle
  <2> QED
    BY <1>2, <1>3, <2>1 DEF CopyOut
<1>4. ASSUME CopyIn PROVE InputInv'
  <2>1. CASE ReceiveFails \/ TtyWriteFails
    <3>1. UNCHANGED <<c2s, typed, written, ibuf>> /\ pc'["stdin"] = "done"
      BY <2>1 DEF TypeOK, ReceiveFails, TtyWriteFails, ttyVars, peerVars
    <3> QED
      BY <1>1, <3>1, InputIdle
  <2>2. CASE EnterWrite
    <3>1. UNCHANGED <<c2s, typed, written, ibuf>> /\ pc["stdin"] = "write" /\ pc'["stdin"] = "syscall"
      BY <2>2 DEF TypeOK, EnterWrite, ttyVars, peerVars
    <3> QED
      BY <1>1, <3>1, InputIdle
  <2> QED
    BY <1>2, <1>4, <2>1, <2>2, InputReceive, InputTtyWrite DEF CopyIn
<1>5. ASSUME Handler PROVE InputInv'
  <2>1. UNCHANGED <<c2s, typed, written, ibuf>>
    BY <1>5 DEF Handler, Accept, Reject, Start, StartPanics, Wait, CloseTty, CloseConn,
                goVars, ttyVars, peerVars
  <2>2. CASE Start
    <3>1. pc["stdin"] = "off" /\ pc'["stdin"] = "read"
      BY <2>2 DEF HandlerInv, Start
    <3> QED
      BY <1>1, <2>1, <3>1, InputIdle DEF Waiting
  <2>3. CASE ~Start
    <3>1. pc' = pc
      BY <1>5, <2>3 DEF Handler, Accept, Reject, StartPanics, Wait, CloseTty, CloseConn, goVars
    <3> QED
      BY <1>1, <2>1, <3>1, InputIdle
  <2> QED
    BY <2>2, <2>3
<1>6. ASSUME Shell \/ UNCHANGED vars PROVE InputInv'
  <2>1. UNCHANGED <<c2s, typed, written, ibuf, pc>>
    BY <1>6 DEF Shell, ShellOutput, ShellRead, JobStart, JobExit, ShellExit, goVars, ttyVars, connVars, peerVars, vars
  <2> QED
    BY <1>1, <2>1, InputIdle
<1>7. ASSUME Browser PROVE InputInv'
  <2>1. UNCHANGED <<written, ibuf, pc>>
    BY <1>7 DEF Browser, BrowserSend, BrowserClose, BrowserReceive, BrowserLeave,
                BrowserLeaveMidFrame, goVars, ttyVars
  <2>2. CASE UNCHANGED <<c2s, typed>>
    BY <1>1, <2>1, <2>2, InputIdle
  <2>3. CASE \E f \in ClientFrame : c2s' = Append(c2s, f) /\ typed' = Append(typed, f)
    <3>1. QueueInv' /\ Taken' = Taken
      BY <2>3, SendTakes DEF InputInv
    <3> QED
      BY <2>1, <3>1, InputIdle
  <2>4. ASSUME BrowserSend
        PROVE  \E f \in ClientFrame : c2s' = Append(c2s, f) /\ typed' = Append(typed, f)
    BY <2>4, SentFrameType DEF BrowserSend
  <2>5. ASSUME BrowserClose
        PROVE  \E f \in ClientFrame : c2s' = Append(c2s, f) /\ typed' = Append(typed, f)
    <3>1. [op |-> "close", masked |-> TRUE, data |-> <<>>] \in ClientFrame
      BY DEF ClientFrame, DataOps
    <3> QED
      BY <2>5, <3>1 DEF BrowserClose
  <2>6. ASSUME BrowserLeaveMidFrame
        PROVE  \E f \in ClientFrame : c2s' = Append(c2s, f) /\ typed' = Append(typed, f)
    BY <2>6, PartType DEF BrowserLeaveMidFrame
  <2>7. ASSUME BrowserReceive \/ BrowserLeave PROVE UNCHANGED <<c2s, typed>>
    BY <2>7 DEF BrowserReceive, BrowserLeave, peerVars
  <2> QED
    BY <1>7, <2>2, <2>3, <2>4, <2>5, <2>6, <2>7 DEF Browser
<1> QED
  BY <1>3, <1>4, <1>5, <1>6, <1>7 DEF Next, Over

\* What reaches bash is what the messages taken off the socket say, each dropped
\* or truncated on its own: nothing is repeated after a short write, reordered or
\* mixed, however long the messages and however many (InputWrapper.Read, io.Copy).
THEOREM InputReachesShell == Spec => []InputFaithful
<1>1. Init => HandlerInv /\ InputInv
  <2> SUFFICES ASSUME Init PROVE InputInv
    BY DEF Init, HandlerInv
  <2>1. typed = <<>> /\ c2s = <<>> /\ written = <<>> /\ pc["stdin"] = "off"
    BY DEF Init
  <2>2. Len(typed) = 0 /\ Len(c2s) = 0
    BY <2>1
  <2>3. Taken = <<>>
    BY <2>1, <2>2, SubSeqEmpty DEF Taken
  <2>4. InputOf(<<>>) = <<>>
    <3>1. [i \in DOMAIN <<>> |-> Input(<<>>[i])] = <<>>
      OBVIOUS
    <3> QED
      BY <3>1, FlattenEmpty, Zenon DEF InputOf
  <2>5. IsPrefix(<<>>, <<>>)
    BY DEF IsPrefix
  <2>6. QueueInv
    BY <2>2 DEF QueueInv
  <2> QED
    BY <2>1, <2>3, <2>4, <2>5, <2>6 DEF InputInv, InputFaithful
<1>2. InputInv => InputFaithful
  BY DEF InputInv
<1> QED
  BY <1>1, <1>2, HandlerStep, InputStep, TypeCorrect, PTL DEF Spec
=============================================================================
