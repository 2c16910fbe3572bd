-------------------------- MODULE ShellOutputProofs --------------------------
(***************************************************************************)
(* What ShellSession does with the output of bash, for every value of the  *)
(* constants: each byte read from the tty is in exactly one chunk, and the *)
(* output side implements OutputPipe.                                      *)
(***************************************************************************)
EXTENDS ShellSessionProofs

USE DEF Copiers, Goroutines, Holding

\* The chunks in hand and the frames sent lie within what has been read from
\* the tty, are made by WebSockWrapper.Write, and those of one copier come in
\* order.
ChunkInv ==
    /\ \A c \in Copiers : Holding(c) =>
          /\ msg[c] = Write(c, msg[c].lo, msg[c].hi)
          /\ msg[c].lo <= msg[c].hi /\ msg[c].hi <= consumed
    /\ \A i \in DOMAIN flushed :
          /\ flushed[i].by \in Copiers
          /\ flushed[i] = Write(flushed[i].by, flushed[i].lo, flushed[i].hi)
          /\ flushed[i].lo <= flushed[i].hi /\ flushed[i].hi <= consumed
    /\ \A c \in Copiers : Holding(c) => \A i \in DOMAIN flushed :
          flushed[i].by = c => flushed[i].hi < msg[c].lo

OutInv == ChunkInv /\ NoOutputTwice /\ NoOutputLost /\ CopierInOrder

\* A step that moves no output.
Idle ==
    /\ UNCHANGED <<consumed, flushed>>
    /\ Up' => Up
    /\ \A c \in Copiers : Holding(c)' <=> Holding(c)
    /\ \A c \in Copiers : Holding(c) => msg'[c] = msg[c]

LEMMA FlushedDomain == TypeOK =>
    /\ Len(flushed) \in Nat /\ DOMAIN flushed = 1..Len(flushed)
    /\ \A i \in DOMAIN flushed : flushed[i] \in Frame
  BY ElementOfSeq, LenProperties DEF TypeOK

LEMMA IdleOut == TypeOK /\ OutInv /\ Idle => OutInv'
<1> SUFFICES ASSUME TypeOK, OutInv, Idle PROVE OutInv'
  OBVIOUS
<1>1. ChunkInv'
  BY DEF OutInv, ChunkInv, Idle
<1>2. NoOutputTwice'
  BY DEF OutInv, NoOutputTwice, Idle
<1>3. NoOutputLost'
  BY DEF OutInv, NoOutputLost, Idle, InFlushed, InHeld, InChunk
<1>4. CopierInOrder'
  BY DEF OutInv, CopierInOrder, Idle
<1> QED
  BY <1>1, <1>2, <1>3, <1>4 DEF OutInv

LEMMA ReadChunkOut ==
    ASSUME TypeOK, OutInv, NEW c \in Copiers, ReadChunk(c)
    PROVE  OutInv'
<1>1. PICK n \in 1..BufLen :
        /\ consumed + n <= produced
        /\ consumed' = consumed + n
        /\ msg' = [msg EXCEPT ![c] = Write(c, consumed + 1, consumed + n)]
  BY DEF ReadChunk
<1>2. n \in Nat /\ n >= 1 /\ consumed \in Nat
  BY BufLenAssumption, OutAssumption DEF TypeOK
<1>3. /\ UNCHANGED <<flushed, conn, werr, peer>>
      /\ Holding(c)' /\ ~Holding(c)
      /\ \A d \in Copiers \ {c} : (Holding(d)' <=> Holding(d)) /\ msg'[d] = msg[d]
  BY DEF TypeOK, ReadChunk, Holding, connVars, peerVars
<1>4. /\ msg'[c] = Write(c, consumed + 1, consumed + n)
      /\ msg'[c].lo = consumed + 1 /\ msg'[c].hi = consumed + n
  <2>1. msg'[c] = Write(c, consumed + 1, consumed + n)
    BY <1>1 DEF TypeOK
  <2> QED
    BY <2>1 DEF Write
<1>5. \A d \in Copiers : msg[d].lo \in Nat /\ msg[d].hi \in Nat
  <2>1. \A f \in Frame : f.lo \in 1..(MaxOut + 1) /\ f.hi \in 0..MaxOut
    BY DEF Frame
  <2>2. \A f \in Frame : f.lo \in Nat /\ f.hi \in Nat
    BY <2>1, OutAssumption
  <2>3. msg \in [Goroutines -> Frame] /\ Copiers \subseteq Goroutines
    BY DEF TypeOK, Goroutines
  <2> QED
    BY <2>2, <2>3
<1>6. \A i \in DOMAIN flushed : flushed[i].lo \in Nat /\ flushed[i].hi \in Nat
  BY FlushedDomain, OutAssumption DEF Frame
<1>7. ChunkInv'
  <2>1. ASSUME NEW d \in Copiers, Holding(d)'
        PROVE  /\ msg'[d] = Write(d, msg'[d].lo, msg'[d].hi)
               /\ msg'[d].lo <= msg'[d].hi /\ msg'[d].hi <= consumed'
    BY <1>1, <1>2, <1>3, <1>4, <1>5, <2>1 DEF OutInv, ChunkInv
  <2>2. ASSUME NEW i \in DOMAIN flushed'
        PROVE  /\ flushed'[i].by \in Copiers
               /\ flushed'[i] = Write(flushed'[i].by, flushed'[i].lo, flushed'[i].hi)
               /\ flushed'[i].lo <= flushed'[i].hi /\ flushed'[i].hi <= consumed'
    BY <1>1, <1>2, <1>3, <1>6, <2>2 DEF OutInv, ChunkInv
  <2>3. ASSUME NEW d \in Copiers, Holding(d)', NEW i \in DOMAIN flushed', flushed'[i].by = d
        PROVE  flushed'[i].hi < msg'[d].lo
    BY <1>2, <1>3, <1>4, <1>5, <1>6, <2>3 DEF OutInv, ChunkInv
  <2> QED
    BY <2>1, <2>2, <2>3 DEF ChunkInv
<1>8. NoOutputTwice'
  <2>1. ASSUME NEW d \in Copiers, Holding(d)', NEW i \in DOMAIN flushed'
        PROVE  flushed'[i].hi < msg'[d].lo \/ msg'[d].hi < flushed'[i].lo
    BY <1>2, <1>3, <1>4, <1>5, <1>6, <2>1 DEF OutInv, ChunkInv, NoOutputTwice
  <2>2. ASSUME Holding("stdout")', Holding("stderr")'
        PROVE  msg'["stdout"].hi < msg'["stderr"].lo \/ msg'["stderr"].hi < msg'["stdout"].lo
    BY <1>2, <1>3, <1>4, <1>5, <2>2 DEF OutInv, ChunkInv
  <2>3. \A i, j \in DOMAIN flushed' : i < j =>
          flushed'[i].hi < flushed'[j].lo \/ flushed'[j].hi < flushed'[i].lo
    BY <1>3 DEF OutInv, NoOutputTwice
  <2> QED
    BY <2>1, <2>2, <2>3 DEF NoOutputTwice
<1>9. NoOutputLost'
  <2> SUFFICES ASSUME Up', NEW p \in 1..consumed' PROVE InFlushed(p)' \/ InHeld(p)'
    BY DEF NoOutputLost
  <2>1. CASE p <= consumed
    <3>1. InFlushed(p) \/ InHeld(p)
      BY <1>1, <1>2, <1>3, <2>1 DEF OutInv, NoOutputLost, Up
    <3>2. CASE InFlushed(p)
      BY <1>3, <3>2 DEF InFlushed, InChunk
    <3>3. CASE InHeld(p)
      <4>1. PICK d \in Copiers : Holding(d) /\ InChunk(p, msg[d])
        BY <3>3 DEF InHeld
      <4>2. d # c
        BY <1>3, <4>1
      <4> QED
        BY <1>3, <4>1, <4>2 DEF InHeld, InChunk
    <3> QED
      BY <3>1, <3>2, <3>3
  <2>2. CASE p > consumed
    BY <1>1, <1>2, <1>3, <1>4, <2>2 DEF InHeld, InChunk
  <2> QED
    BY <1>1, <1>2, <2>1, <2>2
<1>10. CopierInOrder'
  BY <1>3 DEF OutInv, CopierInOrder
<1> QED
  BY <1>7, <1>8, <1>9, <1>10 DEF OutInv

\* A copier lets go of its chunk unsent: only when nobody gets the output.
LEMMA DropOut ==
    ASSUME TypeOK, OutInv, NEW c \in Copiers, UNCHANGED <<consumed, flushed, msg>>,
           ~Up', \A d \in Copiers : Holding(d)' => Holding(d)
    PROVE  OutInv'
<1>1. ChunkInv'
  BY DEF OutInv, ChunkInv
<1>2. NoOutputTwice'
  BY DEF OutInv, NoOutputTwice
<1>3. NoOutputLost'
  BY DEF NoOutputLost
<1>4. CopierInOrder'
  BY DEF OutInv, CopierInOrder
<1> QED
  BY <1>1, <1>2, <1>3, <1>4 DEF OutInv

LEMMA SendOut ==
    ASSUME TypeOK, OutInv, NEW c \in Copiers, WritePayload(c), Up
    PROVE  OutInv'
<1>1. /\ flushed' = Append(flushed, msg[c])
      /\ UNCHANGED <<consumed, msg>>
      /\ Holding(c) /\ pc'[c] \in {"read", "done"}
      /\ \A d \in Copiers \ {c} : pc'[d] = pc[d]
  BY DEF TypeOK, WritePayload, Holding, AfterFrame, ttyVars
<1>2. /\ ~Holding(c)'
      /\ \A d \in Copiers \ {c} : Holding(d)' <=> Holding(d)
  BY <1>1 DEF Holding
<1>3. msg[c] \in Frame /\ msg[c].lo \in Nat /\ msg[c].hi \in Nat
  BY OutAssumption DEF TypeOK, Frame
<1> DEFINE n == Len(flushed)
<1>4. /\ n \in Nat /\ DOMAIN flushed = 1..n /\ DOMAIN flushed' = 1..(n + 1)
      /\ \A i \in 1..n : flushed'[i] = flushed[i]
      /\ flushed'[n + 1] = msg[c]
  <2>1. flushed \in Seq(Frame)
    BY DEF TypeOK
  <2>2. flushed' \in Seq(Frame) /\ Len(flushed') = n + 1
    BY <1>1, <1>3, <2>1, AppendProperties
  <2> QED
    BY <1>1, <1>3, <2>1, <2>2, AppendProperties, LenProperties
<1>5. \A i \in DOMAIN flushed : flushed[i].lo \in Nat /\ flushed[i].hi \in Nat
  BY FlushedDomain, OutAssumption DEF Frame
<1> HIDE DEF n
<1>6. msg[c].by = c /\ msg[c].lo <= msg[c].hi /\ msg[c].hi <= consumed
      /\ msg[c] = Write(c, msg[c].lo, msg[c].hi)
  <2>1. /\ msg[c].lo <= msg[c].hi /\ msg[c].hi <= consumed
        /\ msg[c] = Write(c, msg[c].lo, msg[c].hi)
    BY <1>1 DEF OutInv, ChunkInv
  <2>2. Write(c, msg[c].lo, msg[c].hi).by = c
    BY DEF Write
  <2> QED
    BY <2>1, <2>2
<1>7. ChunkInv'
  <2>1. ASSUME NEW d \in Copiers, Holding(d)'
        PROVE  /\ msg'[d] = Write(d, msg'[d].lo, msg'[d].hi)
               /\ msg'[d].lo <= msg'[d].hi /\ msg'[d].hi <= consumed'
    BY <1>1, <1>2, <2>1 DEF OutInv, ChunkInv
  <2>2. ASSUME NEW i \in DOMAIN flushed'
        PROVE  /\ flushed'[i].by \in Copiers
               /\ flushed'[i] = Write(flushed'[i].by, flushed'[i].lo, flushed'[i].hi)
               /\ flushed'[i].lo <= flushed'[i].hi /\ flushed'[i].hi <= consumed'
    <3>1. CASE i = n + 1
      BY <1>1, <1>4, <1>6, <3>1
    <3>2. CASE i \in 1..n
      BY <1>1, <1>4, <3>2 DEF OutInv, ChunkInv
    <3> QED
      BY <1>4, <2>2, <3>1, <3>2
  <2>3. ASSUME NEW d \in Copiers, Holding(d)', NEW i \in DOMAIN flushed', flushed'[i].by = d
        PROVE  flushed'[i].hi < msg'[d].lo
    <3>1. d # c /\ Holding(d)
      BY <1>2, <2>3
    <3>2. i \in 1..n
      BY <1>4, <1>6, <2>3, <3>1
    <3> QED
      BY <1>1, <1>4, <2>3, <3>1, <3>2 DEF OutInv, ChunkInv
  <2> QED
    BY <2>1, <2>2, <2>3 DEF ChunkInv
<1>8. NoOutputTwice'
  <2>1. ASSUME NEW i \in DOMAIN flushed', NEW j \in DOMAIN flushed', i < j
        PROVE  flushed'[i].hi < flushed'[j].lo \/ flushed'[j].hi < flushed'[i].lo
    <3>1. i \in 1..n /\ flushed'[i] = flushed[i]
      BY <1>4, <2>1
    <3>2. CASE j = n + 1
      BY <1>1, <1>4, <3>1, <3>2 DEF OutInv, NoOutputTwice
    <3>3. CASE j \in 1..n
      BY <1>4, <2>1, <3>1, <3>3 DEF OutInv, NoOutputTwice
    <3> QED
      BY <1>4, <2>1, <3>2, <3>3
  <2>2. ASSUME NEW d \in Copiers, Holding(d)', NEW i \in DOMAIN flushed'
        PROVE  flushed'[i].hi < msg'[d].lo \/ msg'[d].hi < flushed'[i].lo
    <3>1. d # c /\ Holding(d)
      BY <1>2, <2>2
    <3>2. CASE i = n + 1
      <4>1. msg[c].hi < msg[d].lo \/ msg[d].hi < msg[c].lo
        BY <1>1, <3>1 DEF OutInv, NoOutputTwice
      <4> QED
        BY <1>1, <1>4, <3>2, <4>1
    <3>3. CASE i \in 1..n
      BY <1>1, <1>4, <3>1, <3>3 DEF OutInv, NoOutputTwice
    <3> QED
      BY <1>4, <2>2, <3>2, <3>3
  <2>3. ~(Holding("stdout")' /\ Holding("stderr")')
    BY <1>2
  <2> QED
    BY <2>1, <2>2, <2>3 DEF NoOutputTwice
<1>9. NoOutputLost'
  <2> SUFFICES ASSUME NEW p \in 1..consumed PROVE InFlushed(p)' \/ InHeld(p)'
    BY <1>1 DEF NoOutputLost
  <2>1. InFlushed(p) \/ InHeld(p)
    BY DEF OutInv, NoOutputLost
  <2>2. CASE InFlushed(p)
    <3>1. PICK i \in 1..n : InChunk(p, flushed[i])
      BY <1>4, <2>2 DEF InFlushed
    <3>2. i \in DOMAIN flushed' /\ flushed'[i] = flushed[i]
      BY <1>4, <3>1
    <3> QED
      BY <3>1, <3>2 DEF InFlushed, InChunk
  <2>3. CASE InHeld(p)
    <3>1. PICK d \in Copiers : Holding(d) /\ InChunk(p, msg[d])
      BY <2>3 DEF InHeld
    <3>2. CASE d = c
      <4>1. n + 1 \in DOMAIN flushed' /\ InChunk(p, flushed'[n + 1])
        BY <1>4, <3>1, <3>2
      <4> QED
        BY <4>1 DEF InFlushed, InChunk
    <3>3. CASE d # c
      BY <1>1, <1>2, <3>1, <3>3 DEF InHeld, InChunk
    <3> QED
      BY <3>2, <3>3
  <2> QED
    BY <2>1, <2>2, <2>3
<1>10. CopierInOrder'
  <2> SUFFICES ASSUME NEW i \in DOMAIN flushed', NEW j \in DOMAIN flushed', i < j,
                      flushed'[i].by = flushed'[j].by
               PROVE  flushed'[i].hi < flushed'[j].lo
    BY DEF CopierInOrder
  <2>1. i \in 1..n /\ flushed'[i] = flushed[i]
    BY <1>4
  <2>2. CASE j = n + 1
    BY <1>1, <1>4, <1>6, <2>1, <2>2 DEF OutInv, ChunkInv
  <2>3. CASE j \in 1..n
    BY <1>4, <2>1, <2>3 DEF OutInv, CopierInOrder
  <2> QED
    BY <1>4, <2>2, <2>3
<1> QED
  BY <1>7, <1>8, <1>9, <1>10 DEF OutInv

\* Only the copiers move output.
LEMMA OthersIdle ==
    ASSUME TypeOK, HandlerInv, CopyIn \/ Handler \/ Shell \/ Browser \/ UNCHANGED vars
    PROVE  Idle
<1>1. ASSUME CopyIn PROVE Idle
  <2>1. CASE Receive \/ ReceiveFails \/ EnterWrite \/ TtyWrite \/ TtyWriteFails
    BY <2>1 DEF TypeOK, Receive, ReceiveFails, EnterWrite, TtyWrite, TtyWriteFails, Idle, Up, Holding,
                ttyVars, connVars, peerVars
  <2>2. CASE WriteFrame("stdin")
    BY <2>2 DEF TypeOK, WriteFrame, Lock, WriteHeader, WritePayload, WriteFails, Idle, Up, Holding,
                ttyVars, peerVars
  <2> QED
    BY <1>1, <2>1, <2>2 DEF CopyIn
<1>2. ASSUME Handler PROVE Idle
  BY <1>2 DEF TypeOK, HandlerInv, Handler, Accept, Reject, Start, StartPanics, Wait, CloseTty,
              CloseConn, Idle, Up, Holding, goVars, ttyVars, connVars, peerVars
<1>3. ASSUME Shell \/ Browser PROVE Idle
  <2>1. CASE Shell
    BY <2>1 DEF Shell, ShellOutput, ShellRead, JobStart, JobExit, ShellExit, Idle, Up, goVars, connVars, peerVars
  <2>2. CASE BrowserSend \/ BrowserClose \/ BrowserReceive
    BY <2>2 DEF BrowserSend, BrowserClose, BrowserReceive, Idle, Up, goVars, ttyVars, connVars,
                peerVars
  <2>3. CASE BrowserLeave \/ BrowserLeaveMidFrame
    BY <2>3 DEF BrowserLeave, BrowserLeaveMidFrame, Idle, Up, goVars, ttyVars
  <2> QED
    BY <1>3, <2>1, <2>2, <2>3 DEF Browser
<1>4. ASSUME UNCHANGED vars PROVE Idle
  BY <1>4 DEF vars, Idle, Up, Holding, goVars, ttyVars, connVars, peerVars
<1> QED
  BY <1>1, <1>2, <1>3, <1>4

LEMMA OutStep == TypeOK /\ HandlerInv /\ OutInv /\ [Next]_vars => OutInv'
<1> SUFFICES ASSUME TypeOK, HandlerInv, OutInv, [Next]_vars PROVE OutInv'
  OBVIOUS
<1>1. ASSUME Idle PROVE OutInv'
  BY <1>1, IdleOut
<1>2. ASSUME NEW c \in Copiers, CopyOut(c) PROVE OutInv'
  <2>1. CASE EnterRead(c) \/ ReadClosed(c) \/ ReadEIO(c) \/ Lock(c) \/ WriteHeader(c)
    <3>1. Idle
      BY <2>1 DEF TypeOK, EnterRead, ReadClosed, ReadEIO, Lock, WriteHeader, Idle, Up, Holding,
                  ttyVars, connVars, peerVars
    <3> QED
      BY <1>1, <3>1
  <2>2. CASE ReadChunk(c)
    BY <2>2, ReadChunkOut
  <2>3. CASE WritePayload(c) /\ Up
    BY <2>3, SendOut
  <2>4. CASE WritePayload(c) /\ ~Up
    <3>1. /\ UNCHANGED <<consumed, flushed, msg>> /\ ~Up'
          /\ \A d \in Copiers : Holding(d)' => Holding(d)
      BY <2>4 DEF TypeOK, WritePayload, AfterFrame, Up, Holding, ttyVars, peerVars
    <3> QED
      BY <3>1, DropOut
  <2>5. CASE WriteFails(c)
    <3>1. /\ UNCHANGED <<consumed, flushed, msg>> /\ ~Up'
          /\ \A d \in Copiers : Holding(d)' => Holding(d)
      BY <2>5 DEF TypeOK, WriteFails, Up, Holding, ttyVars
    <3> QED
      BY <3>1, DropOut
  <2> QED
    BY <1>2, <2>1, <2>2, <2>3, <2>4, <2>5 DEF CopyOut, WriteFrame
<1> QED
  BY <1>1, <1>2, OthersIdle DEF Next, Over

THEOREM OutInvariant == Spec => [](TypeOK /\ OutInv)
<1>1. Init => HandlerInv /\ OutInv
  <2> SUFFICES ASSUME Init PROVE HandlerInv /\ OutInv
    OBVIOUS
  <2>1. flushed = <<>> /\ consumed = 0 /\ \A c \in Copiers : ~Holding(c)
    BY DEF Init, Holding
  <2>2. DOMAIN flushed = {}
    BY <2>1
  <2>3. OutInv
    BY <2>1, <2>2 DEF OutInv, ChunkInv, NoOutputTwice, NoOutputLost, CopierInOrder
  <2> QED
    BY <2>3 DEF Init, HandlerInv
<1> QED
  BY <1>1, HandlerStep, OutStep, TypeCorrect, PTL DEF Spec

-----------------------------------------------------------------------------
\* The two copiers never send the same byte of output twice.
THEOREM OutputOnce == Spec => []NoOutputTwice
  BY OutInvariant, PTL DEF OutInv

\* While the browser is connected nothing that was read from the tty is lost.
THEOREM OutputKept == Spec => []NoOutputLost
  BY OutInvariant, PTL DEF OutInv

\* Each of the two copiers sends its chunks in the order of the output.
THEOREM CopiersInOrder == Spec => []CopierInOrder
  BY OutInvariant, PTL DEF OutInv

LEMMA RuneOfChunks == TypeOK /\ OutInv => RuneWholeOrReplaced
<1> SUFFICES ASSUME TypeOK, OutInv,
                    NEW i \in DOMAIN flushed, NEW j \in DOMAIN flushed, NEW p \in Wide,
                    InChunk(p, flushed[i]), InChunk(p + 1, flushed[j])
             PROVE  p \in flushed[i].bad <=> p + 1 \in flushed[j].bad
  BY DEF RuneWholeOrReplaced
<1>1. /\ i \in Nat /\ j \in Nat /\ p \in Nat /\ p + 1 \notin Wide /\ p - 1 \notin Wide
      /\ flushed[i].lo \in Nat /\ flushed[i].hi \in Nat
      /\ flushed[j].lo \in Nat /\ flushed[j].hi \in Nat
  BY FlushedDomain, WideAssumption, OutAssumption DEF Frame
<1>2. /\ flushed[i].lo <= p /\ p <= flushed[i].hi
      /\ flushed[j].lo <= p + 1 /\ p + 1 <= flushed[j].hi
  BY DEF InChunk
<1>3. (p = flushed[i].hi) <=> (p + 1 = flushed[j].lo)
  <2>1. CASE i = j
    BY <1>1, <1>2, <2>1
  <2>2. CASE i # j
    <3>1. flushed[i].hi < flushed[j].lo \/ flushed[j].hi < flushed[i].lo
      BY <1>1, <2>2 DEF OutInv, NoOutputTwice
    <3> QED
      BY <1>1, <1>2, <3>1
  <2> QED
    BY <2>1, <2>2
<1>4. ASSUME NEW k \in DOMAIN flushed
      PROVE  flushed[k].bad = IF Mode = "binary" THEN {}
                                ELSE IllFormed(flushed[k].lo, flushed[k].hi)
  <2>1. flushed[k] = Write(flushed[k].by, flushed[k].lo, flushed[k].hi)
    BY DEF OutInv, ChunkInv
  <2>2. Write(flushed[k].by, flushed[k].lo, flushed[k].hi).bad =
          IF Mode = "binary" THEN {} ELSE IllFormed(flushed[k].lo, flushed[k].hi)
    BY DEF Write
  <2> QED
    BY <2>1, <2>2
<1>5. p \in IllFormed(flushed[i].lo, flushed[i].hi) <=> p = flushed[i].hi
  BY <1>1 DEF IllFormed
<1>6. p + 1 \in IllFormed(flushed[j].lo, flushed[j].hi) <=> p + 1 = flushed[j].lo
  BY <1>1 DEF IllFormed
<1> QED
  BY <1>3, <1>4, <1>5, <1>6

\* WebSockWrapper.Write never lets half a rune through: when a rune is cut by
\* the end of a read, its two halves are replaced, whichever copiers got them.
THEOREM RunesWhole == Spec => []RuneWholeOrReplaced
  BY OutInvariant, RuneOfChunks, PTL

-----------------------------------------------------------------------------
(* The refinement *)

LEMMA PipeInit == Init => Pipe!Init
<1> SUFFICES ASSUME Init PROVE Pipe!Init
  OBVIOUS
<1>1. Held = [c \in Copiers |-> {}]
  BY DEF Init, Held
<1>2. Delivered = {}
  <2>1. DOMAIN flushed = {}
    BY DEF Init
  <2> QED
    BY <2>1 DEF Delivered, InFlushed
<1>3. Up = TRUE
  BY DEF Init, Up
<1> QED
  BY <1>1, <1>2, <1>3 DEF Init, Pipe!Init

LEMMA IdlePipe ==
    ASSUME TypeOK, Idle
    PROVE  Pipe!HangUp \/ UNCHANGED Pipe!pipeVars
<1>1. Held' = Held
  BY DEF Idle, Held, InChunk
<1>2. Delivered' = Delivered
  BY DEF Idle, Delivered, InFlushed, InChunk
<1>3. Up \in BOOLEAN /\ Up' \in BOOLEAN
  BY DEF Up
<1>4. CASE Up' = Up
  BY <1>1, <1>2, <1>4 DEF Idle, Pipe!pipeVars
<1>5. CASE Up /\ ~Up'
  BY <1>1, <1>2, <1>3, <1>5 DEF Idle, Pipe!HangUp
<1> QED
  BY <1>3, <1>4, <1>5 DEF Idle

LEMMA TakePipe ==
    ASSUME TypeOK, NEW c \in Copiers, ReadChunk(c)
    PROVE  Pipe!Take(c)
<1>1. PICK n \in 1..BufLen :
        /\ consumed + n <= produced
        /\ consumed' = consumed + n
        /\ msg' = [msg EXCEPT ![c] = Write(c, consumed + 1, consumed + n)]
  BY DEF ReadChunk
<1>2. n \in Nat /\ n >= 1 /\ consumed \in Nat /\ consumed + n <= MaxOut
  BY <1>1, BufLenAssumption, OutAssumption DEF TypeOK
<1>3. /\ UNCHANGED <<flushed, conn, werr, peer>>
      /\ ~Holding(c) /\ pc'[c] = "lock"
      /\ \A d \in Copiers \ {c} : pc'[d] = pc[d] /\ msg'[d] = msg[d]
  BY DEF TypeOK, ReadChunk, connVars, peerVars
<1>4. msg'[c].lo = consumed + 1 /\ msg'[c].hi = consumed + n
  <2>1. msg'[c] = Write(c, consumed + 1, consumed + n)
    BY <1>1 DEF TypeOK
  <2> QED
    BY <2>1 DEF Write
<1>5. Held[c] = {}
  BY <1>3 DEF Held
<1>6. {p \in 1..MaxOut : InChunk(p, msg'[c])} = (consumed + 1)..(consumed + n)
  BY <1>2, <1>4, OutAssumption DEF InChunk
<1>7. Held' = [Held EXCEPT ![c] = (consumed + 1)..(consumed + n)]
  <2>1. Held'[c] = (consumed + 1)..(consumed + n)
    BY <1>3, <1>6 DEF Held, InChunk
  <2>2. ASSUME NEW d \in Copiers, d # c PROVE Held'[d] = Held[d]
    BY <1>3, <2>2 DEF Held, InChunk
  <2> QED
    BY <2>1, <2>2 DEF Held
<1>8. Delivered' = Delivered /\ Up' = Up
  BY <1>3 DEF Delivered, InFlushed, InChunk, Up
<1>9. n \in 1..MaxOut
  BY <1>2, OutAssumption
<1> QED
  BY <1>1, <1>2, <1>5, <1>7, <1>8, <1>9 DEF Pipe!Take

LEMMA DeliverPipe ==
    ASSUME TypeOK, OutInv, NEW c \in Copiers, WritePayload(c), Up
    PROVE  Pipe!Deliver(c)
<1>1. /\ flushed' = Append(flushed, msg[c]) /\ UNCHANGED <<consumed, msg>>
      /\ pc[c] = "payload" /\ pc'[c] \in {"read", "done"}
      /\ \A d \in Copiers \ {c} : pc'[d] = pc[d]
  BY DEF TypeOK, WritePayload, AfterFrame, ttyVars
<1>2. Up' = Up
  BY DEF WritePayload, Put, Up, peerVars
<1>3. Held' = [Held EXCEPT ![c] = {}]
  BY <1>1 DEF Held, InChunk
<1>4. Held[c] # {}
  <2>1. msg[c].lo <= msg[c].hi /\ msg[c].hi <= consumed
    BY <1>1 DEF OutInv, ChunkInv
  <2>2. msg[c].lo \in 1..(MaxOut + 1) /\ msg[c].hi \in 0..MaxOut
    BY DEF TypeOK, Frame
  <2>3. msg[c].lo \in 1..MaxOut /\ InChunk(msg[c].lo, msg[c])
    BY <2>1, <2>2, OutAssumption DEF InChunk
  <2> QED
    BY <1>1, <2>3 DEF Held
<1>5. \A p \in 1..MaxOut : InFlushed(p)' <=> InFlushed(p) \/ InChunk(p, msg[c])
  <2> DEFINE n == Len(flushed)
  <2>1. flushed \in Seq(Frame) /\ msg[c] \in Frame
    BY DEF TypeOK
  <2>2. flushed' \in Seq(Frame) /\ Len(flushed') = n + 1
    BY <1>1, <2>1, AppendProperties
  <2>3. /\ n \in Nat /\ DOMAIN flushed = 1..n /\ DOMAIN flushed' = 1..(n + 1)
        /\ \A i \in 1..n : flushed'[i] = flushed[i]
        /\ flushed'[n + 1] = msg[c]
    BY <1>1, <2>1, <2>2, AppendProperties, LenProperties
  <2> HIDE DEF n
  <2>4. DOMAIN flushed' = DOMAIN flushed \cup {n + 1}
    BY <2>3
  <2> QED
    BY <2>3, <2>4 DEF InFlushed, InChunk
<1>6. Delivered' = Delivered \cup Held[c]
  BY <1>1, <1>5 DEF Delivered, Held
<1> QED
  BY <1>1, <1>2, <1>3, <1>4, <1>6 DEF Pipe!Deliver

LEMMA DropPipe ==
    ASSUME TypeOK, NEW c \in Copiers, UNCHANGED <<consumed, flushed, msg>>, ~Up, ~Up',
           pc'[c] \in {"read", "done"}, \A d \in Copiers \ {c} : pc'[d] = pc[d]
    PROVE  Pipe!Drop(c)
<1>1. Held' = [Held EXCEPT ![c] = {}]
  BY DEF Held, InChunk
<1>2. Delivered' = Delivered
  BY DEF Delivered, InFlushed, InChunk
<1>3. Up' = Up
  BY DEF Up
<1> QED
  BY <1>1, <1>2, <1>3 DEF Pipe!Drop

LEMMA PipeStep ==
    TypeOK /\ HandlerInv /\ OutInv /\ [Next]_vars => [Pipe!Next]_(Pipe!pipeVars)
<1> SUFFICES ASSUME TypeOK, HandlerInv, OutInv, [Next]_vars
             PROVE  Pipe!Next \/ UNCHANGED Pipe!pipeVars
  OBVIOUS
<1>1. ASSUME Idle PROVE Pipe!Next \/ UNCHANGED Pipe!pipeVars
  BY <1>1, IdlePipe DEF Pipe!Next
<1>2. ASSUME NEW c \in Copiers, CopyOut(c) PROVE Idle \/ Pipe!Next
  <2>1. CASE EnterRead(c) \/ ReadClosed(c) \/ ReadEIO(c) \/ Lock(c) \/ WriteHeader(c)
    BY <2>1 DEF TypeOK, EnterRead, ReadClosed, ReadEIO, Lock, WriteHeader, Idle, Up,
                ttyVars, connVars, peerVars
  <2>2. CASE ReadChunk(c)
    BY <2>2, TakePipe DEF Pipe!Next
  <2>3. CASE WritePayload(c) /\ Up
    BY <2>3, DeliverPipe DEF Pipe!Next
  <2>4. CASE WritePayload(c) /\ ~Up
    <3>1. /\ UNCHANGED <<consumed, flushed, msg>> /\ ~Up'
          /\ pc'[c] \in {"read", "done"} /\ \A d \in Copiers \ {c} : pc'[d] = pc[d]
      BY <2>4 DEF TypeOK, WritePayload, AfterFrame, Up, ttyVars, peerVars
    <3> QED
      BY <2>4, <3>1, DropPipe DEF Pipe!Next
  <2>5. CASE WriteFails(c)
    <3>1. /\ UNCHANGED <<consumed, flushed, msg>> /\ ~Up /\ ~Up'
          /\ pc'[c] \in {"read", "done"} /\ \A d \in Copiers \ {c} : pc'[d] = pc[d]
      BY <2>5 DEF TypeOK, WriteFails, PutFails, Up, ttyVars
    <3> QED
      BY <3>1, DropPipe DEF Pipe!Next
  <2> QED
    BY <1>2, <2>1, <2>2, <2>3, <2>4, <2>5 DEF CopyOut, WriteFrame
<1> QED
  BY <1>1, <1>2, OthersIdle DEF Next, Over

\* The two copiers that read one tty and write one socket implement the abstract
\* pipe: every byte is taken once, and none is dropped while the connection is
\* up.
THEOREM PipeImplemented == Spec => ImplementsPipe
<1>1. Init => HandlerInv
  BY DEF Init, HandlerInv
<1> QED
  BY <1>1, PipeInit, PipeStep, HandlerStep, OutInvariant, PTL
  DEF Spec, ImplementsPipe, Pipe!Spec
=============================================================================
