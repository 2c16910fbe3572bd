---------------------------- MODULE ShellSession ----------------------------
(***************************************************************************)
(* One terminal session of the server: what main.go's sh does with one     *)
(* WebSocket, together with the parts it connects.                         *)
(*                                                                         *)
(*   browser <--c2s/s2c--> WebSocket conn <--goroutines--> tty <--> bash   *)
(*                                                                         *)
(* The handler upgrades the request, starts bash on a new pseudo-terminal, *)
(* starts three goroutines and waits for bash.  Two of them ("stdout" and  *)
(* "stderr") run io.Copy from the SAME tty to the SAME wrapper; "stdin"    *)
(* runs io.Copy from the InputWrapper to the tty, and answers pings from   *)
(* inside Receive.  All three write frames, serialised by the mutex wio.   *)
(* When bash exits the handler closes the tty and then the connection, and *)
(* waits for nobody; the jobs bash left in the background may still have   *)
(* the other side of the tty open.                                         *)
(***************************************************************************)
EXTENDS Integers, Sequences, FiniteSets, SequencesExt, InputWrapper, WebSockWrapper

CONSTANTS
    PtyCap,         \* how much unread output the pseudo-terminal holds
    InCap,          \* how much unread input it holds
    NetCap,         \* how many half frames the socket holds towards the browser
    MaxPayload,     \* DefaultMaxPayloadBytes, 32 MiB in the program
    ClientFrames,   \* the frames the browser may send, besides Close
    MaxSent         \* bound: how many frames the browser sends

DataOps == {"text", "binary", "continuation", "reserved"}
ClientFrame == [op : DataOps \cup {"ping", "pong", "close"}, masked : BOOLEAN,
                data : Seq(Byte)]

ASSUME CapAssumption ==
    /\ PtyCap \in Nat \ {0} /\ InCap \in Nat \ {0} /\ NetCap \in Nat \ {0, 1}
    /\ MaxPayload \in Nat /\ MaxSent \in Nat
    /\ ClientFrames \subseteq ClientFrame

Copiers    == {"stdout", "stderr"}
Goroutines == Copiers \cup {"stdin"}
Free       == "free"        \* the mutex wio has no owner

VARIABLES
    hpc,        \* where the handler is
    pc,         \* where each goroutine is
    msg,        \* the frame each goroutine is about to write
    ibuf,       \* what is left of the input the stdin goroutine is writing
    shell,      \* the bash process
    jobs,       \* whether other processes have the slave side of the tty open
    tty,        \* the server's end of the pseudo-terminal, an *os.File
    produced,   \* how many bytes bash and its jobs have written to the terminal
    consumed,   \* how many of them have been read from it
    unread,     \* how many bytes of input have not been read from it yet
    conn,       \* the hijacked TCP connection, as the server sees it
    werr,       \* the sticky error of the bufio.Writer over it
    wio,        \* the owner of Conn.wio
    s2c,        \* half frames in the socket, towards the browser
    c2s,        \* frames in the socket, towards the server
    peer,       \* the browser
    typed,      \* history: every frame the browser sent
    written,    \* history: every byte written to the tty
    flushed     \* history: the output frames that reached the socket, in order

ttyVars  == <<shell, jobs, tty, produced, consumed, unread, written>>
connVars == <<conn, werr, wio, s2c, flushed>>
peerVars == <<c2s, peer, typed>>
goVars   == <<pc, msg, ibuf>>
vars     == <<hpc, goVars, ttyVars, connVars, peerVars>>

\* The frames the server writes: output, and the control frames of HandleFrame.
Frame == [op : {"text", "binary", "pong", "close"}, by : Goroutines,
          lo : 1..(MaxOut + 1), hi : 0..MaxOut, bad : SUBSET (1..MaxOut)]
Control(op) == [op |-> op, by |-> "stdin", lo |-> 1, hi |-> 0, bad |-> {}]

\* What is on the wire: a frame's header, then its payload.
Piece == [part : {"header", "payload"}, frame : Frame]

Init ==
    /\ hpc = "upgrade"
    /\ pc = [g \in Goroutines |-> "off"]
    /\ msg = [g \in Goroutines |-> Control("pong")]
    /\ ibuf = <<>>
    /\ shell = "none" /\ jobs = FALSE /\ tty = "none"
    /\ produced = 0 /\ consumed = 0 /\ unread = 0
    /\ conn = "open" /\ werr = FALSE /\ wio = Free
    /\ s2c = <<>> /\ c2s = <<>>
    /\ peer = "connecting"
    /\ typed = <<>> /\ written = <<>> /\ flushed = <<>>

-----------------------------------------------------------------------------
(***************************************************************************)
(* The handler: serveWebSocket around main.go's wsHandler.                 *)
(***************************************************************************)

\* newServerConn succeeds: the 101 response is flushed to a browser that is
\* there, or to a socket whose other end has just gone.
Accept ==
    /\ hpc = "upgrade"
    /\ hpc' = "start"
    /\ peer' = IF peer = "connecting" THEN "open" ELSE peer
    /\ UNCHANGED <<goVars, ttyVars, connVars, c2s, typed>>

\* newServerConn refuses the handshake (or cannot answer it): serveWebSocket
\* returns at once and its deferred rwc.Close runs.
Reject ==
    /\ hpc = "upgrade"
    /\ hpc' = "closeConn"
    /\ UNCHANGED <<goVars, ttyVars, connVars, peerVars>>

\* pty.Start opens a pseudo-terminal and starts bash with it as controlling
\* terminal; the three goroutines are launched.
Start ==
    /\ hpc = "start"
    /\ hpc' = "wait"
    /\ shell' = "running"
    /\ tty' = "open"
    /\ pc' = [g \in Goroutines |-> "read"]
    /\ UNCHANGED <<msg, ibuf, jobs, produced, consumed, unread, written, connVars, peerVars>>

\* pty.Start fails: it has closed what it opened, and wsHandler panics past
\* the defer of tty.Close, which is not registered yet.
StartPanics ==
    /\ hpc = "start"
    /\ hpc' = "closeConn"
    /\ UNCHANGED <<goVars, ttyVars, connVars, peerVars>>

\* Mutant: the handler does not wait for bash.
WaitNot ==
    /\ hpc = "wait"
    /\ hpc' = "closeTty"
    /\ UNCHANGED <<goVars, ttyVars, connVars, peerVars>>

\* cmd.Wait returns when bash has exited, whatever the goroutines are doing.
Wait ==
    /\ hpc = "wait"
    /\ shell = "exited"
    /\ hpc' = "closeTty"
    /\ UNCHANGED <<goVars, ttyVars, connVars, peerVars>>

\* The deferred tty.Close.
CloseTty ==
    /\ hpc = "closeTty"
    /\ hpc' = "closeConn"
    /\ tty' = "closed"
    /\ UNCHANGED <<goVars, shell, jobs, produced, consumed, unread, written, connVars, peerVars>>

\* The deferred rwc.Close of serveWebSocket.  No Close frame is sent: that
\* would be ws.Close, which nobody calls.
CloseConn ==
    /\ hpc = "closeConn"
    /\ hpc' = "done"
    /\ conn' = "closed"
    /\ UNCHANGED <<goVars, ttyVars, werr, wio, s2c, flushed, peerVars>>

Handler ==
    \/ Accept \/ Reject \/ Start \/ StartPanics \/ Wait \/ CloseTty \/ CloseConn

-----------------------------------------------------------------------------
(***************************************************************************)
(* Writing a frame: Codec.Send, WritePong and WriteClose all lock wio, let *)
(* hybiFrameWriter.Write put the header and then the payload through the   *)
(* bufio.Writer, and unlock.  The flush blocks, with wio held, while the   *)
(* socket is full.                                                         *)
(***************************************************************************)

\* The browser still gets what is written.
Up == conn = "open" /\ ~werr /\ peer # "gone"

\* A write to the socket succeeds: there is room, or the other end has gone
\* and the data is accepted and lost.
Put(part, frame) ==
    /\ conn = "open" /\ ~werr
    /\ \/ /\ peer # "gone" /\ Len(s2c) < NetCap
          /\ s2c' = Append(s2c, [part |-> part, frame |-> frame])
       \/ /\ peer = "gone"
          /\ UNCHANGED s2c

\* A write fails: the connection was closed under the writer, the other end
\* has gone, or an earlier write failed.
PutFails == conn = "closed" \/ werr \/ peer = "gone"

\* Mutant: WritePong and WriteClose do not take the mutex.
LockNotForControl(g) ==
    /\ pc[g] = "lock"
    /\ wio = Free \/ g = "stdin"
    /\ wio' = g
    /\ pc' = [pc EXCEPT ![g] = "header"]
    /\ UNCHANGED <<hpc, msg, ibuf, ttyVars, conn, werr, s2c, flushed, peerVars>>

Lock(g) ==
    /\ pc[g] = "lock"
    /\ wio = Free
    /\ wio' = g
    /\ pc' = [pc EXCEPT ![g] = "header"]
    /\ UNCHANGED <<hpc, msg, ibuf, ttyVars, conn, werr, s2c, flushed, peerVars>>

WriteHeader(g) ==
    /\ pc[g] = "header"
    /\ Put("header", msg[g])
    /\ pc' = [pc EXCEPT ![g] = "payload"]
    /\ UNCHANGED <<hpc, msg, ibuf, ttyVars, conn, werr, wio, flushed, peerVars>>

\* Mutants: a frame that is out is sent again; a pong is sent for ever.
AfterFrameAgain(g) == IF g \in Copiers THEN "lock" ELSE "read"
AfterFramePongs(g) == IF g = "stdin" /\ msg[g].op = "pong" THEN "lock" ELSE "read"

\* Where a goroutine goes once its frame is out: io.Copy reads again, Receive
\* looks for the next frame after a pong, and returns io.EOF after a Close.
AfterFrame(g) == IF msg[g].op = "close" THEN "done" ELSE "read"

WritePayload(g) ==
    /\ pc[g] = "payload"
    /\ Put("payload", msg[g])
    /\ wio' = Free
    /\ pc' = [pc EXCEPT ![g] = AfterFrame(g)]
    /\ flushed' = IF g \in Copiers /\ Up THEN Append(flushed, msg[g]) ELSE flushed
    /\ UNCHANGED <<hpc, msg, ibuf, ttyVars, conn, werr, peerVars>>

\* The error reaches io.Copy, which ends the goroutine: Write returns it with
\* n = 0, and a failed pong makes InputWrapper.Read return io.EOF.  The chunk
\* is lost.
WriteFails(g) ==
    /\ pc[g] \in {"header", "payload"}
    /\ PutFails
    /\ werr' = TRUE
    /\ wio' = Free
    /\ pc' = [pc EXCEPT ![g] = "done"]
    /\ UNCHANGED <<hpc, msg, ibuf, ttyVars, conn, s2c, flushed, peerVars>>

WriteFrame(g) == Lock(g) \/ WriteHeader(g) \/ WritePayload(g) \/ WriteFails(g)

-----------------------------------------------------------------------------
(***************************************************************************)
(* The output goroutines: io.Copy(stdout, tty) and io.Copy(stderr, tty).   *)
(***************************************************************************)

\* tty.Read picks up the descriptor and enters read(2).
EnterRead(c) ==
    /\ pc[c] = "read"
    /\ tty = "open"
    /\ pc' = [pc EXCEPT ![c] = "syscall"]
    /\ UNCHANGED <<hpc, msg, ibuf, ttyVars, connVars, peerVars>>

\* tty.Read on a closed file.
ReadClosed(c) ==
    /\ pc[c] = "read"
    /\ tty = "closed"
    /\ pc' = [pc EXCEPT ![c] = "done"]
    /\ UNCHANGED <<hpc, msg, ibuf, ttyVars, connVars, peerVars>>

\* Mutant: the length of the buffer is taken for the number of bytes read.
ReadChunkFull(c) ==
    /\ pc[c] = "syscall"
    /\ consumed < produced
    /\ consumed' = consumed + BufLen
    /\ msg' = [msg EXCEPT ![c] = Write(c, consumed + 1, consumed + BufLen)]
    /\ pc' = [pc EXCEPT ![c] = "lock"]
    /\ UNCHANGED <<hpc, ibuf, shell, jobs, tty, produced, unread, written, connVars, peerVars>>

\* Mutant: the two copiers share one buffer.
ReadChunkShared(c) ==
    /\ pc[c] = "syscall"
    /\ \E n \in 1..BufLen :
          /\ consumed + n <= produced
          /\ consumed' = consumed + n
          /\ msg' = [g \in Goroutines |->
                       IF g \in Copiers THEN Write(g, consumed + 1, consumed + n) ELSE msg[g]]
    /\ pc' = [pc EXCEPT ![c] = "lock"]
    /\ UNCHANGED <<hpc, ibuf, shell, jobs, tty, produced, unread, written, connVars, peerVars>>

\* Mutant: the last byte of a chunk is read again.
ReadChunkOverlapping(c) ==
    /\ pc[c] = "syscall"
    /\ \E n \in 1..BufLen :
          /\ consumed + n <= produced
          /\ consumed' = consumed + n - 1
          /\ msg' = [msg EXCEPT ![c] = Write(c, consumed + 1, consumed + n)]
    /\ pc' = [pc EXCEPT ![c] = "lock"]
    /\ UNCHANGED <<hpc, ibuf, shell, jobs, tty, produced, unread, written, connVars, peerVars>>

\* read(2) returns some of the pending output.  A call already in the kernel
\* when the file is closed still returns data.  io.Copy passes the chunk to
\* WebSockWrapper.Write, which makes a frame of it and calls Send.
ReadChunk(c) ==
    /\ pc[c] = "syscall"
    /\ \E n \in 1..BufLen :
          /\ consumed + n <= produced
          /\ consumed' = consumed + n
          /\ msg' = [msg EXCEPT ![c] = Write(c, consumed + 1, consumed + n)]
    /\ pc' = [pc EXCEPT ![c] = "lock"]
    /\ UNCHANGED <<hpc, ibuf, shell, jobs, tty, produced, unread, written, connVars, peerVars>>

\* Some process has the slave side open: bash, or a job it left behind.
SlaveOpen == shell = "running" \/ jobs

\* read(2) returns EIO once nobody has the slave side open and all is drained.
\* The exit of bash alone does not end the call, and neither does tty.Close.
ReadEIO(c) ==
    /\ pc[c] = "syscall"
    /\ ~SlaveOpen /\ consumed = produced
    /\ pc' = [pc EXCEPT ![c] = "done"]
    /\ UNCHANGED <<hpc, msg, ibuf, ttyVars, connVars, peerVars>>

CopyOut(c) == EnterRead(c) \/ ReadClosed(c) \/ ReadChunk(c) \/ ReadEIO(c) \/ WriteFrame(c)

-----------------------------------------------------------------------------
(***************************************************************************)
(* The input goroutine: io.Copy(tty, stdin), through InputWrapper.Read and *)
(* Message.Receive.                                                        *)
(***************************************************************************)

\* The bytes a frame puts in io.Copy's buffer.  Receive treats every opcode
\* that is no control opcode as a message of its own, continuations included,
\* and refuses a message longer than the limit.  A frame cut short by the end
\* of the stream is accepted like any other: ReadAll takes the end of the
\* stream for the end of the frame.
Accepted(f) == f.masked /\ f.op \in DataOps /\ Len(f.data) <= MaxPayload
Input(f) == IF Accepted(f) THEN Read(f.data) ELSE <<>>

\* What Receive and InputWrapper.Read do with the next frame: an unmasked one
\* is answered with a Close frame and ends the copy; so do, unanswered, a
\* Close frame and an oversized message; a ping is answered from inside
\* Receive; a pong, an ignored message and an empty one are passed over.
AfterReceive(f) ==
    CASE ~f.masked                                -> "lock"
      [] f.masked /\ f.op = "close"               -> "done"
      [] f.masked /\ f.op = "ping"                -> "lock"
      [] f.masked /\ f.op = "pong"                -> "read"
      [] f.masked /\ f.op \in DataOps             ->
           IF ~Accepted(f) THEN "done" ELSE IF Input(f) = <<>> THEN "read" ELSE "write"

Receive ==
    /\ pc["stdin"] = "read"
    /\ c2s # <<>>
    /\ c2s' = Tail(c2s)
    /\ LET f == Head(c2s) IN
         /\ pc' = [pc EXCEPT !["stdin"] = AfterReceive(f)]
         /\ msg' = [msg EXCEPT !["stdin"] = Control(IF f.masked THEN "pong" ELSE "close")]
         /\ ibuf' = Input(f)
    /\ UNCHANGED <<hpc, ttyVars, connVars, peer, typed>>

\* Mutant: InputWrapper.Read returns 0, nil on an error.
ReceiveFailsUnnoticed ==
    /\ pc["stdin"] = "read"
    /\ conn = "closed" \/ peer = "gone"
    /\ UNCHANGED vars

\* Reading the socket fails: the server closed it, or the browser has gone
\* (an orderly end of the stream follows what was sent; a reset need not).
\* InputWrapper.Read turns every error into io.EOF.
ReceiveFails ==
    /\ pc["stdin"] = "read"
    /\ conn = "closed" \/ peer = "gone"
    /\ pc' = [pc EXCEPT !["stdin"] = "done"]
    /\ UNCHANGED <<hpc, msg, ibuf, ttyVars, connVars, peerVars>>

\* tty.Write picks up the descriptor and enters write(2).
EnterWrite ==
    /\ pc["stdin"] = "write"
    /\ tty = "open"
    /\ pc' = [pc EXCEPT !["stdin"] = "syscall"]
    /\ UNCHANGED <<hpc, msg, ibuf, ttyVars, connVars, peerVars>>

\* Mutant: the write after a short write(2) starts over.
TtyWriteOver ==
    /\ pc["stdin"] = "syscall"
    /\ SlaveOpen /\ unread < InCap
    /\ unread' = unread + 1
    /\ written' = Append(written, Head(ibuf))
    /\ \/ /\ ibuf' = Tail(ibuf)
          /\ pc' = [pc EXCEPT !["stdin"] = IF Tail(ibuf) = <<>> THEN "read" ELSE "syscall"]
       \/ /\ ibuf' = ibuf /\ Tail(ibuf) # <<>>
          /\ pc' = [pc EXCEPT !["stdin"] = "write"]
    /\ UNCHANGED <<hpc, msg, shell, jobs, tty, produced, consumed, connVars, peerVars>>

\* write(2) accepts a byte when there is room, and waits for room otherwise,
\* also when the file has been closed in the meantime.  It goes on until all is
\* written, or returns early, and then tty.Write calls it again for the rest.
TtyWrite ==
    /\ pc["stdin"] = "syscall"
    /\ SlaveOpen /\ unread < InCap
    /\ unread' = unread + 1
    /\ written' = Append(written, Head(ibuf))
    /\ ibuf' = Tail(ibuf)
    /\ \E next \in IF Tail(ibuf) = <<>> THEN {"read"} ELSE {"syscall", "write"} :
          pc' = [pc EXCEPT !["stdin"] = next]
    /\ UNCHANGED <<hpc, msg, shell, jobs, tty, produced, consumed, connVars, peerVars>>

\* tty.Write fails: the file is closed when it is called, or nobody has the
\* slave side open.
TtyWriteFails ==
    /\ \/ pc["stdin"] = "write" /\ tty = "closed"
       \/ pc["stdin"] = "syscall" /\ ~SlaveOpen
    /\ pc' = [pc EXCEPT !["stdin"] = "done"]
    /\ UNCHANGED <<hpc, msg, ibuf, ttyVars, connVars, peerVars>>

CopyIn ==
    \/ Receive \/ ReceiveFails \/ EnterWrite \/ TtyWrite \/ TtyWriteFails
    \/ WriteFrame("stdin")

-----------------------------------------------------------------------------
(***************************************************************************)
(* The environment: bash, its jobs and the browser.                        *)
(***************************************************************************)

\* The server's side exists while its file is open or a call is inside the
\* kernel with it.
MasterOpen == tty = "open" \/ \E g \in Goroutines : pc[g] = "syscall"

ShellOutput ==
    /\ SlaveOpen /\ MasterOpen
    /\ produced < MaxOut /\ produced - consumed < PtyCap
    /\ produced' = produced + 1
    /\ UNCHANGED <<hpc, goVars, shell, jobs, tty, consumed, unread, written, connVars, peerVars>>

ShellRead ==
    /\ SlaveOpen /\ MasterOpen
    /\ unread > 0
    /\ unread' = unread - 1
    /\ UNCHANGED <<hpc, goVars, shell, jobs, tty, produced, consumed, written, connVars, peerVars>>

\* bash starts a job in the background, which inherits the slave side.
JobStart ==
    /\ shell = "running" /\ ~jobs
    /\ jobs' = TRUE
    /\ UNCHANGED <<hpc, goVars, shell, tty, produced, consumed, unread, written, connVars, peerVars>>

\* The last job ends, before bash or after it.
JobExit ==
    /\ jobs
    /\ jobs' = FALSE
    /\ UNCHANGED <<hpc, goVars, shell, tty, produced, consumed, unread, written, connVars, peerVars>>

\* bash exits, or is killed.  As it is the session leader of a pseudo-terminal
\* the kernel sends SIGHUP to the foreground process group and no more: a job in
\* the background goes on, with the slave side open.
ShellExit ==
    /\ shell = "running"
    /\ shell' = "exited"
    /\ UNCHANGED <<hpc, goVars, jobs, tty, produced, consumed, unread, written, connVars, peerVars>>

Shell == ShellOutput \/ ShellRead \/ JobStart \/ JobExit \/ ShellExit

BrowserSend ==
    /\ peer = "open"
    /\ Len(typed) < MaxSent
    /\ \E f \in ClientFrames :
          /\ c2s' = Append(c2s, f)
          /\ typed' = Append(typed, f)
    /\ UNCHANGED <<hpc, goVars, ttyVars, connVars, peer>>

\* socket.close(): a Close frame, after which the browser sends nothing.
BrowserClose ==
    /\ peer = "open"
    /\ peer' = "closing"
    /\ LET f == [op |-> "close", masked |-> TRUE, data |-> <<>>] IN
          /\ c2s' = Append(c2s, f)
          /\ typed' = Append(typed, f)
    /\ UNCHANGED <<hpc, goVars, ttyVars, connVars>>

\* The browser takes the next frame off the socket: a header and what follows.
BrowserReceive ==
    /\ peer \in {"open", "closing"}
    /\ Len(s2c) >= 2
    /\ s2c' = SubSeq(s2c, 3, Len(s2c))
    /\ UNCHANGED <<hpc, goVars, ttyVars, conn, werr, wio, flushed, peerVars>>

\* The TCP connection goes away on the browser's side, at any time.
BrowserLeave ==
    /\ peer # "gone"
    /\ peer' = "gone"
    /\ s2c' = <<>>
    /\ UNCHANGED <<hpc, goVars, ttyVars, conn, werr, wio, flushed, c2s, typed>>

\* It goes away in the middle of a frame: the header and a part of the payload
\* arrive, and then the end of the stream.  (Cut in its header, or announcing
\* too long a payload, the frame would only end the copy, as no frame does.)
BrowserLeaveMidFrame ==
    /\ peer = "open"
    /\ peer' = "gone"
    /\ s2c' = <<>>
    /\ Len(typed) < MaxSent
    /\ \E f \in ClientFrames : \E k \in 0..(Len(f.data) - 1) :
          /\ Len(f.data) <= MaxPayload
          /\ LET part == [f EXCEPT !.data = SubSeq(f.data, 1, k)] IN
               /\ c2s' = Append(c2s, part)
               /\ typed' = Append(typed, part)
    /\ UNCHANGED <<hpc, goVars, ttyVars, conn, werr, wio, flushed>>

Browser == BrowserSend \/ BrowserClose \/ BrowserReceive \/ BrowserLeave
           \/ BrowserLeaveMidFrame

\* The session is over on both sides.
Over ==
    /\ hpc = "done" /\ peer = "gone"
    /\ \A g \in Goroutines : pc[g] \in {"off", "done"}
    /\ UNCHANGED vars

Next ==
    \/ Handler
    \/ \E c \in Copiers : CopyOut(c)
    \/ CopyIn
    \/ Shell
    \/ Browser
    \/ Over

Spec == Init /\ [][Next]_vars

(***************************************************************************)
(* The Go scheduler runs every goroutine that can run.  Nothing is assumed *)
(* of bash, of its jobs or of the browser.                                 *)
(***************************************************************************)
ServerFairness ==
    /\ WF_vars(Handler)
    /\ WF_vars(CopyIn)
    /\ \A c \in Copiers : WF_vars(CopyOut(c))

FairSpec == Spec /\ ServerFairness

\* A session with a browser that keeps reading and a shell that keeps reading.
Attended == WF_vars(BrowserReceive) /\ WF_vars(shell = "running" /\ ShellRead)
-----------------------------------------------------------------------------
(***************************************************************************)
(* Properties.                                                             *)
(***************************************************************************)

PCs == {"off", "read", "syscall", "lock", "header", "payload", "write", "done"}

\* Every variable keeps to its range: no more is read than bash has written,
\* the pseudo-terminal and the socket stay within their capacity, and each
\* goroutine is only ever at a place of its own code.
TypeOK ==
    /\ hpc \in {"upgrade", "start", "wait", "closeTty", "closeConn", "done"}
    /\ pc \in [Goroutines -> PCs]
    /\ \A c \in Copiers : pc[c] # "write"
    /\ msg \in [Goroutines -> Frame]
    /\ ibuf \in Seq(Byte)
    /\ pc["stdin"] \in {"write", "syscall"} => ibuf # <<>>
    /\ shell \in {"none", "running", "exited"} /\ jobs \in BOOLEAN
    /\ tty \in {"none", "open", "closed"}
    /\ produced \in 0..MaxOut /\ consumed \in 0..produced
    /\ produced - consumed <= PtyCap
    /\ unread \in 0..InCap
    /\ conn \in {"open", "closed"} /\ werr \in BOOLEAN
    /\ wio \in Goroutines \cup {Free}
    /\ s2c \in Seq(Piece) /\ Len(s2c) <= NetCap
    /\ c2s \in Seq(ClientFrame) /\ typed \in Seq(ClientFrame)
    /\ peer \in {"connecting", "open", "closing", "gone"}
    /\ written \in Seq(Byte) /\ flushed \in Seq(Frame)

\* Three goroutines write on one connection, and the browser still sees whole
\* frames: every header in the socket is followed by its own payload, and
\* only the last one may still wait for it, while its writer is at it or
\* after the writer has failed (when nothing can follow).  wio and the sticky
\* error of the bufio.Writer are what this rests on.
WellFramed ==
    /\ s2c # <<>> => s2c[1].part = "header"
    /\ \A i \in 1..(Len(s2c) - 1) :
          IF s2c[i].part = "header"
            THEN s2c[i + 1] = [part |-> "payload", frame |-> s2c[i].frame]
            ELSE s2c[i + 1].part = "header"
    /\ s2c # <<>> /\ s2c[Len(s2c)].part = "header" =>
          \/ werr
          \/ \E g \in Goroutines : pc[g] = "payload" /\ msg[g] = s2c[Len(s2c)].frame

\* The chunk a copier has read and not yet written out.
Holding(c) == pc[c] \in {"lock", "header", "payload"}

InChunk(p, f) == f.lo <= p /\ p <= f.hi
InFlushed(p) == \E i \in DOMAIN flushed : InChunk(p, flushed[i])
InHeld(p) == \E c \in Copiers : Holding(c) /\ InChunk(p, msg[c])

\* Two goroutines read the same tty and write the same socket, and no byte of
\* output is sent twice: the frames sent and the chunks in hand are disjoint.
NoOutputTwice ==
    /\ \A i, j \in DOMAIN flushed : i < j =>
          flushed[i].hi < flushed[j].lo \/ flushed[j].hi < flushed[i].lo
    /\ \A c \in Copiers : Holding(c) => \A i \in DOMAIN flushed :
          flushed[i].hi < msg[c].lo \/ msg[c].hi < flushed[i].lo
    /\ Holding("stdout") /\ Holding("stderr") =>
          msg["stdout"].hi < msg["stderr"].lo \/ msg["stderr"].hi < msg["stdout"].lo

\* While the browser is connected no byte read from the tty is lost: it has
\* been sent, or one of the two copiers is about to send it.
NoOutputLost == Up => \A p \in 1..consumed : InFlushed(p) \/ InHeld(p)

\* What one copier sends is in the order in which bash wrote it.  (Between the
\* two copiers there is no order: see OutputInOrder.)
CopierInOrder ==
    \A i, j \in DOMAIN flushed :
        i < j /\ flushed[i].by = flushed[j].by => flushed[i].hi < flushed[j].lo

\* A rune is damaged as a whole or not at all: when both its bytes were sent,
\* the encoder replaced both or none, so no text frame carries half a rune.
RuneWholeOrReplaced ==
    \A i, j \in DOMAIN flushed : \A p \in Wide :
        InChunk(p, flushed[i]) /\ InChunk(p + 1, flushed[j]) =>
            (p \in flushed[i].bad <=> p + 1 \in flushed[j].bad)

\* The session is taken down from the inside out: the tty is closed only after
\* bash has exited, and the connection of a session that got a shell only
\* after the tty; a handler that has returned leaves no bash behind.
TornDownInOrder ==
    /\ tty = "closed" => shell = "exited"
    /\ conn = "closed" /\ shell # "none" => tty = "closed"
    /\ hpc = "done" => conn = "closed" /\ shell # "running" /\ tty # "open"

\* The frames Receive has taken off the socket.
Taken == SubSeq(typed, 1, Len(typed) - Len(c2s))

\* What a run of frames gives io.Copy to write.
InputOf(frames) == FlattenSeq([i \in DOMAIN frames |-> Input(frames[i])])

\* What reaches the terminal is what the messages say, in order, each one
\* dropped or truncated on its own and none mixed with the next: nothing is
\* repeated by a short write(2), and nothing follows a message that failed.
InputFaithful ==
    LET due == InputOf(Taken) IN
    /\ pc["stdin"] \in {"write", "syscall"} => written \o ibuf = due
    /\ pc["stdin"] \in {"off", "read", "lock", "header", "payload"} => written = due
    /\ IsPrefix(written, due)

\* The two copiers implement the abstract pipe: what a copier holds is the
\* chunk it has read, and a byte is delivered when its frame is in the socket.
Held == [c \in Copiers |-> {p \in 1..MaxOut : Holding(c) /\ InChunk(p, msg[c])}]
Delivered == {p \in 1..MaxOut : InFlushed(p)}
Pipe == INSTANCE OutputPipe WITH
            Workers <- Copiers, taken <- consumed, held <- Held,
            delivered <- Delivered, up <- Up

\* main.go's two output goroutines behave as the abstract pipe says: every byte
\* is taken once, and dropped only when the connection is down.
ImplementsPipe == Pipe!Spec

\* When bash exits the handler returns and the goroutines end, whatever they
\* were blocked on (a full socket nobody reads, the mutex, the connection), all
\* but those inside read(2) or write(2) on the tty: tty.Close does not wake
\* them.  They end too once no job has the slave side open, and not before: a
\* job left in the background keeps a copier, and the master, for its lifetime.
ExitReleases ==
    /\ shell = "exited" ~>
          hpc = "done" /\ \A g \in Goroutines : pc[g] \in {"syscall", "done"}
    /\ shell = "exited" /\ ~jobs ~>
          hpc = "done" /\ \A g \in Goroutines : pc[g] = "done"

\* With a browser and a shell that keep reading, every frame sent is taken and
\* dealt with, unless the input goroutine has ended or bash has exited: a pong
\* waiting for wio or a slow terminal never blocks the input for good.
InputDrains ==
    Attended => \A k \in 1..MaxSent :
        Len(typed) >= k ~>
            \/ Len(Taken) >= k /\ pc["stdin"] = "read"
            \/ pc["stdin"] \in {"off", "done"}
            \/ shell = "exited"

-----------------------------------------------------------------------------
(***************************************************************************)
(* What the repository says of the program, and the code does not do.      *)
(***************************************************************************)

\* "pipe to/fro websocket to the TTY" (main.go): a pipe keeps the order.
OutputInOrder ==
    \A i, j \in DOMAIN flushed : i < j => flushed[i].hi < flushed[j].lo

\* "pipe to/fro websocket to the TTY" (main.go): the browser that stays gets
\* all that bash wrote before the connection is closed.
OutputComplete ==
    conn = "closed" /\ peer = "open" => \A p \in 1..produced : InFlushed(p)
=============================================================================
