----------------------------- MODULE ShellServer -----------------------------
(***************************************************************************)
(* All the sessions of one server process, down to the numbers of their    *)
(* descriptors: the connection (net/http), the WebSocket handshake, the    *)
(* opening of the pseudo-terminal (kr/pty), bash, and the goroutines that  *)
(* copy.  What a session's goroutines do with the bytes is ShellSession's; *)
(* here a goroutine only uses the terminal, again and again.               *)
(*                                                                         *)
(* An os.File of Go 1.7 is an integer that Read and Write load and hand to *)
(* the system call, while Close closes it and sets it to -1, without a     *)
(* lock.  Numbers are reused at once, the lowest first.  A net.Conn counts *)
(* its users, so closing one is a single step here.                        *)
(***************************************************************************)
EXTENDS Integers, Sequences, FiniteSets

CONSTANTS
    Sessions,   \* connections to /shell/
    Copiers,    \* the goroutines of a session: stdout, stderr and stdin
    Numbers,    \* the descriptors the process may have for them
    Requests    \* what a client may ask with, as far as the handshake looks

ASSUME ServerAssumption ==
    /\ Numbers \subseteq Nat /\ Copiers \subseteq {"stdout", "stderr", "stdin"}
    /\ Requests \subseteq [get : BOOLEAN, upgrade : BOOLEAN, key : BOOLEAN,
                           version : BOOLEAN, uri : BOOLEAN,
                           origin : {"absent", "invalid", "valid"}, protocols : Nat]

VARIABLES
    table,      \* the open file that each number stands for
    phase,      \* how far the handler of a session is
    todo,       \* the deferred closes that it runs now
    number,     \* the descriptor that each of its files holds
    copier      \* where its three goroutines are

vars == <<table, phase, todo, number, copier>>

Kinds == {"conn", "master", "slave"}
Free  == <<"free", "free">>
None  == -1

\* A copier that is not in the middle of a system call.
At(where)  == [at |-> where, n |-> None, file |-> Free]

Init ==
    /\ table = [n \in Numbers |-> Free]
    /\ phase = [c \in Sessions |-> "new"]
    /\ todo = [c \in Sessions |-> <<>>]
    /\ number = [c \in Sessions |-> [k \in Kinds |-> None]]
    /\ copier = [c \in Sessions |-> [g \in Copiers |-> At("off")]]

-----------------------------------------------------------------------------
(* The handshake *)

ReadHandshake(r)   == r.get /\ r.upgrade /\ r.key /\ r.version /\ r.uri
CheckOrigin(r)     == r.origin = "valid"
AcceptHandshake(r) == r.protocols <= 1

Upgrades(r) == ReadHandshake(r) /\ CheckOrigin(r) /\ AcceptHandshake(r)

-----------------------------------------------------------------------------
(* Descriptors *)

FreeNumbers == {n \in Numbers : table[n] = Free}

\* Mutant: the next number is the count of the open ones.
OpenNext(c, kind, next) ==
    LET n == Cardinality(Numbers \ FreeNumbers)
    IN  /\ table' = [table EXCEPT ![n] = <<kind, c>>]
        /\ number' = [number EXCEPT ![c][kind] = n]
        /\ phase' = [phase EXCEPT ![c] = next]
        /\ UNCHANGED <<todo, copier>>

\* Session c gets its file of this kind, under the lowest number, and goes on.
Open(c, kind, next) ==
    \E n \in FreeNumbers :
        /\ \A m \in FreeNumbers : n <= m
        /\ table' = [table EXCEPT ![n] = <<kind, c>>]
        /\ number' = [number EXCEPT ![c][kind] = n]
        /\ phase' = [phase EXCEPT ![c] = next]
        /\ UNCHANGED <<todo, copier>>

\* The handler returns or panics: its deferred closes run.
Ends(c, closes) ==
    /\ phase' = [phase EXCEPT ![c] = "ending"]
    /\ todo' = [todo EXCEPT ![c] = closes]
    /\ UNCHANGED <<table, number, copier>>

-----------------------------------------------------------------------------
(* The handler *)

\* net/http accepts, or waits for a free descriptor.
Accept(c) == phase[c] = "new" /\ Open(c, "conn", "asked")

\* Mutant: serveWebSocket does not defer the close of the connection.
HandshakeLeaves(c) ==
    /\ phase[c] = "asked"
    /\ \E r \in Requests :
          \/ /\ Upgrades(r)
             /\ phase' = [phase EXCEPT ![c] = "upgraded"]
             /\ UNCHANGED <<table, todo, number, copier>>
          \/ Ends(c, <<>>)

\* newServerConn: the handler runs if the request upgrades and the answer could be
\* flushed; otherwise serveWebSocket returns.
Handshake(c) ==
    /\ phase[c] = "asked"
    /\ \E r \in Requests :
          \/ /\ Upgrades(r)
             /\ phase' = [phase EXCEPT ![c] = "upgraded"]
             /\ UNCHANGED <<table, todo, number, copier>>
          \/ Ends(c, <<"conn">>)

\* open: /dev/ptmx.  An error makes wsHandler panic before it defers anything.
OpenMaster(c) ==
    /\ phase[c] = "upgraded"
    /\ Open(c, "master", "ptmx") \/ Ends(c, <<"conn">>)

\* Mutant: with no free descriptor it waits for one.
OpenSlaveWaits(c) ==
    /\ phase[c] = "ptmx"
    /\ Open(c, "slave", "pts")

\* open: ptsname, unlockpt and the other side.  If one of them fails, the first
\* file is not closed but left to its finalizer.
OpenSlave(c) ==
    /\ phase[c] = "ptmx"
    /\ Open(c, "slave", "pts") \/ Ends(c, <<"conn">>)

\* Mutant: the deferred close is that of the wrong side.
StartWrongSide(c) ==
    /\ phase[c] = "pts"
    /\ \/ /\ phase' = [phase EXCEPT ![c] = "started"]
          /\ todo' = [todo EXCEPT ![c] = <<"master">>]
          /\ UNCHANGED <<table, number, copier>>
       \/ Ends(c, <<"master", "mark", "slave", "conn">>)

\* Mutant: the error path closes the descriptor and not the file.
StartRaw(c) ==
    /\ phase[c] = "pts"
    /\ \/ /\ phase' = [phase EXCEPT ![c] = "started"]
          /\ todo' = [todo EXCEPT ![c] = <<"slave">>]
          /\ UNCHANGED <<table, number, copier>>
       \/ Ends(c, <<"master", "slave", "conn">>)

\* Start: bash runs and the other side is closed here, or it cannot be started
\* and both sides are.
Start(c) ==
    /\ phase[c] = "pts"
    /\ \/ /\ phase' = [phase EXCEPT ![c] = "started"]
          /\ todo' = [todo EXCEPT ![c] = <<"slave">>]
          /\ UNCHANGED <<table, number, copier>>
       \/ Ends(c, <<"master", "mark", "slave", "conn">>)

\* The three go statements.
Go(c) ==
    /\ phase[c] = "started" /\ todo[c] = <<>>
    /\ phase' = [phase EXCEPT ![c] = "running"]
    /\ copier' = [copier EXCEPT ![c] = [g \in Copiers |-> At("ready")]]
    /\ UNCHANGED <<table, todo, number>>

\* Mutant: wsHandler does not defer the close of the terminal.
WaitLeaves(c) == phase[c] = "running" /\ Ends(c, <<"mark", "conn">>)

\* bash has exited and cmd.Wait returns.
Wait(c) == phase[c] = "running" /\ Ends(c, <<"master", "mark", "conn">>)

\* One deferred close: the descriptor goes.  The master, which the goroutines
\* use, keeps its number until the next step.
Close(c) ==
    /\ todo[c] # <<>> /\ Head(todo[c]) # "mark"
    /\ LET kind == Head(todo[c])
       IN  /\ table' = [table EXCEPT ![number[c][kind]] = Free]
           /\ number' = IF kind = "master" THEN number
                        ELSE [number EXCEPT ![c][kind] = None]
    /\ todo' = [todo EXCEPT ![c] = Tail(@)]
    /\ UNCHANGED <<phase, copier>>

\* Close, continued: the number of the master is set to -1.
Mark(c) ==
    /\ todo[c] # <<>> /\ Head(todo[c]) = "mark"
    /\ number' = [number EXCEPT ![c]["master"] = None]
    /\ todo' = [todo EXCEPT ![c] = Tail(@)]
    /\ UNCHANGED <<table, phase, copier>>

\* The finalizer of a master that open has dropped.
Dropped(c) == /\ phase[c] = "ending" /\ number[c]["master"] # None
              /\ \A i \in 1 .. Len(todo[c]) : todo[c][i] # "mark"

Finalize(c) ==
    /\ Dropped(c)
    /\ table' = [table EXCEPT ![number[c]["master"]] = Free]
    /\ number' = [number EXCEPT ![c]["master"] = None]
    /\ UNCHANGED <<phase, todo, copier>>

-----------------------------------------------------------------------------
(* The goroutines: io.Copy's loop over Read or Write of the terminal.  What *)
(* they do at the other end, between two uses of the terminal, may end them *)
(* at any time, and does once the connection is closed.                     *)

Goes(c, g, to) == /\ copier' = [copier EXCEPT ![c][g] = to]
                  /\ UNCHANGED <<table, phase, todo, number>>

\* f.fd is read ...
Load(c, g) ==
    /\ copier[c][g].at = "ready"
    /\ \/ Goes(c, g, At("over"))
       \/ /\ number[c]["master"] # None
          /\ Goes(c, g, [at |-> "loaded", n |-> number[c]["master"], file |-> Free])

\* ... and is the number of some file, or of none, when the kernel looks it up.
Enter(c, g) ==
    /\ copier[c][g].at = "loaded"
    /\ LET n == copier[c][g].n
       IN  IF table[n] = Free THEN Goes(c, g, At("over"))
           ELSE Goes(c, g, [at |-> "inside", n |-> None, file |-> table[n]])

Return(c, g) == copier[c][g].at = "inside" /\ Goes(c, g, At("ready"))

-----------------------------------------------------------------------------
Handler(c) == \/ OpenMaster(c) \/ OpenSlave(c) \/ Start(c) \/ Go(c)
              \/ Close(c) \/ Mark(c)

Next == \E c \in Sessions :
           \/ Accept(c) \/ Handshake(c) \/ Handler(c) \/ Wait(c) \/ Finalize(c)
           \/ \E g \in Copiers : Load(c, g) \/ Enter(c, g) \/ Return(c, g)

Spec == Init /\ [][Next]_vars

\* Handlers are scheduled, and the runtime collects garbage every two minutes
\* at the least.
FairSpec == Spec /\ \A c \in Sessions : WF_vars(Handler(c)) /\ WF_vars(Finalize(c))

-----------------------------------------------------------------------------
(* Properties *)

Files == (Kinds \X Sessions) \cup {Free}

TypeOK ==
    /\ table \in [Numbers -> Files]
    /\ phase \in [Sessions -> {"new", "asked", "upgraded", "ptmx", "pts", "started",
                               "running", "ending"}]
    /\ todo \in [Sessions -> Seq(Kinds \cup {"mark"})]
    /\ number \in [Sessions -> [Kinds -> Numbers \cup {None}]]
    /\ copier \in [Sessions -> [Copiers ->
                      [at : {"off", "ready", "loaded", "inside", "over"},
                       n : Numbers \cup {None}, file : Files]]]

\* Between the closing of the master and the moment its number is forgotten.
Closing(c) == todo[c] # <<>> /\ Head(todo[c]) = "mark"

\* As long as a session's file is not closed, its number stands for that file:
\* nobody else's close, panic or finalizer hits it, however numbers are reused
\* (wsHandler, serveWebSocket, pty.Start, pty.open).
OwnDescriptors ==
    \A c \in Sessions, k \in Kinds :
        number[c][k] # None /\ ~(k = "master" /\ Closing(c)) =>
            table[number[c][k]] = <<k, c>>

\* Until its terminal is closed, a session's goroutines use that terminal and
\* nothing else (the three io.Copy of wsHandler).
OwnTerminal ==
    \A c \in Sessions, g \in Copiers :
        phase[c] = "running" /\ copier[c][g].at = "inside" =>
            copier[c][g].file = <<"master", c>>

\* What is open belongs to a session that will close it, or to a finalizer: a
\* handler that has ended, however it ended, leaves nothing but the master that a
\* failing open has dropped (the defers of wsHandler, serveWebSocket and Start).
NothingLeft ==
    \A n \in Numbers, c \in Sessions, k \in Kinds :
        table[n] = <<k, c>> /\ phase[c] = "ending" /\ todo[c] = <<>> =>
            k = "master" /\ number[c]["master"] = n

\* When the process is at its limit of descriptors nobody waits for one while he
\* holds one: from the upgrade on, a handler gets its terminal or gives up
\* (pty.open, the panic of wsHandler).
NobodyWaits ==
    \A c \in Sessions : phase[c] = "upgraded" ~> phase[c] \in {"running", "ending"}

\* A session that ends gives back every descriptor, also if its terminal could
\* not be opened or bash not started.
AllReleased ==
    \A c \in Sessions :
        phase[c] = "ending" ~> \A n \in Numbers, k \in Kinds : table[n] # <<k, c>>

-----------------------------------------------------------------------------
(* What the sources say and the code does not do. *)

\* main.go: "pipe to/fro websocket to the TTY".  A goroutine uses the terminal of
\* its own session, never another file.
Isolated ==
    \A c \in Sessions, g \in Copiers :
        copier[c][g].at = "inside" => copier[c][g].file = <<"master", c>>
=============================================================================
