------------------------------ MODULE WsServer ------------------------------
(***************************************************************************)
(* A WebSocket server of std.ws (internal/std/ws.go). For each connection  *)
(* there are the goroutine that accepts it and then reads it, and its      *)
(* peer; the goroutines of the program send, broadcast and close. A        *)
(* connection stands for its own goroutine where a goroutine is asked for. *)
(* net.Conn is a pipe of Window frames; a frame is a message's number or   *)
(* Bye.                                                                    *)
(***************************************************************************)
EXTENDS Naturals, Sequences, SequencesExt, FiniteSets

CONSTANTS
    MaxConns,       \* bound: connections, numbered as they are accepted
    Scripts,        \* goroutines of the program
    Window,         \* frames a peer leaves unread before a write blocks
    MaxMessages     \* bound: messages of the program

ASSUME WsAssumption ==
    MaxConns \in Nat /\ Scripts \cap Nat = {} /\ Window \in Nat \ {0} /\ MaxMessages \in Nat

Conns == 1..MaxConns
Bye == 0
Nobody == 0    \* holds the mutex

VARIABLES
    clients,    \* the server's list
    phase,      \* per connection, what its goroutine does
    closed,     \* wsConn.closed
    onClose,    \* its close callback: "none", "remove" or one of the "script"
    mutex,      \* wsConn.mu
    sent,       \* frames written to the connection
    broken,     \* whether the connection is closed on the network
    peer,       \* the peer: "there", its "bye" is under way, or "gone"
    read,       \* frames the peer took off the pipe
    job,        \* per goroutine: a message and the clients to send it to
    messages,   \* messages so far
    listens     \* whether the server accepts connections

wsVars == <<clients, phase, closed, onClose, mutex, sent, broken, peer, read, job, messages, listens>>

Idle == [m |-> 0, to |-> <<>>]
Free(g) == job[g] = Idle

WsInit ==
    /\ clients = <<>> /\ messages = 0 /\ listens = TRUE
    /\ phase = [c \in Conns |-> "absent"]
    /\ closed = [c \in Conns |-> FALSE] /\ broken = [c \in Conns |-> FALSE]
    /\ onClose = [c \in Conns |-> "none"]
    /\ mutex = [c \in Conns |-> Nobody]
    /\ sent = [c \in Conns |-> <<>>] /\ read = [c \in Conns |-> 0]
    /\ peer = [c \in Conns |-> "there"]
    /\ job = [g \in Scripts |-> Idle]

(***************************************************************************)
(* The goroutine of a connection: the handshake, the list, the callback    *)
(* that takes the client off the list, the handler of the program, and the *)
(* loop that reads frames, which starts after the handler.                 *)
(***************************************************************************)
Accept(c) ==
    /\ listens /\ phase[c] = "absent" /\ \A d \in 1..c - 1 : phase[d] # "absent"
    /\ phase' = [phase EXCEPT ![c] = "reads"]
    /\ clients' = Append(clients, c)
    /\ onClose' = [onClose EXCEPT ![c] = "remove"]
    /\ UNCHANGED <<closed, mutex, sent, broken, peer, read, job, messages, listens>>

ReadEnds(c) ==
    /\ phase[c] = "reads" /\ (broken[c] \/ peer[c] = "bye")
    /\ phase' = [phase EXCEPT ![c] = "closes"]
    /\ UNCHANGED <<clients, closed, onClose, mutex, sent, broken, peer, read, job, messages, listens>>

(* A write that finds the pipe full waits, and holds the mutex. *)
Room(c) == broken[c] \/ Len(sent[c]) - read[c] < Window
Put(c, frame) == IF broken[c] THEN sent ELSE [sent EXCEPT ![c] = Append(@, frame)]

Lock(g, c) == mutex[c] = Nobody /\ mutex' = [mutex EXCEPT ![c] = g]
Unlock(g, c) == mutex[c] = g /\ mutex' = [mutex EXCEPT ![c] = Nobody]

(* close, when it has the mutex. *)
Close(c) ==
    /\ (closed[c] \/ Room(c))
    /\ closed' = [closed EXCEPT ![c] = TRUE]
    /\ broken' = [broken EXCEPT ![c] = TRUE]
    /\ sent' = IF closed[c] THEN sent ELSE Put(c, Bye)

LockToClose(c) ==
    /\ phase[c] = "closes" /\ Lock(c, c)
    /\ UNCHANGED <<clients, phase, closed, onClose, sent, broken, peer, read, job, messages, listens>>
CloseRead(c) ==
    /\ phase[c] = "closes" /\ Close(c) /\ Unlock(c, c)
    /\ phase' = [phase EXCEPT ![c] = "calls back"]
    /\ UNCHANGED <<clients, onClose, peer, read, job, messages, listens>>

WithoutFirst(c) == IF clients = <<>> THEN <<>> ELSE Tail(clients)    \* mutant: takes the oldest off
Without(c) ==
    LET at == {i \in DOMAIN clients : clients[i] = c}
    IN  IF at = {} THEN clients ELSE RemoveAt(clients, Min(at))
CallBack(c) ==
    /\ phase[c] = "calls back"
    /\ phase' = [phase EXCEPT ![c] = "over"]
    /\ clients' = IF onClose[c] = "remove" THEN Without(c) ELSE clients
    /\ UNCHANGED <<closed, onClose, mutex, sent, broken, peer, read, job, messages, listens>>

(***************************************************************************)
(* The program: handlers are registered at any time, by the handler of the *)
(* connection or later.                                                    *)
(***************************************************************************)
Shown(c) == phase[c] \notin {"absent", "over"}

(* It replaces the callback the server had set. *)
OnClose(c) ==
    /\ Shown(c) /\ onClose' = [onClose EXCEPT ![c] = "script"]
    /\ UNCHANGED <<clients, phase, closed, mutex, sent, broken, peer, read, job, messages, listens>>

(* send and broadcast: the clients at the time of the call. *)
Start(g, to) ==
    /\ Free(g) /\ messages < MaxMessages /\ to # <<>>
    /\ messages' = messages + 1
    /\ job' = [job EXCEPT ![g] = [m |-> messages + 1, to |-> to]]
    /\ UNCHANGED <<clients, phase, closed, onClose, mutex, sent, broken, peer, read, listens>>
Send(g, c) == Shown(c) /\ Start(g, <<c>>)
Broadcast(g) == Start(g, clients)

LockToSend(g) ==
    /\ ~Free(g) /\ Lock(g, Head(job[g].to))
    /\ UNCHANGED <<clients, phase, closed, onClose, sent, broken, peer, read, job, messages, listens>>

(* What the write of a frame needs: the mutex, and room unless closed.     *)
Done(g) == IF Len(job[g].to) = 1 THEN Idle ELSE [job[g] EXCEPT !.to = Tail(@)]
WriteAnyway(g) ==    \* mutant: closed is not asked
    /\ ~Free(g)
    /\ LET c == Head(job[g].to)
       IN  /\ Unlock(g, c)
           /\ sent' = [sent EXCEPT ![c] = Append(@, job[g].m)]
    /\ job' = [job EXCEPT ![g] = Done(g)]
    /\ UNCHANGED <<clients, phase, closed, onClose, broken, peer, read, messages, listens>>
(* An error of the write or of a closed connection is dropped. *)
Write(g) ==
    /\ ~Free(g)
    /\ LET c == Head(job[g].to)
       IN  /\ (closed[c] \/ Room(c))
           /\ Unlock(g, c)
           /\ sent' = IF closed[c] THEN sent ELSE Put(c, job[g].m)
    /\ job' = [job EXCEPT ![g] = Done(g)]
    /\ UNCHANGED <<clients, phase, closed, onClose, broken, peer, read, messages, listens>>

ScriptCloses(c) ==
    /\ Shown(c) /\ ~closed[c] /\ mutex[c] = Nobody /\ Close(c)
    /\ UNCHANGED <<clients, phase, onClose, mutex, peer, read, job, messages, listens>>

(* close of the server: the connections there are stay.                    *)
CloseServer ==
    /\ listens /\ listens' = FALSE
    /\ UNCHANGED <<clients, phase, closed, onClose, mutex, sent, broken, peer, read, job, messages>>

(***************************************************************************)
(* The peer.                                                               *)
(***************************************************************************)
There(c) == phase[c] # "absent" /\ peer[c] # "gone"

PeerReads(c) ==
    /\ There(c) /\ read[c] < Len(sent[c]) /\ read' = [read EXCEPT ![c] = @ + 1]
    /\ UNCHANGED <<clients, phase, closed, onClose, mutex, sent, broken, peer, job, messages, listens>>

PeerLeaves(c) ==
    /\ There(c) /\ ~broken[c] /\ peer[c] = "there" /\ peer' = [peer EXCEPT ![c] = "bye"]
    /\ UNCHANGED <<clients, phase, closed, onClose, mutex, sent, broken, read, job, messages, listens>>

PeerVanishes(c) ==
    /\ There(c) /\ ~broken[c]
    /\ broken' = [broken EXCEPT ![c] = TRUE]
    /\ peer' = [peer EXCEPT ![c] = "gone"]
    /\ UNCHANGED <<clients, phase, closed, onClose, mutex, sent, read, job, messages, listens>>

Goes(c) ==
    \/ Accept(c) \/ ReadEnds(c)
    \/ LockToClose(c) \/ CloseRead(c) \/ CallBack(c)
Peer(c) == PeerReads(c) \/ PeerVanishes(c) \/ PeerLeaves(c)
Works(g) == LockToSend(g) \/ Write(g)
Registers(c) == OnClose(c) \/ ScriptCloses(c)

WsNext ==
    \/ \E c \in Conns : Goes(c) \/ Peer(c) \/ Registers(c)
    \/ CloseServer
    \/ \E g \in Scripts : Works(g)
    \/ \E g \in Scripts : Broadcast(g) \/ \E c \in Conns : Send(g, c)

(* What goes on by itself: the goroutines.                                 *)
WsMoves ==
    \/ \E g \in Scripts : Works(g)
    \/ \E c \in Conns : LockToClose(c) \/ CloseRead(c)

-----------------------------------------------------------------------------
(* The list of the server holds a connection from its handshake on, once,  *)
(* until the read loop has ended and the callback of the server has run    *)
(* (ws.go:206-219); a program that sets a callback of its own keeps it.    *)
ClientsFollow ==
    /\ IsInjective(clients)
    /\ \A c \in Conns :
          /\ phase[c] \in {"reads", "closes", "calls back"} => c \in Range(clients)
          /\ phase[c] = "absent" \/ (phase[c] = "over" /\ onClose[c] = "remove") => c \notin Range(clients)

(* A connection carries each message at most once and nothing after the    *)
(* close frame, whoever sends while it is closed (ws.go:24-56).            *)
FramesInOrder ==
    \A c \in Conns : \A i, j \in DOMAIN sent[c] : i < j => sent[c][i] # Bye /\ sent[c][i] # sent[c][j]

=============================================================================
