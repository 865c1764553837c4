-------------------------------- MODULE Tasks --------------------------------
(* The goroutines of one run of a program and the channels between them:     *)
(* spawn, channel().send/recv, select, setTimeout, setInterval and           *)
(* clearInterval (internal/runtime), servers that keep the process alive     *)
(* (internal/std/http.go, ws.go) and the end of the run (RunAST in           *)
(* internal/compiler/compiler.go).                                           *)
(*                                                                           *)
(* A program is any sequence of these operations: a goroutine that "runs"    *)
(* may do any of them.  A value is the number of its send.  The channel is   *)
(* Go's: a buffer and the goroutines that wait to send or to receive, served *)
(* in the order they came.                                                   *)
EXTENDS Integers, Sequences, FiniteSets

CONSTANTS
    Main,        \* the goroutine that runs the script
    Workers,     \* the other goroutines a run may start
    Channels,
    Capacity,    \* the buffer of a channel, 64 in the code
    MaxSends,    \* bound: sends of a run
    MaxSelects   \* bound: selects of a run

ASSUME CapacityAssumption == Capacity \in Nat \ {0}
ASSUME BoundsAssumption == MaxSends \in Nat /\ MaxSelects \in Nat
ASSUME MainAssumption == Main \notin Workers

Goroutines == Workers \cup {Main}

VARIABLES
    proc,        \* the process: main "runs", "waits" for servers, or it "ended"
    pc,          \* what each goroutine does
    role,        \* what each goroutine was started for
    queue,       \* per channel: the buffered values
    sendq,       \* per channel: blocked sends, in order: [by, m]
    recvq,       \* per channel: goroutines blocked in a receive, in order
    sends,       \* how many sends the run made
    got,         \* per channel, ghost: the values handed to receivers, in order
    hand,        \* the value a case goroutine received and has to post
    source,      \* per case goroutine: the select that started it and its channel
    selects,     \* how many selects the run made
    chosen,      \* per selecting goroutine: its select and the values posted to it
    used,        \* ghost: the values a script received
    lost,        \* ghost: the values that losing cases of a select received
    ticker,      \* per interval: [on, tick], its time.Ticker and the tick it holds
    late,        \* ghost, per interval: -1 while its id is in intervalMap, and
                 \* the calls begun since
    server,      \* a server and the goroutine in its Serve: "down" | "up" | "closing"
    keepAlive    \* keepAliveWG

chanVars == <<queue, sendq, recvq, sends, got>>
selectVars == <<source, selects, chosen, lost>>
timerVars == <<ticker, late>>
serverVars == <<server, keepAlive>>
vars == <<proc, pc, role, chanVars, hand, used, selectVars, timerVars, serverVars>>

Roles == {"script", "spawn", "timeout", "interval", "case", "handler"}
Blocked == {"sends", "receives", "selects", "ticks"}

TasksTypeOK ==
    /\ proc \in {"runs", "waits", "ended"}
    /\ pc \in [Goroutines -> {"none", "asleep", "runs", "posts", "fires", "over"}
                             \cup Blocked]
    /\ role \in [Goroutines -> Roles]
    /\ queue \in [Channels -> Seq(1 .. MaxSends)]
    /\ sendq \in [Channels -> Seq([by : Goroutines, m : 1 .. MaxSends])]
    /\ recvq \in [Channels -> Seq(Goroutines)]
    /\ sends \in 0 .. MaxSends
    /\ got \in [Channels -> Seq(1 .. MaxSends)]
    /\ hand \in [Goroutines -> 0 .. MaxSends]
    /\ source \in [Workers -> [turn : 0 .. MaxSelects, from : Channels]]
    /\ selects \in 0 .. MaxSelects
    /\ chosen \in [Goroutines -> [turn : 0 .. MaxSelects,
                                  posted : Seq(0 .. MaxSends)]]
    /\ used \subseteq 1 .. MaxSends
    /\ lost \subseteq 1 .. MaxSends
    /\ ticker \in [Workers -> [on : BOOLEAN, tick : BOOLEAN]]
    /\ late \in [Workers -> Nat \cup {-1}]
    /\ server \in {"down", "up", "closing"}
    /\ keepAlive \in Nat

TasksInit ==
    /\ proc = "runs"
    /\ pc = [g \in Goroutines |-> IF g = Main THEN "runs" ELSE "none"]
    /\ role = [g \in Goroutines |-> "script"]
    /\ queue = [c \in Channels |-> <<>>]
    /\ sendq = [c \in Channels |-> <<>>]
    /\ recvq = [c \in Channels |-> <<>>]
    /\ sends = 0
    /\ got = [c \in Channels |-> <<>>]
    /\ hand = [g \in Goroutines |-> 0]
    /\ source = [w \in Workers |-> [turn |-> 0, from |-> CHOOSE c \in Channels : TRUE]]
    /\ selects = 0
    /\ chosen = [g \in Goroutines |-> [turn |-> 0, posted |-> <<>>]]
    /\ used = {}
    /\ lost = {}
    /\ ticker = [w \in Workers |-> [on |-> FALSE, tick |-> FALSE]]
    /\ late = [w \in Workers |-> -1]
    /\ server = "down"
    /\ keepAlive = 0

-----------------------------------------------------------------------------
(* Channels                                                                  *)

Alive == proc \in {"runs", "waits"}

Runs(g) == Alive /\ pc[g] = "runs"

\* Where a goroutine goes on when its receive has a value: a case of a select
\* posts it, a script uses it.
Served(g) == IF role[g] = "case" THEN "posts" ELSE "runs"

Held(g, m) == IF role[g] = "case" THEN m ELSE 0

UsedBy(g, m) == IF role[g] = "case" THEN {} ELSE {m}

\* ch.queue <- v: a waiting receiver is served, else the buffer takes the
\* value, else the goroutine waits.
Send(g, c) ==
    /\ Runs(g) /\ role[g] # "case" /\ sends < MaxSends
    /\ sends' = sends + 1
    /\ \/ /\ recvq[c] # <<>>
          /\ LET r == Head(recvq[c]) IN
             /\ recvq' = [recvq EXCEPT ![c] = Tail(recvq[c])]
             /\ pc' = [pc EXCEPT ![r] = Served(r)]
             /\ hand' = [hand EXCEPT ![r] = Held(r, sends + 1)]
             /\ used' = used \cup UsedBy(r, sends + 1)
             /\ got' = [got EXCEPT ![c] = Append(got[c], sends + 1)]
          /\ UNCHANGED <<queue, sendq>>
       \/ /\ recvq[c] = <<>> /\ Len(queue[c]) < Capacity
          /\ queue' = [queue EXCEPT ![c] = Append(queue[c], sends + 1)]
          /\ UNCHANGED <<pc, hand, used, got, recvq, sendq>>
       \/ /\ recvq[c] = <<>> /\ Len(queue[c]) >= Capacity
          /\ sendq' = [sendq EXCEPT ![c] = Append(sendq[c], [by |-> g, m |-> sends + 1])]
          /\ pc' = [pc EXCEPT ![g] = "sends"]
          /\ UNCHANGED <<hand, used, got, recvq, queue>>
    /\ UNCHANGED <<proc, role, selectVars, timerVars, serverVars>>

\* mutant: a blocked sender is served before the buffer.
ReceiveFromSender(g, c) ==
    /\ \/ /\ sendq[c] # <<>>
          /\ LET s == Head(sendq[c]) IN
             /\ sendq' = [sendq EXCEPT ![c] = Tail(sendq[c])]
             /\ pc' = [pc EXCEPT ![g] = Served(g), ![s.by] = "runs"]
             /\ hand' = [hand EXCEPT ![g] = Held(g, s.m)]
             /\ used' = used \cup UsedBy(g, s.m)
             /\ got' = [got EXCEPT ![c] = Append(got[c], s.m)]
          /\ UNCHANGED <<queue, recvq>>
       \/ /\ sendq[c] = <<>> /\ queue[c] # <<>>
          /\ LET m == Head(queue[c]) IN
             /\ queue' = [queue EXCEPT ![c] = Tail(queue[c])]
             /\ pc' = [pc EXCEPT ![g] = Served(g)]
             /\ hand' = [hand EXCEPT ![g] = Held(g, m)]
             /\ used' = used \cup UsedBy(g, m)
             /\ got' = [got EXCEPT ![c] = Append(got[c], m)]
          /\ UNCHANGED <<sendq, recvq>>
       \/ /\ sendq[c] = <<>> /\ queue[c] = <<>>
          /\ recvq' = [recvq EXCEPT ![c] = Append(recvq[c], g)]
          /\ pc' = [pc EXCEPT ![g] = "receives"]
          /\ UNCHANGED <<queue, sendq, hand, used, got>>
    /\ UNCHANGED <<proc, role, sends, selectVars, timerVars, serverVars>>

\* mutant: a receive leaves the blocked senders to the next send.
ReceiveNoWake(g, c) ==
    /\ \/ /\ queue[c] # <<>>
          /\ LET m == Head(queue[c]) IN
             /\ hand' = [hand EXCEPT ![g] = Held(g, m)]
             /\ used' = used \cup UsedBy(g, m)
             /\ got' = [got EXCEPT ![c] = Append(got[c], m)]
          /\ queue' = [queue EXCEPT ![c] = Tail(queue[c])]
          /\ pc' = [pc EXCEPT ![g] = Served(g)]
          /\ UNCHANGED <<sendq, recvq>>
       \/ /\ queue[c] = <<>>
          /\ recvq' = [recvq EXCEPT ![c] = Append(recvq[c], g)]
          /\ pc' = [pc EXCEPT ![g] = "receives"]
          /\ UNCHANGED <<queue, sendq, hand, used, got>>
    /\ UNCHANGED <<proc, role, sends, selectVars, timerVars, serverVars>>

\* v := <-ch.queue: the oldest value, whose place the first blocked sender
\* takes; with an empty buffer the goroutine waits.
Receive(g, c) ==
    /\ \/ /\ queue[c] # <<>>
          /\ LET m == Head(queue[c]) IN
             /\ hand' = [hand EXCEPT ![g] = Held(g, m)]
             /\ used' = used \cup UsedBy(g, m)
             /\ got' = [got EXCEPT ![c] = Append(got[c], m)]
          /\ IF sendq[c] = <<>>
             THEN /\ queue' = [queue EXCEPT ![c] = Tail(queue[c])]
                  /\ pc' = [pc EXCEPT ![g] = Served(g)]
                  /\ UNCHANGED sendq
             ELSE LET s == Head(sendq[c]) IN
                  /\ queue' = [queue EXCEPT ![c] = Append(Tail(queue[c]), s.m)]
                  /\ sendq' = [sendq EXCEPT ![c] = Tail(sendq[c])]
                  /\ pc' = [pc EXCEPT ![g] = Served(g), ![s.by] = "runs"]
          /\ UNCHANGED recvq
       \/ /\ queue[c] = <<>>
          /\ recvq' = [recvq EXCEPT ![c] = Append(recvq[c], g)]
          /\ pc' = [pc EXCEPT ![g] = "receives"]
          /\ UNCHANGED <<queue, sendq, hand, used, got>>
    /\ UNCHANGED <<proc, role, sends, selectVars, timerVars, serverVars>>

Recv(g, c) == Runs(g) /\ role[g] # "case" /\ Receive(g, c)

-----------------------------------------------------------------------------
(* select: one goroutine per case receives from the channel of its case and  *)
(* posts what it received; the selecting goroutine takes the first post.     *)

Start(ws, r) ==
    /\ ws \subseteq {w \in Workers : pc[w] = "none"}
    /\ role' = [g \in Goroutines |-> IF g \in ws THEN r ELSE role[g]]

Select(g) ==
    /\ Runs(g) /\ role[g] # "case" /\ selects < MaxSelects
    /\ selects' = selects + 1
    /\ \E ws \in (SUBSET Workers) \ {{}} : \E from \in [ws -> Channels] :
        /\ Start(ws, "case")
        /\ source' = [w \in Workers |->
                        IF w \in ws THEN [turn |-> selects + 1, from |-> from[w]]
                        ELSE source[w]]
        /\ pc' = [h \in Goroutines |-> IF h \in ws THEN "fires"
                                       ELSE IF h = g THEN "selects" ELSE pc[h]]
    /\ chosen' = [chosen EXCEPT ![g] = [turn |-> selects + 1, posted |-> <<>>]]
    /\ UNCHANGED <<proc, chanVars, hand, used, lost, timerVars, serverVars>>

CaseReceive(w) ==
    /\ Alive /\ pc[w] = "fires" /\ role[w] = "case"
    /\ Receive(w, source[w].from)

\* ch <- result{...}: the channel of the select has room for every case.  A
\* case that is late posts to a channel nobody reads any more.
Post(w) ==
    /\ Alive /\ pc[w] = "posts"
    /\ pc' = [pc EXCEPT ![w] = "over"]
    /\ hand' = [hand EXCEPT ![w] = 0]
    /\ \/ \E g \in Goroutines :
            /\ pc[g] = "selects" /\ chosen[g].turn = source[w].turn
            /\ chosen' = [chosen EXCEPT ![g].posted = Append(@, hand[w])]
            /\ UNCHANGED lost
       \/ /\ \A g \in Goroutines :
                ~(pc[g] = "selects" /\ chosen[g].turn = source[w].turn)
          /\ lost' = lost \cup {hand[w]}
          /\ UNCHANGED chosen
    /\ UNCHANGED <<proc, role, chanVars, used, source, selects, timerVars, serverVars>>

\* mutant: the selects of a goroutine share one channel for their results.
ChooseFromShared(g) ==
    /\ Alive /\ pc[g] = "selects" /\ chosen[g].posted # <<>>
    /\ LET p == chosen[g].posted IN
       /\ used' = used \cup {Head(p)}
       /\ lost' = lost \cup {p[i] : i \in 2 .. Len(p)}
       /\ chosen' = [chosen EXCEPT ![g].posted = Tail(p)]
    /\ pc' = [pc EXCEPT ![g] = "runs"]
    /\ UNCHANGED <<proc, role, chanVars, hand, source, selects, timerVars, serverVars>>

\* r := <-ch, and the body of that case.
Choose(g) ==
    /\ Alive /\ pc[g] = "selects" /\ chosen[g].posted # <<>>
    /\ LET p == chosen[g].posted IN
       /\ used' = used \cup {Head(p)}
       /\ lost' = lost \cup {p[i] : i \in 2 .. Len(p)}
    /\ chosen' = [chosen EXCEPT ![g].posted = <<>>]
    /\ pc' = [pc EXCEPT ![g] = "runs"]
    /\ UNCHANGED <<proc, role, chanVars, hand, source, selects, timerVars, serverVars>>

-----------------------------------------------------------------------------
(* Goroutines of spawn, of timers and of servers                             *)

Spawn(g, w) ==
    /\ Runs(g) /\ role[g] # "case" /\ Start({w}, "spawn")
    /\ pc' = [pc EXCEPT ![w] = "runs"]
    /\ UNCHANGED <<proc, chanVars, hand, used, selectVars, timerVars, serverVars>>

SetTimeout(g, w) ==
    /\ Runs(g) /\ role[g] # "case" /\ Start({w}, "timeout")
    /\ pc' = [pc EXCEPT ![w] = "asleep"]
    /\ UNCHANGED <<proc, chanVars, hand, used, selectVars, timerVars, serverVars>>

Wake(w) ==
    /\ Alive /\ pc[w] = "asleep"
    /\ pc' = [pc EXCEPT ![w] = "runs"]
    /\ UNCHANGED <<proc, role, chanVars, hand, used, selectVars, timerVars, serverVars>>

SetInterval(g, w) ==
    /\ Runs(g) /\ role[g] # "case" /\ Start({w}, "interval")
    /\ pc' = [pc EXCEPT ![w] = "ticks"]
    /\ ticker' = [ticker EXCEPT ![w].on = TRUE]
    /\ UNCHANGED <<proc, chanVars, hand, used, selectVars, late, serverVars>>

\* The ticker's channel holds one tick; a tick that finds it full is dropped.
Tick(w) ==
    /\ Alive /\ ticker[w].on /\ ~ticker[w].tick
    /\ ticker' = [ticker EXCEPT ![w].tick = TRUE]
    /\ UNCHANGED <<proc, pc, role, chanVars, hand, used, selectVars, late, serverVars>>

TakeTick(w) ==
    /\ Alive /\ pc[w] = "ticks" /\ ticker[w].tick
    /\ ticker' = [ticker EXCEPT ![w].tick = FALSE]
    /\ pc' = [pc EXCEPT ![w] = "fires"]
    /\ UNCHANGED <<proc, role, chanVars, hand, used, selectVars, late, serverVars>>

CallInterval(w) ==
    /\ Alive /\ pc[w] = "fires" /\ role[w] = "interval"
    /\ pc' = [pc EXCEPT ![w] = "runs"]
    /\ late' = [late EXCEPT ![w] = IF @ < 0 THEN @ ELSE @ + 1]
    /\ UNCHANGED <<proc, role, chanVars, hand, used, selectVars, ticker, serverVars>>

\* mutant: clearInterval forgets the id and not the ticker.
StillTicking(t) == t

\* Stop ends the ticks; the one in the channel stays there, and so does the
\* goroutine that waits for the next.
Stopped(t) == [t EXCEPT !.on = FALSE]

ClearInterval(g, w) ==
    /\ Runs(g) /\ role[g] # "case" /\ role[w] = "interval" /\ late[w] < 0
    /\ ticker' = [ticker EXCEPT ![w] = Stopped(@)]
    /\ late' = [late EXCEPT ![w] = 0]
    /\ UNCHANGED <<proc, pc, role, chanVars, hand, used, selectVars, serverVars>>

\* createServer/listen: KeepAliveAdd before the goroutine that serves.
Listen(g) ==
    /\ Runs(g) /\ role[g] # "case" /\ server = "down"
    /\ server' = "up" /\ keepAlive' = keepAlive + 1
    /\ UNCHANGED <<proc, pc, role, chanVars, hand, used, selectVars, timerVars>>

\* close, which a program may call again.
CloseServer(g) ==
    /\ Runs(g) /\ role[g] # "case" /\ server \in {"up", "closing"}
    /\ server' = "closing"
    /\ UNCHANGED <<proc, pc, role, chanVars, hand, used, selectVars, timerVars, keepAlive>>

\* Serve returns: defer KeepAliveDone.
ServeReturns ==
    /\ Alive /\ server = "closing"
    /\ server' = "down" /\ keepAlive' = keepAlive - 1
    /\ UNCHANGED <<proc, pc, role, chanVars, hand, used, selectVars, timerVars>>

Request(w) ==
    /\ Alive /\ server = "up" /\ Start({w}, "handler")
    /\ pc' = [pc EXCEPT ![w] = "runs"]
    /\ UNCHANGED <<proc, chanVars, hand, used, selectVars, timerVars, serverVars>>

-----------------------------------------------------------------------------
(* How goroutines and the process end                                        *)

\* The function of a goroutine returns, or fails: nobody looks at its error.
Return(w) ==
    /\ Runs(w) /\ role[w] # "case"
    /\ pc' = [pc EXCEPT ![w] = IF role[w] = "interval" THEN "ticks" ELSE "over"]
    /\ UNCHANGED <<proc, role, chanVars, hand, used, selectVars, timerVars, serverVars>>

\* A panic of the host: spawn and net/http recover it, the goroutine of a
\* timer does not, and main ends the process.
Panic(g) ==
    /\ Runs(g)
    /\ \/ /\ role[g] \in {"spawn", "handler"}
          /\ pc' = [pc EXCEPT ![g] = "over"]
          /\ UNCHANGED proc
       \/ /\ role[g] \in {"script", "timeout", "interval"}
          /\ proc' = "ended"
          /\ UNCHANGED pc
    /\ UNCHANGED <<role, chanVars, hand, used, selectVars, timerVars, serverVars>>

\* RunAST after the script and its main function: an error ends the process
\* at once, else it waits for the servers.
MainReturns ==
    /\ Runs(Main)
    /\ pc' = [pc EXCEPT ![Main] = "over"]
    /\ proc' = "waits"
    /\ UNCHANGED <<role, chanVars, hand, used, selectVars, timerVars, serverVars>>

MainFails ==
    /\ Runs(Main)
    /\ proc' = "ended"
    /\ UNCHANGED <<pc, role, chanVars, hand, used, selectVars, timerVars, serverVars>>

\* mutant: the wait looks at the servers and at the goroutines of the run.
KeepAliveWaitAll == keepAlive = 0 /\ \A w \in Workers : pc[w] \in {"none", "over"}

KeepAliveWait == keepAlive = 0

Exit ==
    /\ proc = "waits" /\ KeepAliveWait
    /\ proc' = "ended"
    /\ UNCHANGED <<pc, role, chanVars, hand, used, selectVars, timerVars, serverVars>>

\* Go ends a process whose goroutines all wait for each other: no server, no
\* running ticker and no sleeping timer could wake one.
Deadlock ==
    /\ proc = "runs" /\ server = "down"
    /\ \A g \in Goroutines : pc[g] \in {"none", "over"} \cup Blocked
    /\ \A w \in Workers : ~ticker[w].on /\ ~(pc[w] = "ticks" /\ ticker[w].tick)
    /\ \A g \in Goroutines : pc[g] = "selects" => chosen[g].posted = <<>>
    /\ proc' = "ended"
    /\ UNCHANGED <<pc, role, chanVars, hand, used, selectVars, timerVars, serverVars>>

\* A step of the script that goroutine g runs.
ScriptStep(g) ==
    \/ \E c \in Channels : Send(g, c) \/ Recv(g, c)
    \/ Select(g)
    \/ \E w \in Workers : \/ Spawn(g, w) \/ SetTimeout(g, w) \/ SetInterval(g, w)
                          \/ ClearInterval(g, w)
    \/ Listen(g) \/ CloseServer(g) \/ Panic(g)

\* A step of the runtime that nothing but the scheduler or a clock decides.
RuntimeStep(w) ==
    \/ CaseReceive(w) \/ Post(w) \/ Wake(w) \/ Tick(w) \/ TakeTick(w)
    \/ CallInterval(w)

TasksNext ==
    \/ \E g \in Goroutines : ScriptStep(g) \/ Choose(g)
    \/ \E w \in Workers : RuntimeStep(w) \/ Request(w) \/ Return(w)
    \/ MainReturns \/ MainFails \/ ServeReturns \/ Exit \/ Deadlock

\* What the scheduler runs goes on: goroutines of the runtime, timers, the
\* serving goroutine and the wait of main.  Nothing is assumed of scripts,
\* which may loop, nor of clients.
TasksFairness ==
    /\ \A w \in Workers : WF_vars(CaseReceive(w)) /\ WF_vars(Post(w)) /\ WF_vars(Wake(w))
                          /\ WF_vars(CallInterval(w)) /\ WF_vars(TakeTick(w))
    /\ \A g \in Goroutines : WF_vars(Choose(g))
    /\ WF_vars(ServeReturns) /\ WF_vars(Exit) /\ WF_vars(Deadlock)

TasksSpec == TasksInit /\ [][TasksNext]_vars /\ TasksFairness

-----------------------------------------------------------------------------
(* Properties                                                                *)

\* No goroutine waits at a channel for what is already there (chan.send and
\* chan.recv of internal/runtime/functions.go:117-130): receivers wait only
\* while there is nothing to receive, senders only while the buffer is full.
NoneStranded ==
    \A c \in Channels :
        /\ recvq[c] # <<>> => queue[c] = <<>> /\ sendq[c] = <<>>
        /\ sendq[c] # <<>> => Len(queue[c]) = Capacity
        /\ Len(queue[c]) <= Capacity

InBuffer == UNION {{queue[c][i] : i \in DOMAIN queue[c]} : c \in Channels}
InSends == UNION {{sendq[c][i].m : i \in DOMAIN sendq[c]} : c \in Channels}
WithCases == {hand[w] : w \in {v \in Workers : pc[v] = "posts"}}
                \cup UNION {{chosen[g].posted[i] : i \in DOMAIN chosen[g].posted} :
                            g \in Goroutines}

\* Every value that was sent is at one place: in the buffer, with a blocked
\* sender, with a case of a select, used by a script, or lost to a case that
\* came too late (execSelect, internal/runtime/control.go:442-475).  Nothing
\* else loses a value and nothing gives one twice, whatever select does.
Conserved ==
    \A m \in 1 .. sends :
        Cardinality({p \in {<<"buffer", InBuffer>>, <<"sends", InSends>>,
                            <<"cases", WithCases>>, <<"used", used>>, <<"lost", lost>>} :
                        m \in p[2]}) = 1

\* Each channel is the FIFO channel of docs/language-reference.md:645, with
\* spawned goroutines, selects and timers at both of its ends.
PendingOf(c) == [i \in DOMAIN sendq[c] |-> sendq[c][i].m]
Queue == INSTANCE Fifo WITH
            accepted <- [c \in Channels |-> got[c] \o queue[c] \o PendingOf(c)],
            taken <- [c \in Channels |-> Len(got[c])]
ImplementsFifo == Queue!FifoSpec

\* clearInterval does not end the calls at once: one may be about to begin and
\* one tick may be in the ticker's channel (internal/runtime/builtins.go:456-493).
\* It never lets a third call begin.
StopsSoon == \A w \in Workers : late[w] <= 2

\* A run whose script is over ends, unless a server is up: no goroutine, timer
\* or interval keeps it (RunAST, internal/compiler/compiler.go:169-185).
RunEnds == proc = "waits" ~> (proc = "ended" \/ server = "up")
==============================================================================
