--------------------------- MODULE TasksProofs ---------------------------
(***************************************************************************)
(* The channels of Tasks for any number of goroutines, channels, sends and *)
(* selects and any capacity: who waits at a channel, in which order values *)
(* leave it, and where each value is.                                      *)
(***************************************************************************)
EXTENDS Tasks, StackLemmas, FiniteSetTheorems

Waiting == [by : Goroutines, m : Nat]

ChannelTypes ==
    /\ queue \in [Channels -> Seq(Nat)]
    /\ sendq \in [Channels -> Seq(Waiting)]
    /\ recvq \in [Channels -> Seq(Goroutines)]
    /\ got \in [Channels -> Seq(Nat)]
    /\ sends \in Nat

(* A case of a select receives from a channel of the program.               *)
CasesReceive == \A w \in Workers : role[w] = "case" => source[w].from \in Channels

ChannelInv == ChannelTypes /\ CasesReceive /\ NoneStranded

-----------------------------------------------------------------------------
(* Sequences joined. *)

Then(s, t) == s \o t

LEMMA Joined ==
    /\ \A s, t \in Seq(Nat) : Then(s, t) \in Seq(Nat) /\ Len(Then(s, t)) = Len(s) + Len(t)
    /\ \A s, t, u \in Seq(Nat) : Then(Then(s, t), u) = Then(s, Then(t, u))
    /\ \A s \in Seq(Nat) : Then(s, <<>>) = s
<1>1. \A s, t \in Seq(Nat) : Then(s, t) \in Seq(Nat) /\ Len(Then(s, t)) = Len(s) + Len(t)
  BY ConcatProperties DEF Then
<1>2. \A s, t, u \in Seq(Nat) : Then(Then(s, t), u) = Then(s, Then(t, u))
  BY SMTT(30) DEF Then
<1>3. \A s \in Seq(Nat) : Then(s, <<>>) = s
  BY ConcatEmptySeq DEF Then
<1> QED
  BY <1>1, <1>2, <1>3, Zenon

LEMMA HeadAndTail ==
    ASSUME NEW s \in Seq(Nat), s # <<>>
    PROVE  /\ Head(s) \in Nat /\ Tail(s) \in Seq(Nat) /\ Len(Tail(s)) = Len(s) - 1
           /\ <<Head(s)>> \in Seq(Nat) /\ s = Then(<<Head(s)>>, Tail(s))
<1>1. Len(s) \in Nat \ {0}
  BY EmptySeq
<1>2. Head(s) \in Nat /\ Tail(s) \in Seq(Nat) /\ Len(Tail(s)) = Len(s) - 1 /\ Head(s) = s[1]
  BY <1>1, HeadTailProperties
<1>3. s = SubSeq(s, 1, Len(s)) /\ Tail(s) = SubSeq(s, 2, Len(s))
  BY <1>1, SubSeqFull, TailIsSubSeq
<1>4. 1 \in 1..Len(s) /\ Len(s) \in 1..Len(s) /\ 1 + 1 = 2
  BY <1>1
<1>5. SubSeq(s, 1, Len(s)) = <<s[1]>> \o SubSeq(s, 1 + 1, Len(s))
  BY <1>4, SubSeqRecursiveFirst
<1>6. <<Head(s)>> \in Seq(Nat)
  BY <1>2
<1> QED
  BY <1>2, <1>3, <1>4, <1>5, <1>6, Zenon DEF Then

LEMMA OneMore ==
    ASSUME NEW s \in Seq(Nat), NEW v \in Nat
    PROVE  /\ Append(s, v) \in Seq(Nat)
           /\ Len(Append(s, v)) = Len(s) + 1
           /\ SubSeq(Append(s, v), 1, Len(s)) = s
           /\ <<v>> \in Seq(Nat) /\ Append(s, v) = Then(s, <<v>>)
<1> DEFINE t == Append(s, v)
           u == SubSeq(t, 1, Len(s))
<1>1. /\ t \in Seq(Nat) /\ Len(t) = Len(s) + 1 /\ Len(s) \in Nat
      /\ \A i \in 1..Len(s) : t[i] = s[i] /\ t[i] \in Nat
  BY AppendFacts, ElementOfSeq
<1> HIDE DEF t
<1>2. u \in Seq(Nat) /\ Len(u) = Len(s) /\ \A i \in 1..Len(s) : u[i] = t[i]
  BY <1>1, SubSeqProperties
<1> HIDE DEF u
<1>3. u = s
  BY <1>1, <1>2, SeqEqual
<1>4. t = s \o <<v>> /\ <<v>> \in Seq(Nat)
  BY AppendIsConcat DEF t
<1> QED
  BY <1>1, <1>3, <1>4 DEF t, u, Then

LEMMA Lengths ==
    ASSUME NEW a \in Seq(Nat), NEW b \in Seq(Nat), NEW d \in Seq(Nat)
    PROVE  /\ Len(a) \in Nat /\ Len(b) \in Nat /\ Len(d) \in Nat
           /\ Len(Then(Then(a, b), d)) = (Len(a) + Len(b)) + Len(d)
<1>1. Then(a, b) \in Seq(Nat) /\ Len(Then(a, b)) = Len(a) + Len(b)
  BY Joined
<1>2. Len(Then(Then(a, b), d)) = Len(Then(a, b)) + Len(d)
  BY <1>1, Joined
<1> QED
  BY <1>1, <1>2

(* What was accepted grows by a value at its end: one that is handed over,  *)
(* one that the buffer takes, one that waits with its sender.               *)
LEMMA Accepted ==
    ASSUME NEW a \in Seq(Nat), NEW b \in Seq(Nat), NEW d \in Seq(Nat), NEW v \in Nat
    PROVE  LET s == Then(Then(a, b), d) IN
           /\ d = <<>> /\ b = <<>> => Then(Then(Append(a, v), b), d) = Append(s, v)
           /\ d = <<>> => Then(Then(a, Append(b, v)), d) = Append(s, v)
           /\ Then(Then(a, b), Append(d, v)) = Append(s, v)
<1> DEFINE s == Then(Then(a, b), d)
           x == <<v>>
<1>1. Then(a, b) \in Seq(Nat) /\ s \in Seq(Nat)
  BY Joined
<1>2. /\ x \in Seq(Nat) /\ Append(a, v) = Then(a, x) /\ Append(b, v) = Then(b, x)
      /\ Append(d, v) = Then(d, x) /\ Append(s, v) = Then(s, x)
  BY <1>1, OneMore, Zenon
<1> HIDE DEF x
<1>3. ASSUME d = <<>>, b = <<>> PROVE Then(Then(Append(a, v), b), d) = Append(s, v)
  BY <1>1, <1>2, <1>3, Joined
<1>4. ASSUME d = <<>> PROVE Then(Then(a, Append(b, v)), d) = Append(s, v)
  <2>1. Then(a, Then(b, x)) \in Seq(Nat) /\ Then(a, Then(b, x)) = Then(Then(a, b), x)
    BY <1>1, <1>2, Joined
  <2> QED
    BY <1>1, <1>2, <1>4, <2>1, Joined
<1>5. Then(Then(a, b), Append(d, v)) = Append(s, v)
  BY <1>1, <1>2, Joined
<1> QED
  BY <1>3, <1>4, <1>5, Zenon

(* A receive takes the first value of the buffer, whose place that of the   *)
(* first sender takes: what was accepted stays as it is.                    *)
LEMMA Taken ==
    ASSUME NEW a \in Seq(Nat), NEW b \in Seq(Nat), NEW d \in Seq(Nat), b # <<>>
    PROVE  LET s == Then(Then(a, b), d)
               e == Append(a, Head(b)) IN
           /\ Then(Then(e, Tail(b)), d) = s
           /\ d # <<>> => Then(Then(e, Append(Tail(b), Head(d))), Tail(d)) = s
           /\ Len(a) < Len(s)
<1> DEFINE s == Then(Then(a, b), d)
           e == Append(a, Head(b))
           x == <<Head(b)>>
           u == Tail(b)
<1>1. x \in Seq(Nat) /\ u \in Seq(Nat) /\ b = Then(x, u) /\ e = Then(a, x) /\ e \in Seq(Nat)
  BY HeadAndTail, OneMore
<1> HIDE DEF x, u, e
<1>2. Then(e, u) = Then(a, b)
  BY <1>1, Joined
<1>3. ASSUME d # <<>> PROVE Then(Then(e, Append(u, Head(d))), Tail(d)) = s
  <2> DEFINE y == <<Head(d)>>
             w == Tail(d)
  <2>1. y \in Seq(Nat) /\ w \in Seq(Nat) /\ d = Then(y, w) /\ Append(u, Head(d)) = Then(u, y)
    BY <1>1, <1>3, HeadAndTail, OneMore
  <2> HIDE DEF y, w
  <2>2. Then(e, Then(u, y)) = Then(Then(a, b), y)
    BY <1>1, <1>2, <2>1, Joined
  <2>3. Then(a, b) \in Seq(Nat)
    BY Joined
  <2>4. Then(Then(Then(a, b), y), w) = Then(Then(a, b), Then(y, w))
    BY <2>1, <2>3, Joined
  <2>5. Then(Then(e, Append(u, Head(d))), w) = s
    BY <2>1, <2>2, <2>4, Zenon
  <2> QED
    BY <2>5, Zenon DEF w
<1>4. Len(a) < Len(s)
  <2>1. Len(a) \in Nat /\ Len(b) \in Nat \ {0} /\ Len(d) \in Nat
    BY EmptySeq
  <2>2. Len(s) = (Len(a) + Len(b)) + Len(d)
    BY Lengths
  <2> QED
    BY <2>1, <2>2
<1>5. /\ Then(Then(e, u), d) = s
      /\ d # <<>> => Then(Then(e, Append(u, Head(d))), Tail(d)) = s
  BY <1>2, <1>3, Zenon
<1> QED
  BY <1>4, <1>5, Zenon DEF u, e

(* The values of blocked senders.                                           *)
Pending(s) == [i \in DOMAIN s |-> s[i].m]

LEMMA PendingValues ==
    ASSUME NEW s \in Seq(Waiting)
    PROVE  /\ Pending(s) \in Seq(Nat)
           /\ s = <<>> => Pending(s) = <<>>
           /\ \A g \in Goroutines, v \in Nat :
                 Pending(Append(s, [by |-> g, m |-> v])) = Append(Pending(s), v)
           /\ s # <<>> => /\ Pending(s) # <<>> /\ Head(s) \in Waiting
                          /\ Tail(s) \in Seq(Waiting)
                          /\ Pending(Tail(s)) = Tail(Pending(s))
                          /\ Head(Pending(s)) = Head(s).m
<1>1. ASSUME NEW t \in Seq(Waiting)
      PROVE  /\ Len(t) \in Nat /\ Pending(t) \in Seq(Nat) /\ Len(Pending(t)) = Len(t)
             /\ \A i \in 1..Len(t) : Pending(t)[i] = t[i].m
  <2>0. Len(t) \in Nat /\ DOMAIN t = 1..Len(t) /\ \A i \in 1..Len(t) : t[i] \in Waiting
    BY LenProperties, ElementOfSeq
  <2>1. Len(t) \in Nat /\ DOMAIN t = 1..Len(t) /\ \A i \in 1..Len(t) : t[i].m \in Nat
    BY <2>0 DEF Waiting
  <2> QED
    BY <2>1 DEF Pending
<1>2. s = <<>> => Pending(s) = <<>>
  BY <1>1, EmptySeq
<1>3. ASSUME NEW g \in Goroutines, NEW v \in Nat
      PROVE  Pending(Append(s, [by |-> g, m |-> v])) = Append(Pending(s), v)
  <2> DEFINE x == [by |-> g, m |-> v]
             t == Append(s, x)
             u == Append(Pending(s), v)
  <2>1. x \in Waiting /\ x.m = v
    BY DEF Waiting
  <2> HIDE DEF x
  <2>2. t \in Seq(Waiting) /\ Len(t) = Len(s) + 1 /\ t[Len(s) + 1] = x /\ \A i \in 1..Len(s) : t[i] = s[i]
    BY <2>1, AppendFacts
  <2>3. /\ u \in Seq(Nat) /\ Len(u) = Len(s) + 1 /\ u[Len(s) + 1] = v
        /\ \A i \in 1..Len(s) : u[i] = Pending(s)[i]
    BY <1>1, AppendFacts
  <2> HIDE DEF t, u
  <2>4. ASSUME NEW i \in 1..Len(s) + 1 PROVE Pending(t)[i] = u[i]
    <3>1. Len(s) \in Nat /\ Pending(t)[i] = t[i].m
      BY <1>1, <2>2
    <3>2. i \in 1..Len(s) => Pending(s)[i] = s[i].m
      BY <1>1
    <3>3. i \in 1..Len(s) \/ i = Len(s) + 1
      BY <3>1
    <3> QED
      BY <2>1, <2>2, <2>3, <3>1, <3>2, <3>3
  <2>5. Pending(t) = u
    BY <1>1, <2>2, <2>3, <2>4, SeqEqual
  <2> QED
    BY <2>5 DEF t, u, x
<1>4. ASSUME s # <<>>
      PROVE  /\ Pending(s) # <<>> /\ Head(s) \in Waiting /\ Tail(s) \in Seq(Waiting)
             /\ Pending(Tail(s)) = Tail(Pending(s)) /\ Head(Pending(s)) = Head(s).m
  <2> DEFINE t == Tail(s)
             p == Pending(s)
             u == Tail(p)
  <2>1. Len(s) \in Nat \ {0}
    BY <1>4, EmptySeq
  <2>2. p \in Seq(Nat) /\ Len(p) = Len(s) /\ p # <<>> /\ \A i \in 1..Len(s) : p[i] = s[i].m
    BY <1>1, <2>1, EmptySeq
  <2>3. /\ Head(s) \in Waiting /\ Head(s) = s[1] /\ t \in Seq(Waiting) /\ Len(t) = Len(s) - 1
        /\ \A i \in 1..Len(s) - 1 : t[i] = s[i + 1]
    BY <1>4, <2>1, HeadTailProperties
  <2> HIDE DEF p
  <2>4. /\ Head(p) = p[1] /\ u \in Seq(Nat) /\ Len(u) = Len(s) - 1
        /\ \A i \in 1..Len(s) - 1 : u[i] = p[i + 1]
    BY <2>1, <2>2, HeadTailProperties
  <2> HIDE DEF t, u
  <2>5. ASSUME NEW i \in 1..Len(s) - 1 PROVE Pending(t)[i] = u[i]
    <3>1. Pending(t)[i] = t[i].m
      BY <1>1, <2>3
    <3>2. t[i] = s[i + 1] /\ u[i] = p[i + 1] /\ i + 1 \in 1..Len(s)
      BY <2>1, <2>3, <2>4
    <3> QED
      BY <2>2, <3>1, <3>2
  <2>6. Pending(t) = u
    BY <1>1, <2>3, <2>4, <2>5, SeqEqual
  <2> QED
    BY <2>1, <2>2, <2>3, <2>4, <2>6 DEF t, u, p
<1> QED
  BY <1>1, <1>2, <1>3, <1>4

-----------------------------------------------------------------------------
(* A send and a receive, as steps of the channel and of the promise. *)

AcceptedOf(c) == Then(Then(got[c], queue[c]), Pending(sendq[c]))

LEMMA AcceptedType ==
    ASSUME ChannelTypes, NEW c \in Channels
    PROVE  /\ got[c] \in Seq(Nat) /\ queue[c] \in Seq(Nat) /\ sendq[c] \in Seq(Waiting)
           /\ Pending(sendq[c]) \in Seq(Nat) /\ recvq[c] \in Seq(Goroutines)
           /\ AcceptedOf(c) \in Seq(Nat) /\ Len(AcceptedOf(c)) \in Nat /\ Len(got[c]) \in Nat
<1>1. got[c] \in Seq(Nat) /\ queue[c] \in Seq(Nat) /\ sendq[c] \in Seq(Waiting) /\ recvq[c] \in Seq(Goroutines)
  BY DEF ChannelTypes
<1>2. Pending(sendq[c]) \in Seq(Nat)
  BY <1>1, PendingValues
<1>3. AcceptedOf(c) \in Seq(Nat)
  BY <1>1, <1>2, Joined DEF AcceptedOf
<1> QED
  BY <1>1, <1>2, <1>3

(* Nothing happens to the other channels.                                   *)
OthersKept(c) ==
    \A d \in Channels \ {c} : got'[d] = got[d] /\ queue'[d] = queue[d] /\ sendq'[d] = sendq[d]

(* v is accepted, and at once taken if nothing is before it.                *)
Accepts(c, v) ==
    /\ OthersKept(c)
    /\ AcceptedOf(c)' = Append(AcceptedOf(c), v)
    /\ \/ Len(got'[c]) = Len(got[c])
       \/ Len(got'[c]) = Len(got[c]) + 1 /\ Len(got[c]) = Len(AcceptedOf(c))

(* The oldest value is taken.                                               *)
Takes(c) ==
    /\ OthersKept(c)
    /\ AcceptedOf(c)' = AcceptedOf(c)
    /\ Len(got'[c]) = Len(got[c]) + 1 /\ Len(got[c]) < Len(AcceptedOf(c))

LEMMA QueueStep ==
    ASSUME ChannelTypes, NEW c \in Channels, NEW v \in Nat, Accepts(c, v) \/ Takes(c)
    PROVE  Queue!FifoNext
<1> DEFINE acc == [d \in Channels |-> got[d] \o queue[d] \o PendingOf(d)]
           tak == [d \in Channels |-> Len(got[d])]
<1>1. \A d \in Channels : acc[d] = AcceptedOf(d) /\ acc'[d] = AcceptedOf(d)'
  BY DEF AcceptedOf, Then, Pending, PendingOf
<1>2. \A d \in Channels : tak[d] = Len(got[d]) /\ tak'[d] = Len(got'[d])
  OBVIOUS
<1>3. \A d \in Channels \ {c} : AcceptedOf(d)' = AcceptedOf(d) /\ Len(got'[d]) = Len(got[d])
  BY DEF Accepts, Takes, OthersKept, AcceptedOf
<1>4. AcceptedOf(c) \in Seq(Nat) /\ Len(AcceptedOf(c)) \in Nat
  BY AcceptedType
<1>5. /\ SubSeq(Append(AcceptedOf(c), v), 1, Len(AcceptedOf(c))) = AcceptedOf(c)
      /\ Len(Append(AcceptedOf(c), v)) = Len(AcceptedOf(c)) + 1
      /\ SubSeq(AcceptedOf(c), 1, Len(AcceptedOf(c))) = AcceptedOf(c)
  BY <1>4, OneMore, SubSeqFull
<1> HIDE DEF acc, tak
<1>6. /\ \A d \in Channels \ {c} : acc'[d] = acc[d] /\ tak'[d] = tak[d]
      /\ SubSeq(acc'[c], 1, Len(acc[c])) = acc[c]
  BY <1>1, <1>2, <1>3, <1>5 DEF Accepts, Takes
<1>7. \/ Len(acc'[c]) = Len(acc[c]) + 1 /\ tak'[c] = tak[c]
      \/ tak[c] < Len(acc[c]) /\ acc'[c] = acc[c] /\ tak'[c] = tak[c] + 1
      \/ tak[c] = Len(acc[c]) /\ Len(acc'[c]) = Len(acc[c]) + 1 /\ tak'[c] = tak[c] + 1
  BY <1>1, <1>2, <1>5 DEF Accepts, Takes
<1> QED
  BY <1>6, <1>7 DEF Queue!FifoNext, Queue!Only, Queue!Accept, Queue!Take, Queue!Handover, acc, tak

NotStranded(c) ==
    /\ recvq[c] # <<>> => queue[c] = <<>> /\ sendq[c] = <<>>
    /\ sendq[c] # <<>> => Len(queue[c]) = Capacity
    /\ Len(queue[c]) <= Capacity

(* Channel c gets the buffer q, the senders s and the receivers r, its      *)
(* receivers have got t, and nobody at it is stranded.                      *)
Becomes(c, q, s, r, t) ==
    /\ q \in Seq(Nat) /\ s \in Seq(Waiting) /\ r \in Seq(Goroutines) /\ t \in Seq(Nat)
    /\ sends' \in Nat
    /\ queue' = [queue EXCEPT ![c] = q] /\ sendq' = [sendq EXCEPT ![c] = s]
    /\ recvq' = [recvq EXCEPT ![c] = r] /\ got' = [got EXCEPT ![c] = t]
    /\ r # <<>> => q = <<>> /\ s = <<>>
    /\ s # <<>> => Len(q) = Capacity
    /\ Len(q) <= Capacity

LEMMA OneChannel ==
    ASSUME ChannelTypes, NoneStranded, NEW c \in Channels, NEW q, NEW s, NEW r, NEW t,
           Becomes(c, q, s, r, t)
    PROVE  /\ ChannelTypes' /\ NoneStranded' /\ OthersKept(c)
           /\ got'[c] = t /\ queue'[c] = q /\ sendq'[c] = s
<1> USE DEF Becomes
<1>1. /\ queue' \in [Channels -> Seq(Nat)] /\ sendq' \in [Channels -> Seq(Waiting)]
      /\ recvq' \in [Channels -> Seq(Goroutines)] /\ got' \in [Channels -> Seq(Nat)]
  BY DEF ChannelTypes
<1>2. queue'[c] = q /\ sendq'[c] = s /\ recvq'[c] = r /\ got'[c] = t
  BY DEF ChannelTypes
<1>3. ASSUME NEW d \in Channels \ {c}
      PROVE  got'[d] = got[d] /\ queue'[d] = queue[d] /\ sendq'[d] = sendq[d] /\ recvq'[d] = recvq[d]
  BY <1>3 DEF ChannelTypes
<1>4. ASSUME NEW d \in Channels PROVE NotStranded(d)'
  <2>1. CASE d = c
    BY <1>2, <2>1 DEF NotStranded
  <2>2. CASE d # c
    BY <1>3, <2>2 DEF NoneStranded, NotStranded
  <2> QED
    BY <2>1, <2>2
<1> QED
  BY <1>1, <1>2, <1>3, <1>4 DEF ChannelTypes, NoneStranded, NotStranded, OthersKept

LEMMA NoChange ==
    ASSUME ChannelTypes, NEW c \in Channels
    PROVE  /\ queue = [queue EXCEPT ![c] = queue[c]] /\ sendq = [sendq EXCEPT ![c] = sendq[c]]
           /\ recvq = [recvq EXCEPT ![c] = recvq[c]] /\ got = [got EXCEPT ![c] = got[c]]
BY DEF ChannelTypes

LEMMA SendKeeps ==
    ASSUME ChannelTypes, NoneStranded, NEW g \in Goroutines, NEW c \in Channels, Send(g, c)
    PROVE  ChannelTypes' /\ NoneStranded' /\ Accepts(c, sends + 1)
<1> DEFINE v == sends + 1
           a == got[c]
           b == queue[c]
           d == sendq[c]
           r == recvq[c]
           p == Pending(d)
           acc == AcceptedOf(c)
<1>0. v \in Nat /\ sends' = v /\ sends' \in Nat
  BY DEF ChannelTypes, Send
<1>1. /\ a \in Seq(Nat) /\ b \in Seq(Nat) /\ d \in Seq(Waiting) /\ p \in Seq(Nat)
      /\ r \in Seq(Goroutines) /\ acc = Then(Then(a, b), p)
      /\ Len(a) \in Nat /\ Len(b) \in Nat /\ acc \in Seq(Nat)
  BY AcceptedType DEF AcceptedOf
<1>2. /\ r # <<>> => b = <<>> /\ d = <<>>
      /\ d # <<>> => Len(b) = Capacity
      /\ Len(b) <= Capacity
  BY DEF NoneStranded
<1>4. /\ d = <<>> => p = <<>>
      /\ Pending(Append(d, [by |-> g, m |-> v])) = Append(p, v)
  BY <1>0, <1>1, PendingValues
<1>5. /\ queue = [queue EXCEPT ![c] = b] /\ sendq = [sendq EXCEPT ![c] = d]
      /\ recvq = [recvq EXCEPT ![c] = r] /\ got = [got EXCEPT ![c] = a]
  BY NoChange
<1>6. \/ /\ r # <<>> /\ queue' = queue /\ sendq' = sendq
         /\ recvq' = [recvq EXCEPT ![c] = Tail(r)] /\ got' = [got EXCEPT ![c] = Append(a, v)]
      \/ /\ r = <<>> /\ Len(b) < Capacity /\ sendq' = sendq /\ recvq' = recvq /\ got' = got
         /\ queue' = [queue EXCEPT ![c] = Append(b, v)]
      \/ /\ r = <<>> /\ Len(b) >= Capacity /\ queue' = queue /\ recvq' = recvq /\ got' = got
         /\ sendq' = [sendq EXCEPT ![c] = Append(d, [by |-> g, m |-> v])]
  BY DEF Send
<1>8. acc = AcceptedOf(c) /\ a = got[c] /\ v = sends + 1
  OBVIOUS
<1> HIDE DEF a, b, d, r, p, acc, v
<1>9. /\ p = <<>> /\ b = <<>> => Then(Then(Append(a, v), b), p) = Append(acc, v)
      /\ p = <<>> => Then(Then(a, Append(b, v)), p) = Append(acc, v)
      /\ Then(Then(a, b), Append(p, v)) = Append(acc, v)
  <2>1. v \in Nat /\ a \in Seq(Nat) /\ b \in Seq(Nat) /\ p \in Seq(Nat)
    BY <1>0, <1>1, Zenon
  <2>2. /\ p = <<>> /\ b = <<>> => Then(Then(Append(a, v), b), p) = Append(Then(Then(a, b), p), v)
        /\ p = <<>> => Then(Then(a, Append(b, v)), p) = Append(Then(Then(a, b), p), v)
        /\ Then(Then(a, b), Append(p, v)) = Append(Then(Then(a, b), p), v)
    BY <2>1, Accepted, ZenonT(60)
  <2> QED
    BY <1>1, <2>2, Zenon
<1>10. CASE /\ r # <<>> /\ queue' = queue /\ sendq' = sendq
            /\ recvq' = [recvq EXCEPT ![c] = Tail(r)] /\ got' = [got EXCEPT ![c] = Append(a, v)]
  <2>2. Append(a, v) \in Seq(Nat) /\ Len(Append(a, v)) = Len(a) + 1 /\ Tail(r) \in Seq(Goroutines)
    BY <1>0, <1>1, <1>10, OneMore, HeadTailProperties
  <2>3. queue' = [queue EXCEPT ![c] = b] /\ sendq' = [sendq EXCEPT ![c] = d]
    BY <1>5, <1>10
  <2>4. /\ ChannelTypes' /\ NoneStranded' /\ OthersKept(c) /\ got'[c] = Append(a, v)
        /\ queue'[c] = b /\ sendq'[c] = d
    <3>1. Becomes(c, b, d, Tail(r), Append(a, v))
      BY <1>0, <1>1, <1>2, <1>10, <2>2, <2>3 DEF Becomes
    <3> QED
      BY <3>1, OneChannel, Zenon
  <2>4a. AcceptedOf(c)' = Then(Then(Append(a, v), b), Pending(d))
    BY <2>4 DEF AcceptedOf
  <2>5. Len(a) = Len(acc)
    <3>1. Len(acc) = (Len(a) + Len(b)) + Len(p)
      BY <1>1, Lengths, ZenonT(60)
    <3>2. Len(b) = 0 /\ Len(p) = 0
      BY <1>2, <1>4, <1>10
    <3> QED
      BY <1>1, <3>1, <3>2
  <2>6. AcceptedOf(c)' = Append(acc, v)
    BY <1>2, <1>4, <1>9, <1>10, <2>4a DEF p
  <2> QED
    BY <1>8, <2>2, <2>4, <2>5, <2>6 DEF Accepts
<1>11. CASE /\ r = <<>> /\ Len(b) < Capacity /\ sendq' = sendq /\ recvq' = recvq /\ got' = got
            /\ queue' = [queue EXCEPT ![c] = Append(b, v)]
  <2>1. d = <<>> /\ Append(b, v) \in Seq(Nat) /\ Len(Append(b, v)) <= Capacity
    BY <1>0, <1>1, <1>2, <1>11, OneMore, CapacityAssumption
  <2>2. /\ sendq' = [sendq EXCEPT ![c] = d] /\ recvq' = [recvq EXCEPT ![c] = r]
        /\ got' = [got EXCEPT ![c] = a]
    BY <1>5, <1>11
  <2>3. /\ ChannelTypes' /\ NoneStranded' /\ OthersKept(c) /\ got'[c] = a
        /\ queue'[c] = Append(b, v) /\ sendq'[c] = d
    <3>1. Becomes(c, Append(b, v), d, r, a)
      BY <1>0, <1>1, <1>11, <2>1, <2>2 DEF Becomes
    <3> QED
      BY <3>1, OneChannel, Zenon
  <2>3a. AcceptedOf(c)' = Then(Then(a, Append(b, v)), Pending(d))
    BY <2>3 DEF AcceptedOf
  <2>4. AcceptedOf(c)' = Append(acc, v)
    BY <1>4, <1>9, <2>1, <2>3a DEF p
  <2> QED
    BY <1>8, <2>3, <2>4 DEF Accepts
<1>12. CASE /\ r = <<>> /\ Len(b) >= Capacity /\ queue' = queue /\ recvq' = recvq /\ got' = got
            /\ sendq' = [sendq EXCEPT ![c] = Append(d, [by |-> g, m |-> v])]
  <2> DEFINE x == [by |-> g, m |-> v]
  <2>1. x \in Waiting
    BY <1>0 DEF Waiting
  <2>2. Pending(Append(d, x)) = Append(p, v) /\ sendq' = [sendq EXCEPT ![c] = Append(d, x)]
    BY <1>4, <1>12, SMTT(30)
  <2> HIDE DEF x
  <2>3. Append(d, x) \in Seq(Waiting) /\ Append(d, x) # <<>>
    BY <1>1, <2>1, AppendFacts
  <2>4. Len(b) = Capacity /\ Len(b) <= Capacity
    BY <1>1, <1>2, <1>12, CapacityAssumption
  <2>5. /\ queue' = [queue EXCEPT ![c] = b] /\ recvq' = [recvq EXCEPT ![c] = r]
        /\ got' = [got EXCEPT ![c] = a]
    BY <1>5, <1>12
  <2>6. /\ ChannelTypes' /\ NoneStranded' /\ OthersKept(c) /\ got'[c] = a
        /\ queue'[c] = b /\ sendq'[c] = Append(d, x)
    <3>1. Becomes(c, b, Append(d, x), r, a)
      BY <1>0, <1>1, <1>12, <2>2, <2>3, <2>4, <2>5 DEF Becomes
    <3> QED
      BY <3>1, OneChannel, Zenon
  <2>6a. AcceptedOf(c)' = Then(Then(a, b), Pending(Append(d, x)))
    BY <2>6 DEF AcceptedOf
  <2>7. AcceptedOf(c)' = Append(acc, v)
    BY <1>9, <2>2, <2>6a
  <2> QED
    BY <1>8, <2>6, <2>7 DEF Accepts
<1> QED
  BY <1>6, <1>10, <1>11, <1>12

LEMMA ReceiveKeeps ==
    ASSUME ChannelTypes, NoneStranded, NEW g \in Goroutines, NEW c \in Channels, Receive(g, c)
    PROVE  ChannelTypes' /\ NoneStranded' /\ (Takes(c) \/ UNCHANGED <<got, queue, sendq>>)
<1> DEFINE a == got[c]
           b == queue[c]
           d == sendq[c]
           r == recvq[c]
           p == Pending(d)
           acc == AcceptedOf(c)
<1>0. sends' \in Nat
  BY DEF ChannelTypes, Receive
<1>1. /\ a \in Seq(Nat) /\ b \in Seq(Nat) /\ d \in Seq(Waiting) /\ p \in Seq(Nat)
      /\ r \in Seq(Goroutines) /\ acc = Then(Then(a, b), p) /\ Len(a) \in Nat /\ Len(b) \in Nat
  BY AcceptedType DEF AcceptedOf
<1>2. /\ r # <<>> => b = <<>> /\ d = <<>>
      /\ d # <<>> => Len(b) = Capacity
      /\ Len(b) <= Capacity
  BY DEF NoneStranded
<1>3. d # <<>> => /\ p # <<>> /\ Head(d) \in Waiting /\ Tail(d) \in Seq(Waiting)
                  /\ Pending(Tail(d)) = Tail(p) /\ Head(p) = Head(d).m
  BY <1>1, PendingValues
<1>4. /\ queue = [queue EXCEPT ![c] = b] /\ sendq = [sendq EXCEPT ![c] = d]
      /\ recvq = [recvq EXCEPT ![c] = r] /\ got = [got EXCEPT ![c] = a]
  BY NoChange
<1>5. \/ /\ b # <<>> /\ recvq' = recvq /\ got' = [got EXCEPT ![c] = Append(a, Head(b))]
         /\ \/ d = <<>> /\ queue' = [queue EXCEPT ![c] = Tail(b)] /\ sendq' = sendq
            \/ /\ d # <<>>
               /\ queue' = [queue EXCEPT ![c] = Append(Tail(b), Head(d).m)]
               /\ sendq' = [sendq EXCEPT ![c] = Tail(d)]
      \/ /\ b = <<>> /\ queue' = queue /\ sendq' = sendq /\ got' = got
         /\ recvq' = [recvq EXCEPT ![c] = Append(r, g)]
  BY DEF Receive
<1>7. acc = AcceptedOf(c) /\ a = got[c]
  OBVIOUS
<1> HIDE DEF a, b, d, r, p, acc
<1>8. CASE b # <<>> /\ recvq' = recvq /\ got' = [got EXCEPT ![c] = Append(a, Head(b))]
  <2> DEFINE x == Head(b)
             u == Tail(b)
  <2>1. x \in Nat /\ u \in Seq(Nat) /\ Len(u) = Len(b) - 1
    BY <1>1, <1>8, HeadAndTail
  <2>2. /\ Then(Then(Append(a, x), u), p) = acc
        /\ p # <<>> => Then(Then(Append(a, x), Append(u, Head(p))), Tail(p)) = acc
        /\ Len(a) < Len(acc)
    <3>1. a \in Seq(Nat) /\ b \in Seq(Nat) /\ p \in Seq(Nat) /\ b # <<>>
      BY <1>1, <1>8, Zenon
    <3>2. /\ Then(Then(Append(a, x), u), p) = Then(Then(a, b), p)
          /\ p # <<>> => Then(Then(Append(a, x), Append(u, Head(p))), Tail(p)) = Then(Then(a, b), p)
          /\ Len(a) < Len(Then(Then(a, b), p))
      BY <3>1, Taken, Zenon
    <3> QED
      BY <1>1, <3>2, Zenon
  <2> HIDE DEF x, u
  <2>3. Append(a, x) \in Seq(Nat) /\ Len(Append(a, x)) = Len(a) + 1
    BY <1>1, <2>1, OneMore
  <2>4. r = <<>> => recvq' = [recvq EXCEPT ![c] = r]
    BY <1>4, <1>8
  <2>5. r = <<>>
    BY <1>2, <1>8
  <2>6. got' = [got EXCEPT ![c] = Append(a, x)]
    BY <1>8 DEF x
  <2>7. CASE d = <<>> /\ queue' = [queue EXCEPT ![c] = u] /\ sendq' = sendq
    <3>1. sendq' = [sendq EXCEPT ![c] = d]
      BY <1>4, <2>7
    <3>0. Len(u) <= Capacity
      BY <1>1, <1>2, <2>1, CapacityAssumption
    <3>2. Becomes(c, u, d, r, Append(a, x))
      BY <1>0, <1>1, <2>1, <2>3, <2>4, <2>5, <2>6, <2>7, <3>0, <3>1 DEF Becomes
    <3>3. /\ ChannelTypes' /\ NoneStranded' /\ OthersKept(c)
          /\ got'[c] = Append(a, x) /\ queue'[c] = u /\ sendq'[c] = d
      BY <3>2, OneChannel, Zenon
    <3>4. AcceptedOf(c)' = acc
      BY <2>2, <3>3 DEF AcceptedOf, p
    <3> QED
      BY <1>7, <2>2, <2>3, <3>3, <3>4 DEF Takes
  <2>8. CASE /\ d # <<>> /\ queue' = [queue EXCEPT ![c] = Append(u, Head(d).m)]
             /\ sendq' = [sendq EXCEPT ![c] = Tail(d)]
    <3>0. Head(d).m \in Nat
      BY <1>3, <2>8 DEF Waiting
    <3>1. Append(u, Head(d).m) \in Seq(Nat) /\ Len(Append(u, Head(d).m)) = Len(b)
      BY <1>1, <2>1, <3>0, OneMore
    <3>2. Becomes(c, Append(u, Head(d).m), Tail(d), r, Append(a, x))
      BY <1>0, <1>1, <1>2, <1>3, <2>3, <2>4, <2>5, <2>6, <2>8, <3>1 DEF Becomes
    <3>3. /\ ChannelTypes' /\ NoneStranded' /\ OthersKept(c)
          /\ got'[c] = Append(a, x) /\ queue'[c] = Append(u, Head(d).m) /\ sendq'[c] = Tail(d)
      BY <3>2, OneChannel, Zenon
    <3>4. AcceptedOf(c)' = acc
      BY <1>3, <2>2, <2>8, <3>3 DEF AcceptedOf
    <3> QED
      BY <1>7, <2>2, <2>3, <3>3, <3>4 DEF Takes
  <2> QED
    BY <1>5, <1>8, <2>7, <2>8 DEF u
<1>9. CASE /\ b = <<>> /\ queue' = queue /\ sendq' = sendq /\ got' = got
           /\ recvq' = [recvq EXCEPT ![c] = Append(r, g)]
  <2>1. d = <<>>
    <3>1. Len(b) = 0
      BY <1>9
    <3> QED
      BY <1>2, <3>1, CapacityAssumption
  <2>2. /\ queue' = [queue EXCEPT ![c] = b] /\ sendq' = [sendq EXCEPT ![c] = d]
        /\ got' = [got EXCEPT ![c] = a]
    BY <1>4, <1>9
  <2>3. Append(r, g) \in Seq(Goroutines)
    BY <1>1, AppendFacts
  <2>4. Becomes(c, b, d, Append(r, g), a)
    BY <1>0, <1>1, <1>2, <1>9, <2>1, <2>2, <2>3 DEF Becomes
  <2> QED
    BY <1>9, <2>4, OneChannel
<1> QED
  BY <1>5, <1>8, <1>9

-----------------------------------------------------------------------------
(* All steps. *)

LEMMA StartedElsewhere ==
    ASSUME CasesReceive, NEW ws, NEW r, Start(ws, r), r # "case", UNCHANGED source
    PROVE  CasesReceive'
<1>1. \A w \in Workers : role'[w] = "case" => role[w] = "case"
  BY DEF Start, Goroutines
<1> QED
  BY <1>1 DEF CasesReceive

LEMMA SelectKeeps ==
    ASSUME CasesReceive, NEW g \in Goroutines, Select(g)
    PROVE  CasesReceive'
<1>0. PICK ws \in SUBSET Workers : \E from \in [ws -> Channels] :
        /\ Start(ws, "case")
        /\ source' = [w \in Workers |->
                        IF w \in ws THEN [turn |-> selects + 1, from |-> from[w]] ELSE source[w]]
  BY DEF Select
<1>1. PICK from \in [ws -> Channels] :
        /\ Start(ws, "case")
        /\ source' = [w \in Workers |->
                        IF w \in ws THEN [turn |-> selects + 1, from |-> from[w]] ELSE source[w]]
  BY <1>0
<1>2. ASSUME NEW w \in Workers, role'[w] = "case" PROVE source'[w].from \in Channels
  <2>1. CASE w \in ws
    BY <1>1, <2>1
  <2>2. CASE w \notin ws
    <3>1. role[w] = "case"
      BY <1>1, <1>2, <2>2 DEF Start, Goroutines
    <3> QED
      BY <1>1, <2>2, <3>1 DEF CasesReceive
  <2> QED
    BY <2>1, <2>2
<1> QED
  BY <1>2 DEF CasesReceive

LEMMA ChannelStep ==
    ASSUME ChannelInv, [TasksNext]_vars
    PROVE  ChannelInv' /\ [Queue!FifoNext]_<<[c \in Channels |-> got[c] \o queue[c] \o PendingOf(c)],
                                             [c \in Channels |-> Len(got[c])]>>
<1> DEFINE Same == UNCHANGED <<got, queue, sendq>>
           Roles_ == UNCHANGED <<role, source>>
           Kept == \/ ChannelTypes' /\ NoneStranded' /\ CasesReceive' /\ (Queue!FifoNext \/ Same)
                   \/ UNCHANGED chanVars /\ CasesReceive'
<1> USE DEF ChannelInv
<1>1. UNCHANGED chanVars => ChannelTypes' /\ NoneStranded' /\ Same
  BY DEF chanVars, ChannelTypes, NoneStranded
<1>2. Same => UNCHANGED <<[c \in Channels |-> got[c] \o queue[c] \o PendingOf(c)],
                          [c \in Channels |-> Len(got[c])]>>
  BY DEF PendingOf
<1>3. Roles_ => CasesReceive'
  BY DEF CasesReceive
<1>4. ASSUME NEW g \in Goroutines, NEW c \in Channels, Send(g, c) \/ Recv(g, c)
      PROVE  ChannelTypes' /\ NoneStranded' /\ CasesReceive' /\ (Queue!FifoNext \/ Same)
  <2>1. Roles_
    BY <1>4 DEF Send, Recv, Receive, selectVars
  <2>2. sends + 1 \in Nat /\ 0 \in Nat
    BY DEF ChannelTypes
  <2> QED
    BY <1>3, <1>4, <2>1, <2>2, SendKeeps, ReceiveKeeps, QueueStep DEF Recv
<1>5. ASSUME NEW w \in Workers, CaseReceive(w)
      PROVE  ChannelTypes' /\ NoneStranded' /\ CasesReceive' /\ (Queue!FifoNext \/ Same)
  <2>1. Roles_ /\ w \in Goroutines /\ source[w].from \in Channels /\ Receive(w, source[w].from)
    BY <1>5 DEF CaseReceive, Receive, selectVars, CasesReceive, Goroutines
  <2>2. \A c \in Channels : Receive(w, c) => ChannelTypes' /\ NoneStranded' /\ (Queue!FifoNext \/ Same)
    BY <2>1, ReceiveKeeps, QueueStep
  <2> QED
    BY <1>3, <2>1, <2>2
<1>6. ASSUME NEW g \in Goroutines, Select(g) PROVE UNCHANGED chanVars /\ CasesReceive'
  BY <1>6, SelectKeeps DEF Select
<1>7. ASSUME NEW w \in Workers,
             Request(w) \/ \E g \in Goroutines : Spawn(g, w) \/ SetTimeout(g, w) \/ SetInterval(g, w)
      PROVE  UNCHANGED chanVars /\ CasesReceive'
  <2>1. UNCHANGED chanVars /\ UNCHANGED source
    BY <1>7 DEF Spawn, SetTimeout, SetInterval, Request, selectVars
  <2>2. \E r \in {"spawn", "timeout", "interval", "handler"} : Start({w}, r)
    BY <1>7 DEF Spawn, SetTimeout, SetInterval, Request
  <2> QED
    BY <2>1, <2>2, StartedElsewhere
<1>8. ASSUME NEW g \in Goroutines,
             Listen(g) \/ CloseServer(g) \/ Panic(g) \/ Choose(g) \/ \E w \in Workers : ClearInterval(g, w)
      PROVE  UNCHANGED chanVars /\ CasesReceive'
  BY <1>3, <1>8 DEF ClearInterval, Listen, CloseServer, Panic, Choose, selectVars
<1>9. ASSUME NEW w \in Workers,
             Post(w) \/ Wake(w) \/ Tick(w) \/ TakeTick(w) \/ CallInterval(w) \/ Return(w)
      PROVE  UNCHANGED chanVars /\ CasesReceive'
  BY <1>3, <1>9 DEF Post, Wake, Tick, TakeTick, CallInterval, Return, selectVars
<1>10. ASSUME MainReturns \/ MainFails \/ ServeReturns \/ Exit \/ Deadlock \/ UNCHANGED vars
       PROVE  UNCHANGED chanVars /\ CasesReceive'
  BY <1>3, <1>10 DEF MainReturns, MainFails, ServeReturns, Exit, Deadlock, selectVars, vars
<1>11. Kept
  <2>1. ASSUME NEW g \in Goroutines, ScriptStep(g) \/ Choose(g)
        PROVE  \/ \E c \in Channels : Send(g, c) \/ Recv(g, c)
               \/ Select(g)
               \/ \E w \in Workers : Spawn(g, w) \/ SetTimeout(g, w) \/ SetInterval(g, w)
               \/ \E w \in Workers : ClearInterval(g, w)
               \/ Listen(g) \/ CloseServer(g) \/ Panic(g) \/ Choose(g)
    BY <2>1, Zenon DEF ScriptStep
  <2>2. ASSUME NEW g \in Goroutines, ScriptStep(g) \/ Choose(g) PROVE Kept
    BY <1>4, <1>6, <1>7, <1>8, <2>1, <2>2, Zenon
  <2>3. ASSUME NEW w \in Workers, RuntimeStep(w) \/ Request(w) \/ Return(w) PROVE Kept
    BY <1>5, <1>7, <1>9, <2>3, Zenon DEF RuntimeStep
  <2> QED
    BY <1>10, <2>2, <2>3, Zenon DEF TasksNext
<1> QED
  BY <1>1, <1>2, <1>11

LEMMA ChannelsInitially == TasksInit => ChannelInv /\ Queue!FifoInit
<1> SUFFICES ASSUME TasksInit PROVE ChannelInv /\ Queue!FifoInit
  OBVIOUS
<1>1. /\ queue = [c \in Channels |-> <<>>] /\ sendq = [c \in Channels |-> <<>>]
      /\ recvq = [c \in Channels |-> <<>>] /\ got = [c \in Channels |-> <<>>] /\ sends = 0
      /\ role = [g \in Goroutines |-> "script"]
  BY DEF TasksInit
<1>2. Len(<<>>) = 0 /\ \A S : <<>> \in Seq(S)
  BY EmptySeq
<1>3. ChannelTypes /\ CasesReceive /\ NoneStranded
  BY <1>1, <1>2, CapacityAssumption DEF ChannelTypes, CasesReceive, NoneStranded, Goroutines
<1>4. \A c \in Channels : got[c] \o queue[c] \o PendingOf(c) = <<>> /\ Len(got[c]) = 0
  <2>1. Pending(<<>>) = <<>>
    BY <1>2, PendingValues
  <2>2. Then(Then(<<>>, <<>>), <<>>) = <<>>
    BY <1>2, Joined
  <2> QED
    BY <1>1, <1>2, <2>1, <2>2 DEF PendingOf, Pending, Then
<1> QED
  BY <1>3, <1>4 DEF ChannelInv, Queue!FifoInit

(* What every step keeps of the channels.                                   *)
THEOREM ChannelsKeep == TasksSpec => []ChannelInv
<1>1. ChannelInv /\ [TasksNext]_vars => ChannelInv'
  BY ChannelStep
<1> QED
  BY <1>1, ChannelsInitially, PTL DEF TasksSpec

(* No goroutine waits at a channel for what is already there                *)
(* (functions.go:117-130): for any goroutines, channels and capacity.       *)
THEOREM NobodyStranded == TasksSpec => []NoneStranded
<1>1. ChannelInv => NoneStranded
  BY DEF ChannelInv
<1> QED
  BY <1>1, ChannelsKeep, PTL

(* Every channel is a FIFO channel (language-reference.md:645), whatever    *)
(* goroutines, selects and timers do at its ends.                           *)
THEOREM ChannelsAreFifo == TasksSpec => ImplementsFifo
<1>1. ChannelInv /\ [TasksNext]_vars
      => [Queue!FifoNext]_<<[c \in Channels |-> got[c] \o queue[c] \o PendingOf(c)],
                            [c \in Channels |-> Len(got[c])]>>
  BY ChannelStep
<1> QED
  BY <1>1, ChannelsInitially, ChannelsKeep, PTL DEF TasksSpec, ImplementsFifo, Queue!FifoSpec

-----------------------------------------------------------------------------
(* Goroutines and intervals. *)

States == {"none", "asleep", "runs", "posts", "fires", "over"} \cup Blocked

LEMMA KnownStates ==
    /\ \A x \in {"none", "asleep", "runs", "posts", "fires", "over"} \cup Blocked : x \in States
    /\ \A g \in Goroutines : Served(g) \in {"posts", "runs"} /\ Served(g) \in States
BY DEF States, Served

LEMMA OneMoves ==
    ASSUME pc \in [Goroutines -> States], NEW g \in Goroutines, NEW x \in States,
           pc' = [pc EXCEPT ![g] = x]
    PROVE  pc' \in [Goroutines -> States] /\ pc'[g] = x /\ \A h \in Goroutines \ {g} : pc'[h] = pc[h]
OBVIOUS

(* A cleared interval: its ticker is off, and the tick that the ticker      *)
(* holds, the call that is about to begin and those that have begun are two *)
(* at most.                                                                 *)
Cleared(w) ==
    /\ role[w] = "interval" /\ pc[w] # "none" /\ ~ticker[w].on /\ late[w] >= 0
    /\ late[w] + (IF ticker[w].tick THEN 1 ELSE 0) + (IF pc[w] = "fires" THEN 1 ELSE 0) <= 2

IntervalKept(w) ==
    /\ late[w] = -1 \/ Cleared(w)
    /\ role[w] = "interval" => pc[w] # "none"

IntervalInv ==
    /\ pc \in [Goroutines -> States]
    /\ ticker \in [Workers -> [on : BOOLEAN, tick : BOOLEAN]]
    /\ late \in [Workers -> Int]
    /\ \A w \in Workers : IntervalKept(w)

(* A step that leaves the tickers alone and begins no call.                 *)
Untimed ==
    /\ UNCHANGED timerVars
    /\ pc' \in [Goroutines -> States]
    /\ \A w \in Workers :
          /\ pc[w] # "none" => /\ role'[w] = role[w] /\ pc'[w] # "none"
                               /\ pc'[w] = "fires" => pc[w] = "fires"
          /\ role'[w] = "interval" => role[w] = "interval"

LEMMA UntimedKeeps ==
    ASSUME IntervalInv, Untimed
    PROVE  IntervalInv'
<1>1. ticker' = ticker /\ late' = late
  BY DEF Untimed, timerVars
<1>2. ASSUME NEW w \in Workers PROVE IntervalKept(w)'
  <2>0. IntervalKept(w) /\ (role'[w] = "interval" => role[w] = "interval" /\ pc'[w] # "none")
    BY DEF IntervalInv, IntervalKept, Untimed
  <2>1. CASE late[w] = -1
    BY <1>1, <2>0, <2>1 DEF IntervalKept
  <2>2. CASE Cleared(w)
    <3>1. /\ role'[w] = "interval" /\ pc'[w] # "none" /\ late[w] \in Int
          /\ pc'[w] = "fires" => pc[w] = "fires"
      BY <2>2 DEF Cleared, Untimed, IntervalInv
    <3> QED
      BY <1>1, <2>0, <2>2, <3>1 DEF Cleared, IntervalKept
  <2> QED
    BY <2>0, <2>1, <2>2 DEF IntervalKept
<1> QED
  BY <1>1, <1>2 DEF IntervalInv, Untimed

LEMMA SendUntimed ==
    ASSUME ChannelTypes, IntervalInv, NEW g \in Goroutines, NEW c \in Channels, Send(g, c)
    PROVE  Untimed
<1> DEFINE r == Head(recvq[c])
<1>1. UNCHANGED timerVars /\ role' = role
  BY DEF Send
<1>2. pc' = pc \/ (recvq[c] # <<>> /\ pc' = [pc EXCEPT ![r] = Served(r)]) \/ pc' = [pc EXCEPT ![g] = "sends"]
  BY DEF Send
<1>3. recvq[c] # <<>> => r \in Goroutines
  <2>1. recvq[c] \in Seq(Goroutines)
    BY DEF ChannelTypes
  <2>2. recvq[c] # <<>> => Len(recvq[c]) \in Nat \ {0}
    BY <2>1, EmptySeq
  <2> QED
    BY <2>1, <2>2, HeadTailProperties
<1> HIDE DEF r
<1>4. \A h \in Goroutines : Served(h) \in States /\ Served(h) \in {"posts", "runs"}
  BY KnownStates
<1>5. "sends" \in States
  BY DEF States, Blocked
<1>6. /\ pc' \in [Goroutines -> States]
      /\ \A h \in Goroutines : pc'[h] = pc[h] \/ pc'[h] \in {"posts", "runs", "sends"}
  BY <1>2, <1>3, <1>4, <1>5 DEF IntervalInv
<1> QED
  BY <1>1, <1>6 DEF Untimed, Goroutines

LEMMA ReceiveUntimed ==
    ASSUME ChannelTypes, IntervalInv, NEW g \in Goroutines, NEW c \in Channels, Receive(g, c)
    PROVE  Untimed
<1> DEFINE s == Head(sendq[c])
<1>1. UNCHANGED timerVars /\ role' = role
  BY DEF Receive
<1>2. \/ pc' = [pc EXCEPT ![g] = Served(g)] \/ pc' = [pc EXCEPT ![g] = "receives"]
      \/ sendq[c] # <<>> /\ pc' = [pc EXCEPT ![g] = Served(g), ![s.by] = "runs"]
  BY DEF Receive
<1>3. sendq[c] # <<>> => s.by \in Goroutines
  <2>1. sendq[c] \in Seq(Waiting)
    BY DEF ChannelTypes
  <2>2. sendq[c] # <<>> => s \in Waiting
    BY <2>1, PendingValues
  <2> QED
    BY <2>2 DEF Waiting
<1> HIDE DEF s
<1>4. Served(g) \in States /\ Served(g) \in {"posts", "runs"}
  BY KnownStates
<1>5. "receives" \in States /\ "runs" \in States
  BY DEF States, Blocked
<1>6. CASE pc' = [pc EXCEPT ![g] = Served(g)] \/ pc' = [pc EXCEPT ![g] = "receives"]
  <2>1. /\ pc' \in [Goroutines -> States]
        /\ \A h \in Goroutines : pc'[h] = pc[h] \/ pc'[h] \in {"posts", "runs", "receives"}
    BY <1>4, <1>5, <1>6, OneMoves DEF IntervalInv
  <2> QED
    BY <1>1, <2>1 DEF Untimed, Goroutines
<1>7. CASE sendq[c] # <<>> /\ pc' = [pc EXCEPT ![g] = Served(g), ![s.by] = "runs"]
  <2>1. /\ pc' \in [Goroutines -> States]
        /\ \A h \in Goroutines : pc'[h] = pc[h] \/ pc'[h] \in {"posts", "runs"}
    BY <1>3, <1>4, <1>5, <1>7 DEF IntervalInv
  <2> QED
    BY <1>1, <2>1 DEF Untimed, Goroutines
<1> QED
  BY <1>2, <1>6, <1>7

LEMMA SelectUntimed ==
    ASSUME IntervalInv, NEW g \in Goroutines, Select(g)
    PROVE  Untimed
<1>1. PICK ws \in SUBSET Workers :
        /\ Start(ws, "case")
        /\ pc' = [h \in Goroutines |-> IF h \in ws THEN "fires" ELSE IF h = g THEN "selects" ELSE pc[h]]
  BY DEF Select
<1>2. "fires" \in States /\ "selects" \in States
  BY DEF States, Blocked
<1>3. pc' \in [Goroutines -> States]
  BY <1>1, <1>2 DEF IntervalInv
<1>6. \A w \in Workers : role'[w] = "interval" => role[w] = "interval"
  BY <1>1 DEF Start, Goroutines
<1>4. ASSUME NEW w \in Workers, pc[w] # "none"
      PROVE  role'[w] = role[w] /\ (pc'[w] = pc[w] \/ pc'[w] = "selects")
  <2>1. w \notin ws /\ w \in Goroutines
    BY <1>1, <1>4 DEF Start, Goroutines
  <2> QED
    BY <1>1, <2>1 DEF Start
<1>5. UNCHANGED timerVars
  BY DEF Select
<1> QED
  BY <1>3, <1>4, <1>5, <1>6 DEF Untimed

LEMMA OtherUntimed ==
    ASSUME IntervalInv, NEW g \in Goroutines, NEW w \in Goroutines,
           \/ Spawn(g, w) \/ SetTimeout(g, w) \/ Request(w)
           \/ Wake(w) \/ Return(w) \/ Post(w) \/ Choose(g) \/ Panic(g) \/ MainReturns
           \/ Listen(g) \/ CloseServer(g) \/ MainFails \/ ServeReturns \/ Exit \/ Deadlock
           \/ UNCHANGED vars
    PROVE  Untimed
<1>1. {"runs", "asleep", "over", "ticks"} \subseteq States /\ Main \in Goroutines
  BY DEF States, Blocked, Goroutines
<1>2. CASE Spawn(g, w) \/ SetTimeout(g, w) \/ Request(w)
  <2>1. /\ UNCHANGED timerVars /\ \E x \in {"runs", "asleep"} : pc' = [pc EXCEPT ![w] = x]
        /\ \E r \in {"spawn", "timeout", "handler"} : Start({w}, r)
    BY <1>2 DEF Spawn, SetTimeout, Request
  <2>2. /\ pc[w] = "none" /\ \A h \in Goroutines \ {w} : role'[h] = role[h]
        /\ role'[w] # "interval"
    BY <2>1 DEF Start
  <2>3. pc' \in [Goroutines -> States] /\ \A h \in Goroutines \ {w} : pc'[h] = pc[h]
    BY <1>1, <2>1, OneMoves DEF IntervalInv
  <2>4. ASSUME NEW h \in Workers, pc[h] # "none"
        PROVE  role'[h] = role[h] /\ pc'[h] = pc[h]
    <3>1. h \in Goroutines \ {w}
      BY <2>2, <2>4 DEF Goroutines
    <3> QED
      BY <2>2, <2>3, <3>1
  <2>5. \A h \in Workers : role'[h] = "interval" => role[h] = "interval"
    BY <2>2 DEF Goroutines
  <2> QED
    BY <2>1, <2>3, <2>4, <2>5 DEF Untimed
<1>3. CASE Wake(w) \/ Return(w) \/ Post(w) \/ Choose(g) \/ Panic(g) \/ MainReturns
  <2>1. /\ UNCHANGED timerVars /\ role' = role
        /\ \/ pc' = pc
           \/ \E h \in Goroutines : \E x \in {"runs", "over", "ticks"} : pc' = [pc EXCEPT ![h] = x]
    BY <1>1, <1>3 DEF Wake, Return, Post, Choose, Panic, MainReturns
  <2>2. /\ pc' \in [Goroutines -> States]
        /\ \A h \in Goroutines : pc'[h] = pc[h] \/ pc'[h] \in {"runs", "over", "ticks"}
    <3>1. CASE pc' = pc
      BY <3>1 DEF IntervalInv
    <3>2. CASE \E h \in Goroutines : \E x \in {"runs", "over", "ticks"} : pc' = [pc EXCEPT ![h] = x]
      <4>0. PICK h \in Goroutines : \E x \in {"runs", "over", "ticks"} : pc' = [pc EXCEPT ![h] = x]
        BY <3>2
      <4>1. PICK x \in {"runs", "over", "ticks"} : pc' = [pc EXCEPT ![h] = x]
        BY <4>0
      <4> QED
        BY <1>1, <4>1, OneMoves DEF IntervalInv
    <3> QED
      BY <2>1, <3>1, <3>2
  <2> QED
    BY <2>1, <2>2 DEF Untimed, Goroutines
<1>4. CASE \/ Listen(g) \/ CloseServer(g) \/ MainFails \/ ServeReturns \/ Exit \/ Deadlock
           \/ UNCHANGED vars
  <2>1. UNCHANGED <<timerVars, pc, role>>
    BY <1>4 DEF Listen, CloseServer, MainFails, ServeReturns, Exit, Deadlock, vars
  <2> QED
    BY <2>1 DEF Untimed, IntervalInv
<1> QED
  BY <1>2, <1>3, <1>4

(* What changes one interval only.                                          *)
LEMMA OneInterval ==
    ASSUME IntervalInv, NEW w \in Workers, IntervalKept(w)',
           pc' \in [Goroutines -> States], ticker' \in [Workers -> [on : BOOLEAN, tick : BOOLEAN]],
           late' \in [Workers -> Int],
           \A v \in Workers \ {w} : /\ pc'[v] = pc[v] /\ ticker'[v] = ticker[v]
                                    /\ late'[v] = late[v] /\ role'[v] = role[v]
    PROVE  IntervalInv'
<1>1. ASSUME NEW v \in Workers \ {w} PROVE IntervalKept(v)'
  <2>1. pc'[v] = pc[v] /\ ticker'[v] = ticker[v] /\ late'[v] = late[v] /\ role'[v] = role[v]
    OBVIOUS
  <2>2. IntervalKept(v)
    BY DEF IntervalInv
  <2> QED
    BY <2>1, <2>2 DEF Cleared, IntervalKept
<1> QED
  BY <1>1 DEF IntervalInv

LEMMA TimersKeep ==
    ASSUME IntervalInv, NEW g \in Goroutines, NEW w \in Workers,
           SetInterval(g, w) \/ ClearInterval(g, w) \/ Tick(w) \/ TakeTick(w) \/ CallInterval(w)
    PROVE  IntervalInv'
<1>0. w \in Goroutines /\ \A v \in Workers \ {w} : v \in Goroutines \ {w}
  BY DEF Goroutines
<1>1. /\ pc \in [Goroutines -> States] /\ ticker[w] \in [on : BOOLEAN, tick : BOOLEAN]
      /\ ticker \in [Workers -> [on : BOOLEAN, tick : BOOLEAN]] /\ late \in [Workers -> Int]
      /\ late[w] \in Int /\ IntervalKept(w)
  BY DEF IntervalInv
<1>2. {"runs", "fires", "ticks"} \subseteq States
  BY DEF States, Blocked
<1>3. CASE SetInterval(g, w)
  <2>1. /\ pc[w] = "none" /\ \A h \in Goroutines \ {w} : role'[h] = role[h]
        /\ pc' = [pc EXCEPT ![w] = "ticks"] /\ ticker' = [ticker EXCEPT ![w].on = TRUE] /\ late' = late
    BY <1>3 DEF SetInterval, Start
  <2>2. late'[w] = -1 /\ pc'[w] # "none"
    BY <1>0, <1>1, <2>1 DEF Cleared, IntervalKept
  <2>3. /\ pc' \in [Goroutines -> States] /\ ticker' \in [Workers -> [on : BOOLEAN, tick : BOOLEAN]]
        /\ \A v \in Workers \ {w} : pc'[v] = pc[v] /\ ticker'[v] = ticker[v]
    BY <1>0, <1>1, <1>2, <2>1, OneMoves
  <2> QED
    BY <1>0, <1>1, <2>1, <2>2, <2>3, OneInterval DEF IntervalKept
<1>4. CASE ClearInterval(g, w)
  <2>1. /\ role[w] = "interval" /\ late[w] < 0 /\ pc' = pc /\ role' = role
        /\ ticker' = [ticker EXCEPT ![w] = [ticker[w] EXCEPT !.on = FALSE]]
        /\ late' = [late EXCEPT ![w] = 0]
    BY <1>4 DEF ClearInterval, Stopped
  <2>2. ticker'[w].on = FALSE /\ ticker'[w].tick \in BOOLEAN /\ late'[w] = 0
    BY <1>1, <2>1
  <2>3. IntervalKept(w)'
    <3>1. /\ role'[w] = "interval" /\ pc'[w] # "none" /\ pc'[w] = pc[w] /\ ~ticker'[w].on
      BY <1>1, <2>1, <2>2 DEF IntervalKept
    <3>2. late'[w] + (IF ticker'[w].tick THEN 1 ELSE 0) + (IF pc'[w] = "fires" THEN 1 ELSE 0) <= 2
      BY <2>2
    <3>3. late'[w] >= 0
      BY <2>2
    <3> QED
      BY <3>1, <3>2, <3>3, Zenon DEF Cleared, IntervalKept
  <2>4. ticker' \in [Workers -> [on : BOOLEAN, tick : BOOLEAN]] /\ late' \in [Workers -> Int]
    <3>1. [ticker[w] EXCEPT !.on = FALSE] \in [on : BOOLEAN, tick : BOOLEAN]
      BY <1>1
    <3>2. ticker' \in [Workers -> [on : BOOLEAN, tick : BOOLEAN]]
      BY <1>1, <2>1, <3>1
    <3>3. late' \in [Workers -> Int]
      BY <1>1, <2>1
    <3> QED
      BY <3>2, <3>3
  <2>5. \A v \in Workers \ {w} : ticker'[v] = ticker[v] /\ late'[v] = late[v]
    BY <1>1, <2>1
  <2> QED
    BY <1>1, <2>1, <2>3, <2>4, <2>5, OneInterval
<1>5. CASE Tick(w) \/ TakeTick(w) \/ CallInterval(w)
  <2>1. role' = role /\ ticker[w].on \in BOOLEAN /\ ticker[w].tick \in BOOLEAN
    BY <1>1, <1>5 DEF Tick, TakeTick, CallInterval
  <2>2. CASE Tick(w)
    <3>1. /\ ticker[w].on /\ pc' = pc /\ late' = late
          /\ ticker' = [ticker EXCEPT ![w] = [ticker[w] EXCEPT !.tick = TRUE]]
      BY <2>2 DEF Tick
    <3>2. /\ ticker' \in [Workers -> [on : BOOLEAN, tick : BOOLEAN]]
          /\ \A v \in Workers \ {w} : ticker'[v] = ticker[v]
      BY <1>1, <3>1
    <3>3. IntervalKept(w)'
      BY <1>1, <2>1, <3>1 DEF IntervalKept, Cleared
    <3> QED
      BY <1>1, <2>1, <3>1, <3>2, <3>3, OneInterval
  <2>3. CASE TakeTick(w)
    <3>1. /\ pc[w] = "ticks" /\ ticker[w].tick /\ pc' = [pc EXCEPT ![w] = "fires"] /\ late' = late
          /\ ticker' = [ticker EXCEPT ![w] = [ticker[w] EXCEPT !.tick = FALSE]]
      BY <2>3 DEF TakeTick
    <3>2. /\ ticker' \in [Workers -> [on : BOOLEAN, tick : BOOLEAN]]
          /\ ticker'[w].tick = FALSE /\ ticker'[w].on = ticker[w].on
          /\ \A v \in Workers \ {w} : ticker'[v] = ticker[v]
      BY <1>1, <3>1
    <3>3. /\ pc' \in [Goroutines -> States] /\ pc'[w] = "fires"
          /\ \A v \in Workers \ {w} : pc'[v] = pc[v]
      BY <1>0, <1>1, <1>2, <3>1, OneMoves
    <3>4. IntervalKept(w)'
      BY <1>1, <2>1, <3>1, <3>2, <3>3 DEF IntervalKept, Cleared
    <3> QED
      BY <1>1, <2>1, <3>1, <3>2, <3>3, <3>4, OneInterval
  <2>4. CASE CallInterval(w)
    <3>1. /\ pc[w] = "fires" /\ pc' = [pc EXCEPT ![w] = "runs"] /\ ticker' = ticker
          /\ late' = [late EXCEPT ![w] = IF late[w] < 0 THEN late[w] ELSE late[w] + 1]
      BY <2>4 DEF CallInterval
    <3>2. /\ late' \in [Workers -> Int] /\ late'[w] = (IF late[w] < 0 THEN late[w] ELSE late[w] + 1)
          /\ \A v \in Workers \ {w} : late'[v] = late[v]
      BY <1>1, <3>1
    <3>3. /\ pc' \in [Goroutines -> States] /\ pc'[w] = "runs"
          /\ \A v \in Workers \ {w} : pc'[v] = pc[v]
      BY <1>0, <1>1, <1>2, <3>1, OneMoves
    <3>4. IntervalKept(w)'
      <4>1. CASE late[w] = -1
        BY <1>1, <2>1, <3>1, <3>2, <3>3, <4>1 DEF IntervalKept
      <4>2. CASE Cleared(w)
        BY <1>1, <2>1, <3>1, <3>2, <3>3, <4>2 DEF IntervalKept, Cleared
      <4> QED
        BY <1>1, <4>1, <4>2 DEF IntervalKept
    <3> QED
      BY <1>1, <2>1, <3>1, <3>2, <3>3, <3>4, OneInterval
  <2> QED
    BY <1>5, <2>2, <2>3, <2>4
<1> QED
  BY <1>3, <1>4, <1>5

LEMMA IntervalStep ==
    ASSUME ChannelInv, IntervalInv, [TasksNext]_vars
    PROVE  IntervalInv'
<1>0. ChannelTypes /\ Main \in Goroutines /\ Workers \subseteq Goroutines
  BY DEF ChannelInv, Goroutines
<1>1. ASSUME NEW g \in Goroutines, ScriptStep(g) \/ Choose(g)
      PROVE  IntervalInv'
  <2>1. ASSUME NEW c \in Channels, Send(g, c) \/ Recv(g, c) PROVE IntervalInv'
    BY <1>0, <2>1, SendUntimed, ReceiveUntimed, UntimedKeeps DEF Recv
  <2>2. ASSUME NEW w \in Workers, Spawn(g, w) \/ SetTimeout(g, w) PROVE IntervalInv'
    BY <1>0, <2>2, OtherUntimed, UntimedKeeps
  <2>3. ASSUME NEW w \in Workers, SetInterval(g, w) \/ ClearInterval(g, w) PROVE IntervalInv'
    BY <2>3, TimersKeep
  <2>4. ASSUME Listen(g) \/ CloseServer(g) \/ Panic(g) \/ Choose(g) PROVE IntervalInv'
    BY <1>0, <2>4, OtherUntimed, UntimedKeeps
  <2>5. ASSUME Select(g) PROVE IntervalInv'
    BY <2>5, SelectUntimed, UntimedKeeps
  <2> QED
    BY <1>1, <2>1, <2>2, <2>3, <2>4, <2>5, Zenon DEF ScriptStep
<1>2. ASSUME NEW w \in Workers, RuntimeStep(w) \/ Request(w) \/ Return(w)
      PROVE  IntervalInv'
  <2>0. w \in Goroutines
    BY <1>0
  <2>1. ASSUME CaseReceive(w) PROVE IntervalInv'
    <3>1. source[w].from \in Channels /\ Receive(w, source[w].from)
      BY <2>1 DEF CaseReceive, ChannelInv, CasesReceive
    <3> QED
      BY <1>0, <2>0, <3>1, ReceiveUntimed, UntimedKeeps
  <2>2. ASSUME Tick(w) \/ TakeTick(w) \/ CallInterval(w) PROVE IntervalInv'
    BY <1>0, <2>2, TimersKeep
  <2>3. ASSUME Wake(w) \/ Post(w) \/ Request(w) \/ Return(w) PROVE IntervalInv'
    BY <1>0, <2>0, <2>3, OtherUntimed, UntimedKeeps
  <2> QED
    BY <1>2, <2>1, <2>2, <2>3, Zenon DEF RuntimeStep
<1>3. ASSUME MainReturns \/ MainFails \/ ServeReturns \/ Exit \/ Deadlock \/ UNCHANGED vars
      PROVE  IntervalInv'
  BY <1>0, <1>3, OtherUntimed, UntimedKeeps
<1> QED
  BY <1>1, <1>2, <1>3, Zenon DEF TasksNext

(* What every step keeps of the intervals.                                  *)
THEOREM IntervalsKeep == TasksSpec => []IntervalInv
<1>1. TasksInit => IntervalInv
  <2>1. "runs" \in States /\ "none" \in States
    BY DEF States
  <2> QED
    BY <2>1 DEF TasksInit, IntervalInv, IntervalKept, Goroutines
<1>2. ChannelInv /\ IntervalInv /\ [TasksNext]_vars => IntervalInv'
  BY IntervalStep
<1> QED
  BY <1>1, <1>2, ChannelsKeep, PTL DEF TasksSpec

(* At most two calls of an interval begin after it was cleared              *)
(* (builtins.go:456-493): the one about to begin and the tick in the        *)
(* ticker's channel.                                                        *)
THEOREM IntervalsStop == TasksSpec => []StopsSoon
<1>1. IntervalInv => StopsSoon
  BY DEF IntervalInv, IntervalKept, Cleared, StopsSoon
<1> QED
  BY <1>1, IntervalsKeep, PTL

-----------------------------------------------------------------------------
(***************************************************************************)
(* Where each value of a run of Tasks is: accepted by one channel at one   *)
(* place, and once a receive has taken it, with one case of a select, used *)
(* by a script, or lost.                                                   *)
(***************************************************************************)

(* Each value of the run is accepted by one channel, once.                  *)
Place(c) == 1..Len(AcceptedOf(c))
EachAccepted ==
    /\ \A c \in Channels : \A i \in Place(c) : AcceptedOf(c)[i] \in 1..sends
    /\ \A m \in 1..sends : \E c \in Channels : \E i \in Place(c) : AcceptedOf(c)[i] = m
    /\ \A c, d \in Channels : \A i \in Place(c), j \in Place(d) :
          AcceptedOf(c)[i] = AcceptedOf(d)[j] => c = d /\ i = j

GoroutineTypes ==
    /\ pc \in [Goroutines -> States]
    /\ hand \in [Goroutines -> Nat]
    /\ chosen \in [Goroutines -> [turn : Nat, posted : Seq(Nat)]]
    /\ selects \in Nat

(* Who waits at a channel does nothing else and waits there once: the value *)
(* it is handed overwrites none.                                            *)
ReceiversWait ==
    /\ \A c \in Channels : \A i \in 1..Len(recvq[c]) : pc[recvq[c][i]] = "receives"
    /\ \A c, d \in Channels : \A i \in 1..Len(recvq[c]), j \in 1..Len(recvq[d]) :
          recvq[c][i] = recvq[d][j] => c = d /\ i = j
SendersWait ==
    /\ \A c \in Channels : \A i \in 1..Len(sendq[c]) : pc[sendq[c][i].by] = "sends"
    /\ \A c, d \in Channels : \A i \in 1..Len(sendq[c]), j \in 1..Len(sendq[d]) :
          sendq[c][i].by = sendq[d][j].by => c = d /\ i = j

(* Cases are workers, and a select that is not going on has no posts.       *)
CasesWork ==
    \A g \in Goroutines :
        /\ role[g] = "case" \/ pc[g] = "posts" => g \in Workers
        /\ pc[g] # "selects" => chosen[g].posted = <<>>

(* The values that receives have taken.                                     *)
Got == {m \in Nat : \E c \in Channels : \E i \in 1..Len(got[c]) : got[c][i] = m}

(* Goroutine g has value m: in its hand, or as the k-th post of its select. *)
Holds(g, k, m) ==
    IF k = 0 THEN pc[g] = "posts" /\ hand[g] = m
    ELSE k \in 1..Len(chosen[g].posted) /\ chosen[g].posted[k] = m

(* A value that was taken is used, lost, or held once.                      *)
OneHolder ==
    /\ used \subseteq Got /\ lost \subseteq Got /\ used \cap lost = {}
    /\ \A g \in Goroutines, k \in Nat, m \in Nat : Holds(g, k, m) => m \in Got \ (used \cup lost)
    /\ \A g, h \in Goroutines : \A k, l \in Nat : \A m \in Nat :
          Holds(g, k, m) /\ Holds(h, l, m) => g = h /\ k = l
    /\ \A m \in Got \ (used \cup lost) : \E g \in Goroutines : \E k \in Nat : Holds(g, k, m)

ValueInv == EachAccepted /\ GoroutineTypes /\ ReceiversWait /\ SendersWait /\ CasesWork /\ OneHolder

-----------------------------------------------------------------------------
(* What was accepted, by place. *)

PlacesKnown ==
    \A c \in Channels :
        /\ Len(got[c]) \in Nat /\ Len(queue[c]) \in Nat /\ Len(sendq[c]) \in Nat
        /\ AcceptedOf(c) \in Seq(Nat)
        /\ Len(AcceptedOf(c)) = Len(got[c]) + Len(queue[c]) + Len(sendq[c])
        /\ \A i \in 1..Len(got[c]) : AcceptedOf(c)[i] = got[c][i]
        /\ \A i \in 1..Len(queue[c]) : AcceptedOf(c)[Len(got[c]) + i] = queue[c][i]
        /\ \A i \in 1..Len(sendq[c]) : AcceptedOf(c)[Len(got[c]) + Len(queue[c]) + i] = sendq[c][i].m

LEMMA Places == ChannelTypes => PlacesKnown
<1> SUFFICES ASSUME ChannelTypes, NEW c \in Channels
             PROVE  /\ Len(got[c]) \in Nat /\ Len(queue[c]) \in Nat /\ Len(sendq[c]) \in Nat
                    /\ AcceptedOf(c) \in Seq(Nat)
                    /\ Len(AcceptedOf(c)) = Len(got[c]) + Len(queue[c]) + Len(sendq[c])
                    /\ \A i \in 1..Len(got[c]) : AcceptedOf(c)[i] = got[c][i]
                    /\ \A i \in 1..Len(queue[c]) : AcceptedOf(c)[Len(got[c]) + i] = queue[c][i]
                    /\ \A i \in 1..Len(sendq[c]) :
                          AcceptedOf(c)[Len(got[c]) + Len(queue[c]) + i] = sendq[c][i].m
  BY DEF PlacesKnown
<1> DEFINE a == got[c]
           b == queue[c]
           d == sendq[c]
           p == Pending(d)
           e == a \o b
           acc == e \o p
<1>1. /\ a \in Seq(Nat) /\ b \in Seq(Nat) /\ d \in Seq(Waiting) /\ p \in Seq(Nat)
      /\ AcceptedOf(c) = acc
  BY AcceptedType DEF AcceptedOf, Then
<1>2. Len(a) \in Nat /\ Len(b) \in Nat /\ Len(d) \in Nat /\ DOMAIN d = 1..Len(d)
  BY <1>1
<1>3. Len(p) = Len(d) /\ \A i \in 1..Len(d) : p[i] = d[i].m
  BY <1>2 DEF Pending
<1> HIDE DEF a, b, d, p
<1>4. /\ e \in Seq(Nat) /\ Len(e) = Len(a) + Len(b)
      /\ \A i \in 1..Len(a) + Len(b) : e[i] = IF i <= Len(a) THEN a[i] ELSE b[i - Len(a)]
  BY <1>1, ConcatProperties
<1> HIDE DEF e
<1>5. /\ acc \in Seq(Nat) /\ Len(acc) = Len(e) + Len(p)
      /\ \A i \in 1..Len(e) + Len(p) : acc[i] = IF i <= Len(e) THEN e[i] ELSE p[i - Len(e)]
  <2>1. e \in Seq(Nat) /\ p \in Seq(Nat)
    BY <1>1, <1>4
  <2> QED
    BY <2>1, ConcatProperties
<1> HIDE DEF acc
<1>6. ASSUME NEW i \in 1..Len(a) PROVE acc[i] = a[i]
  <2>1. i \in 1..Len(a) + Len(b) /\ i \in 1..Len(e) + Len(p) /\ i <= Len(e) /\ i <= Len(a)
    BY <1>2, <1>3, <1>4
  <2>2. acc[i] = e[i]
    BY <1>5, <2>1
  <2>3. e[i] = a[i]
    BY <1>4, <2>1
  <2> QED
    BY <2>2, <2>3
<1>7. ASSUME NEW i \in 1..Len(b) PROVE acc[Len(a) + i] = b[i]
  <2>1. Len(a) + i \in 1..Len(e) /\ ~(Len(a) + i <= Len(a)) /\ (Len(a) + i) - Len(a) = i
    BY <1>2, <1>4
  <2>2. e[Len(a) + i] = b[i]
    BY <1>4, <2>1
  <2>3. acc[Len(a) + i] = e[Len(a) + i]
    BY <1>2, <1>3, <1>4, <1>5, <2>1
  <2> QED
    BY <2>2, <2>3
<1>8. ASSUME NEW i \in 1..Len(d) PROVE acc[Len(a) + Len(b) + i] = d[i].m
  <2> DEFINE n == Len(a) + Len(b) + i
  <2>1. n \in 1..Len(e) + Len(p) /\ ~(n <= Len(e)) /\ n - Len(e) = i
    BY <1>2, <1>3, <1>4
  <2> HIDE DEF n
  <2>2. acc[n] = p[i]
    BY <1>5, <2>1
  <2> QED
    BY <1>3, <2>2 DEF n
<1>9. Len(acc) = Len(a) + Len(b) + Len(d)
  BY <1>3, <1>4, <1>5
<1> QED
  BY <1>1, <1>2, <1>5, <1>6, <1>7, <1>8, <1>9 DEF a, b, d

(* The values of an accepting channel are those before and one more.        *)
LEMMA AcceptedStays ==
    ASSUME ChannelTypes, EachAccepted, NEW c \in Channels, Accepts(c, sends + 1), sends' = sends + 1
    PROVE  EachAccepted'
<1> DEFINE old(d) == AcceptedOf(d)
           new(d) == AcceptedOf(d)'
<1>1. \A d \in Channels : old(d) \in Seq(Nat) /\ Len(old(d)) \in Nat
  BY AcceptedType
<1>2. \A d \in Channels \ {c} : new(d) = old(d)
  BY DEF Accepts, OthersKept, AcceptedOf
<1>3. new(c) = Append(old(c), sends + 1) /\ sends \in Nat
  BY DEF Accepts, ChannelTypes
<1>4. /\ \A d \in Channels : \A i \in 1..Len(old(d)) : old(d)[i] \in 1..sends
      /\ \A m \in 1..sends : \E d \in Channels : \E i \in 1..Len(old(d)) : old(d)[i] = m
      /\ \A d, e \in Channels : \A i \in 1..Len(old(d)), j \in 1..Len(old(e)) :
            old(d)[i] = old(e)[j] => d = e /\ i = j
  BY DEF EachAccepted, Place
<1> HIDE DEF old, new
<1>5. /\ Len(new(c)) = Len(old(c)) + 1 /\ new(c)[Len(old(c)) + 1] = sends + 1
      /\ \A i \in 1..Len(old(c)) : new(c)[i] = old(c)[i]
  BY <1>1, <1>3, AppendFacts
<1>6. ASSUME NEW d \in Channels, NEW i \in 1..Len(new(d))
      PROVE  \/ i \in 1..Len(old(d)) /\ new(d)[i] = old(d)[i] /\ new(d)[i] \in 1..sends
             \/ d = c /\ i = Len(old(c)) + 1 /\ new(d)[i] = sends + 1
  <2>1. CASE d = c
    BY <1>1, <1>4, <1>5, <2>1
  <2>2. CASE d # c
    BY <1>2, <1>4, <2>2
  <2> QED
    BY <2>1, <2>2
<1>7. ASSUME NEW d \in Channels, NEW i \in 1..Len(new(d)) PROVE new(d)[i] \in 1..sends + 1
  BY <1>3, <1>6
<1>8. ASSUME NEW m \in 1..sends + 1
      PROVE  \E d \in Channels : \E i \in 1..Len(new(d)) : new(d)[i] = m
  <2>1. CASE m = sends + 1
    BY <1>1, <1>5, <2>1
  <2>2. CASE m # sends + 1
    <3>0. PICK d \in Channels : \E i \in 1..Len(old(d)) : old(d)[i] = m
      BY <1>3, <1>4, <2>2
    <3>1. PICK i \in 1..Len(old(d)) : old(d)[i] = m
      BY <3>0
    <3>2. i \in 1..Len(new(d)) /\ new(d)[i] = m
      BY <1>1, <1>2, <1>5, <3>1
    <3> QED
      BY <3>2
  <2> QED
    BY <2>1, <2>2
<1>9. ASSUME NEW d \in Channels, NEW e \in Channels, NEW i \in 1..Len(new(d)), NEW j \in 1..Len(new(e)),
             new(d)[i] = new(e)[j]
      PROVE  d = e /\ i = j
  <2>1. sends + 1 \notin 1..sends
    BY <1>3
  <2> QED
    BY <1>4, <1>6, <1>9, <2>1
<1> QED
  BY <1>7, <1>8, <1>9 DEF EachAccepted, Place, old, new

LEMMA AcceptedSame ==
    ASSUME EachAccepted, NEW c \in Channels, Takes(c) \/ UNCHANGED <<got, queue, sendq>>, sends' = sends
    PROVE  EachAccepted'
<1>1. \A d \in Channels : AcceptedOf(d)' = AcceptedOf(d)
  BY DEF Takes, OthersKept, AcceptedOf
<1> QED
  BY <1>1 DEF EachAccepted, Place

(* A value that a receive takes is taken for the first time.                *)
LEMMA TakenOnce ==
    ASSUME ChannelTypes, ChannelTypes', EachAccepted', NEW c \in Channels, NEW m \in Nat,
           got' = [got EXCEPT ![c] = Append(got[c], m)]
    PROVE  m \notin Got /\ Got' = Got \cup {m}
<1>1. \A d \in Channels : got[d] \in Seq(Nat) /\ Len(got[d]) \in Nat
  BY DEF ChannelTypes
<1>2. /\ \A d \in Channels \ {c} : got'[d] = got[d]
      /\ Len(got'[c]) = Len(got[c]) + 1 /\ got'[c][Len(got[c]) + 1] = m
      /\ \A i \in 1..Len(got[c]) : got'[c][i] = got[c][i]
  <2>1. got'[c] = Append(got[c], m) /\ \A d \in Channels \ {c} : got'[d] = got[d]
    BY DEF ChannelTypes
  <2> QED
    BY <1>1, <2>1, AppendFacts
<1>3. ASSUME NEW d \in Channels, NEW i \in 1..Len(got[d])
      PROVE  i \in 1..Len(got'[d]) /\ got'[d][i] = got[d][i]
  BY <1>1, <1>2
<1>4. ASSUME NEW d \in Channels, NEW e \in Channels, NEW i \in 1..Len(got'[d]), NEW j \in 1..Len(got'[e]),
             got'[d][i] = got'[e][j]
      PROVE  d = e /\ i = j
  <2>1. \A f \in Channels : \A n \in 1..Len(got'[f]) :
           n \in Place(f)' /\ AcceptedOf(f)'[n] = got'[f][n]
    <3> SUFFICES ASSUME NEW f \in Channels, NEW n \in 1..Len(got'[f])
                 PROVE  n \in Place(f)' /\ AcceptedOf(f)'[n] = got'[f][n]
      OBVIOUS
    <3>1. PlacesKnown'
      <4>1. ChannelTypes' => PlacesKnown'
        BY Places, PTL
      <4> QED
        BY <4>1
    <3>2. /\ Len(got'[f]) \in Nat /\ Len(queue'[f]) \in Nat /\ Len(sendq'[f]) \in Nat
          /\ Len(AcceptedOf(f)') = Len(got'[f]) + Len(queue'[f]) + Len(sendq'[f])
          /\ AcceptedOf(f)'[n] = got'[f][n]
      BY <3>1 DEF PlacesKnown
    <3>3. n \in 1..Len(AcceptedOf(f)')
      <4>1. ASSUME NEW x \in Nat, NEW y \in Nat, NEW z \in Nat, NEW k \in 1..x PROVE k \in 1..x + y + z
        OBVIOUS
      <4> QED
        BY <3>2, <4>1, Zenon
    <3> QED
      BY <3>2, <3>3 DEF Place
  <2> QED
    BY <1>4, <2>1 DEF EachAccepted
<1>5. m \notin Got
  <2> SUFFICES ASSUME NEW d \in Channels, NEW i \in 1..Len(got[d]), got[d][i] = m PROVE FALSE
    BY DEF Got
  <2>1. Len(got[c]) + 1 \in 1..Len(got'[c])
    BY <1>1, <1>2
  <2>2. got'[d][i] = got'[c][Len(got[c]) + 1] /\ i \in 1..Len(got'[d])
    BY <1>2, <1>3
  <2>3. d = c /\ i = Len(got[c]) + 1
    BY <1>4, <2>1, <2>2
  <2> QED
    BY <1>1, <2>3
<1>6. Got' = Got \cup {m}
  <2>1. ASSUME NEW x \in Got' PROVE x \in Got \cup {m}
    <3>0. PICK d \in Channels : \E i \in 1..Len(got'[d]) : got'[d][i] = x
      BY DEF Got
    <3>1. PICK i \in 1..Len(got'[d]) : got'[d][i] = x
      BY <3>0
    <3>2. x \in Nat
      BY DEF Got
    <3>3. i \in 1..Len(got[d]) \/ (d = c /\ i = Len(got[c]) + 1)
      BY <1>1, <1>2
    <3> QED
      BY <1>2, <1>3, <3>1, <3>2, <3>3 DEF Got
  <2>2. ASSUME NEW x \in Got PROVE x \in Got'
    BY <1>3 DEF Got
  <2>3. m \in Got'
    <3>1. Len(got[c]) + 1 \in 1..Len(got'[c])
      BY <1>1, <1>2
    <3> QED
      BY <1>2, <3>1 DEF Got
  <2> QED
    BY <2>1, <2>2, <2>3
<1> QED
  BY <1>5, <1>6

-----------------------------------------------------------------------------
(* Who waits. *)

LEMMA HeadLeaves ==
    ASSUME NEW S, NEW f \in [Channels -> Seq(S)], NEW c \in Channels, f[c] # <<>>,
           NEW h, h = [f EXCEPT ![c] = Tail(f[c])]
    PROVE  /\ Head(f[c]) = f[c][1] /\ 1 \in 1..Len(f[c])
           /\ \A d \in Channels : \A i \in 1..Len(h[d]) :
                 \/ d = c /\ i + 1 \in 1..Len(f[c]) /\ i + 1 # 1 /\ h[d][i] = f[c][i + 1]
                 \/ d # c /\ i \in 1..Len(f[d]) /\ h[d][i] = f[d][i]
<1>1. /\ Head(f[c]) = f[c][1] /\ Len(f[c]) \in Nat \ {0} /\ Len(Tail(f[c])) = Len(f[c]) - 1
      /\ \A i \in 1..Len(f[c]) - 1 : Tail(f[c])[i] = f[c][i + 1]
  BY EmptySeq, HeadTailProperties
<1>2. h[c] = Tail(f[c]) /\ \A d \in Channels \ {c} : h[d] = f[d]
  OBVIOUS
<1> QED
  BY <1>1, <1>2

LEMMA LastComes ==
    ASSUME NEW S, NEW f \in [Channels -> Seq(S)], NEW c \in Channels, NEW x \in S,
           NEW h, h = [f EXCEPT ![c] = Append(f[c], x)]
    PROVE  \A d \in Channels : \A i \in 1..Len(h[d]) :
              \/ i \in 1..Len(f[d]) /\ h[d][i] = f[d][i]
              \/ d = c /\ i = Len(f[c]) + 1 /\ h[d][i] = x
<1>1. /\ Len(f[c]) \in Nat /\ Len(Append(f[c], x)) = Len(f[c]) + 1 /\ Append(f[c], x)[Len(f[c]) + 1] = x
      /\ \A i \in 1..Len(f[c]) : Append(f[c], x)[i] = f[c][i]
  BY AppendFacts
<1>2. h[c] = Append(f[c], x) /\ \A d \in Channels \ {c} : h[d] = f[d]
  OBVIOUS
<1> QED
  BY <1>1, <1>2

LEMMA ReceiversStay ==
    ASSUME ChannelTypes, ReceiversWait, recvq' = recvq,
           \A g \in Goroutines : pc[g] = "receives" => pc'[g] = "receives"
    PROVE  ReceiversWait'
<1>1. \A c \in Channels : \A i \in 1..Len(recvq[c]) : recvq[c][i] \in Goroutines
  BY ElementOfSeq DEF ChannelTypes
<1> QED
  BY <1>1, SMTT(30) DEF ReceiversWait

LEMMA ReceiverServed ==
    ASSUME ChannelTypes, ReceiversWait, NEW c \in Channels, recvq[c] # <<>>,
           recvq' = [recvq EXCEPT ![c] = Tail(recvq[c])],
           \A g \in Goroutines \ {Head(recvq[c])} : pc[g] = "receives" => pc'[g] = "receives"
    PROVE  ReceiversWait'
<1>1. recvq \in [Channels -> Seq(Goroutines)]
  BY DEF ChannelTypes
<1>2. /\ Head(recvq[c]) = recvq[c][1] /\ 1 \in 1..Len(recvq[c])
      /\ \A d \in Channels : \A i \in 1..Len(recvq'[d]) :
            \/ d = c /\ i + 1 \in 1..Len(recvq[c]) /\ i + 1 # 1 /\ recvq'[d][i] = recvq[c][i + 1]
            \/ d # c /\ i \in 1..Len(recvq[d]) /\ recvq'[d][i] = recvq[d][i]
  BY <1>1, HeadLeaves
<1>3. \A d \in Channels : \A i \in 1..Len(recvq[d]) : recvq[d][i] \in Goroutines
  BY <1>1, ElementOfSeq
<1>4. ASSUME NEW d \in Channels, NEW i \in 1..Len(recvq'[d])
      PROVE  pc'[recvq'[d][i]] = "receives"
  <2>1. PICK j \in 1..Len(recvq[d]) : recvq'[d][i] = recvq[d][j] /\ (d # c \/ j # 1)
    BY <1>2
  <2>2. recvq[d][j] # Head(recvq[c])
    BY <1>2, <2>1 DEF ReceiversWait
  <2> QED
    BY <1>3, <2>1, <2>2 DEF ReceiversWait
<1>5. ASSUME NEW d \in Channels, NEW e \in Channels, NEW i \in 1..Len(recvq'[d]), NEW j \in 1..Len(recvq'[e]),
             recvq'[d][i] = recvq'[e][j]
      PROVE  d = e /\ i = j
  <2>1. /\ \/ d = c /\ i + 1 \in 1..Len(recvq[c]) /\ recvq'[d][i] = recvq[c][i + 1]
           \/ d # c /\ i \in 1..Len(recvq[d]) /\ recvq'[d][i] = recvq[d][i]
        /\ \/ e = c /\ j + 1 \in 1..Len(recvq[c]) /\ recvq'[e][j] = recvq[c][j + 1]
           \/ e # c /\ j \in 1..Len(recvq[e]) /\ recvq'[e][j] = recvq[e][j]
    BY <1>2
  <2>2. i \in Int /\ j \in Int
    OBVIOUS
  <2> QED
    BY <1>5, <2>1, <2>2 DEF ReceiversWait
<1> QED
  BY <1>4, <1>5 DEF ReceiversWait

LEMMA ReceiverComes ==
    ASSUME ChannelTypes, ReceiversWait, NEW c \in Channels, NEW g \in Goroutines,
           recvq' = [recvq EXCEPT ![c] = Append(recvq[c], g)],
           pc[g] # "receives", pc'[g] = "receives",
           \A h \in Goroutines : pc[h] = "receives" => pc'[h] = "receives"
    PROVE  ReceiversWait'
<1>1. recvq \in [Channels -> Seq(Goroutines)]
  BY DEF ChannelTypes
<1>2. \A d \in Channels : \A i \in 1..Len(recvq'[d]) :
         \/ i \in 1..Len(recvq[d]) /\ recvq'[d][i] = recvq[d][i]
         \/ d = c /\ i = Len(recvq[c]) + 1 /\ recvq'[d][i] = g
  BY <1>1, LastComes
<1>3. \A d \in Channels : \A i \in 1..Len(recvq[d]) : recvq[d][i] \in Goroutines /\ recvq[d][i] # g
  BY <1>1, ElementOfSeq DEF ReceiversWait
<1>4. ASSUME NEW d \in Channels, NEW i \in 1..Len(recvq'[d])
      PROVE  pc'[recvq'[d][i]] = "receives"
  BY <1>2, <1>3 DEF ReceiversWait
<1>5. ASSUME NEW d \in Channels, NEW e \in Channels, NEW i \in 1..Len(recvq'[d]), NEW j \in 1..Len(recvq'[e]),
             recvq'[d][i] = recvq'[e][j]
      PROVE  d = e /\ i = j
  BY <1>2, <1>3, <1>5 DEF ReceiversWait
<1> QED
  BY <1>4, <1>5 DEF ReceiversWait

LEMMA SendersStay ==
    ASSUME ChannelTypes, SendersWait, sendq' = sendq,
           \A g \in Goroutines : pc[g] = "sends" => pc'[g] = "sends"
    PROVE  SendersWait'
<1>1. \A c \in Channels : \A i \in 1..Len(sendq[c]) : sendq[c][i] \in Waiting
  BY ElementOfSeq DEF ChannelTypes
<1>2. \A c \in Channels : \A i \in 1..Len(sendq[c]) : sendq[c][i].by \in Goroutines
  BY <1>1 DEF Waiting
<1> QED
  BY <1>2 DEF SendersWait

LEMMA SenderServed ==
    ASSUME ChannelTypes, SendersWait, NEW c \in Channels, sendq[c] # <<>>,
           sendq' = [sendq EXCEPT ![c] = Tail(sendq[c])],
           \A g \in Goroutines \ {Head(sendq[c]).by} : pc[g] = "sends" => pc'[g] = "sends"
    PROVE  SendersWait'
<1>1. sendq \in [Channels -> Seq(Waiting)]
  BY DEF ChannelTypes
<1>2. /\ Head(sendq[c]) = sendq[c][1] /\ 1 \in 1..Len(sendq[c])
      /\ \A d \in Channels : \A i \in 1..Len(sendq'[d]) :
            \/ d = c /\ i + 1 \in 1..Len(sendq[c]) /\ i + 1 # 1 /\ sendq'[d][i] = sendq[c][i + 1]
            \/ d # c /\ i \in 1..Len(sendq[d]) /\ sendq'[d][i] = sendq[d][i]
  BY <1>1, HeadLeaves
<1>3. \A d \in Channels : \A i \in 1..Len(sendq[d]) : sendq[d][i].by \in Goroutines
  <2>1. \A d \in Channels : \A i \in 1..Len(sendq[d]) : sendq[d][i] \in Waiting
    BY <1>1, ElementOfSeq
  <2> QED
    BY <2>1 DEF Waiting
<1>4. ASSUME NEW d \in Channels, NEW i \in 1..Len(sendq'[d])
      PROVE  pc'[sendq'[d][i].by] = "sends"
  <2>1. PICK j \in 1..Len(sendq[d]) : sendq'[d][i] = sendq[d][j] /\ (d # c \/ j # 1)
    BY <1>2
  <2>2. sendq[d][j].by # Head(sendq[c]).by
    BY <1>2, <2>1 DEF SendersWait
  <2> QED
    BY <1>3, <2>1, <2>2 DEF SendersWait
<1>5. ASSUME NEW d \in Channels, NEW e \in Channels, NEW i \in 1..Len(sendq'[d]), NEW j \in 1..Len(sendq'[e]),
             sendq'[d][i].by = sendq'[e][j].by
      PROVE  d = e /\ i = j
  <2>1. /\ \/ d = c /\ i + 1 \in 1..Len(sendq[c]) /\ sendq'[d][i] = sendq[c][i + 1]
           \/ d # c /\ i \in 1..Len(sendq[d]) /\ sendq'[d][i] = sendq[d][i]
        /\ \/ e = c /\ j + 1 \in 1..Len(sendq[c]) /\ sendq'[e][j] = sendq[c][j + 1]
           \/ e # c /\ j \in 1..Len(sendq[e]) /\ sendq'[e][j] = sendq[e][j]
    BY <1>2
  <2>2. i \in Int /\ j \in Int
    OBVIOUS
  <2> QED
    BY <1>5, <2>1, <2>2 DEF SendersWait
<1> QED
  BY <1>4, <1>5 DEF SendersWait

LEMMA SenderComes ==
    ASSUME ChannelTypes, SendersWait, NEW c \in Channels, NEW g \in Goroutines, NEW x \in Waiting,
           x.by = g, sendq' = [sendq EXCEPT ![c] = Append(sendq[c], x)],
           pc[g] # "sends", pc'[g] = "sends",
           \A h \in Goroutines : pc[h] = "sends" => pc'[h] = "sends"
    PROVE  SendersWait'
<1>1. sendq \in [Channels -> Seq(Waiting)]
  BY DEF ChannelTypes
<1>2. \A d \in Channels : \A i \in 1..Len(sendq'[d]) :
         \/ i \in 1..Len(sendq[d]) /\ sendq'[d][i] = sendq[d][i]
         \/ d = c /\ i = Len(sendq[c]) + 1 /\ sendq'[d][i] = x
  BY <1>1, LastComes
<1>3. \A d \in Channels : \A i \in 1..Len(sendq[d]) : sendq[d][i].by \in Goroutines /\ sendq[d][i].by # g
  <2>1. \A d \in Channels : \A i \in 1..Len(sendq[d]) : sendq[d][i] \in Waiting
    BY <1>1, ElementOfSeq
  <2> QED
    BY <2>1 DEF Waiting, SendersWait
<1>4. ASSUME NEW d \in Channels, NEW i \in 1..Len(sendq'[d])
      PROVE  pc'[sendq'[d][i].by] = "sends"
  BY <1>2, <1>3 DEF SendersWait
<1>5. ASSUME NEW d \in Channels, NEW e \in Channels, NEW i \in 1..Len(sendq'[d]), NEW j \in 1..Len(sendq'[e]),
             sendq'[d][i].by = sendq'[e][j].by
      PROVE  d = e /\ i = j
  BY <1>2, <1>3, <1>5 DEF SendersWait
<1> QED
  BY <1>4, <1>5 DEF SendersWait

-----------------------------------------------------------------------------
(* Who has the values that were taken. *)

LEMMA NothingAccepted ==
    ASSUME EachAccepted, UNCHANGED chanVars
    PROVE  EachAccepted' /\ Got' = Got
<1>1. got' = got /\ queue' = queue /\ sendq' = sendq /\ sends' = sends
  BY DEF chanVars
<1>2. \A c \in Channels : AcceptedOf(c)' = AcceptedOf(c)
  BY <1>1 DEF AcceptedOf
<1> QED
  BY <1>1, <1>2 DEF EachAccepted, Place, Got

HoldsSame == \A g \in Goroutines, k \in Nat, m \in Nat : Holds(g, k, m)' <=> Holds(g, k, m)

LEMMA HoldersSame ==
    ASSUME OneHolder, HoldsSame, Got' = Got, used' = used, lost' = lost
    PROVE  OneHolder'
<1>1. used' \subseteq Got' /\ lost' \subseteq Got' /\ used' \cap lost' = {}
  BY DEF OneHolder
<1>2. ASSUME NEW g \in Goroutines, NEW k \in Nat, NEW x \in Nat, Holds(g, k, x)'
      PROVE  x \in Got' \ (used' \cup lost')
  BY <1>2 DEF OneHolder, HoldsSame
<1>3. ASSUME NEW g \in Goroutines, NEW h \in Goroutines, NEW k \in Nat, NEW l \in Nat, NEW x \in Nat,
             Holds(g, k, x)', Holds(h, l, x)'
      PROVE  g = h /\ k = l
  BY <1>3 DEF OneHolder, HoldsSame
<1>4. ASSUME NEW x \in Got' \ (used' \cup lost')
      PROVE  \E g \in Goroutines : \E k \in Nat : Holds(g, k, x)'
  <2>1. x \in Nat
    BY DEF Got
  <2> QED
    BY <2>1 DEF OneHolder, HoldsSame
<1> QED
  BY <1>1, <1>2, <1>3, <1>4 DEF OneHolder

LEMMA HoldersUse ==
    ASSUME OneHolder, HoldsSame, NEW m \in Nat, m \notin Got, Got' = Got \cup {m},
           used' = used \cup {m}, lost' = lost
    PROVE  OneHolder'
<1>1. used' \subseteq Got' /\ lost' \subseteq Got' /\ used' \cap lost' = {}
  BY DEF OneHolder
<1>2. ASSUME NEW g \in Goroutines, NEW k \in Nat, NEW x \in Nat, Holds(g, k, x)'
      PROVE  x \in Got' \ (used' \cup lost')
  BY <1>2 DEF OneHolder, HoldsSame
<1>3. ASSUME NEW g \in Goroutines, NEW h \in Goroutines, NEW k \in Nat, NEW l \in Nat, NEW x \in Nat,
             Holds(g, k, x)', Holds(h, l, x)'
      PROVE  g = h /\ k = l
  BY <1>3 DEF OneHolder, HoldsSame
<1>4. ASSUME NEW x \in Got' \ (used' \cup lost')
      PROVE  \E g \in Goroutines : \E k \in Nat : Holds(g, k, x)'
  <2>1. x \in Nat
    BY DEF Got
  <2> QED
    BY <2>1 DEF OneHolder, HoldsSame
<1> QED
  BY <1>1, <1>2, <1>3, <1>4 DEF OneHolder

LEMMA HoldersGain ==
    ASSUME OneHolder, NEW r \in Goroutines, NEW m \in Nat, m \notin Got, Got' = Got \cup {m},
           used' = used, lost' = lost,
           \A g \in Goroutines, k \in Nat, x \in Nat :
              Holds(g, k, x)' <=> Holds(g, k, x) \/ (g = r /\ k = 0 /\ x = m)
    PROVE  OneHolder'
<1>1. used' \subseteq Got' /\ lost' \subseteq Got' /\ used' \cap lost' = {}
  BY DEF OneHolder
<1>2. ASSUME NEW g \in Goroutines, NEW k \in Nat, NEW x \in Nat, Holds(g, k, x)'
      PROVE  x \in Got' \ (used' \cup lost')
  BY <1>2 DEF OneHolder
<1>3. ASSUME NEW g \in Goroutines, NEW h \in Goroutines, NEW k \in Nat, NEW l \in Nat, NEW x \in Nat,
             Holds(g, k, x)', Holds(h, l, x)'
      PROVE  g = h /\ k = l
  BY <1>3 DEF OneHolder
<1>4. ASSUME NEW x \in Got' \ (used' \cup lost')
      PROVE  \E g \in Goroutines : \E k \in Nat : Holds(g, k, x)'
  <2>1. x \in Nat /\ 0 \in Nat
    BY DEF Got
  <2> QED
    BY <2>1 DEF OneHolder
<1> QED
  BY <1>1, <1>2, <1>3, <1>4 DEF OneHolder

(* r has received m.                                                        *)
Hands(r, m) ==
    /\ m \in Nat /\ m \notin Got /\ Got' = Got \cup {m}
    /\ pc[r] \notin {"posts", "selects"}
    /\ pc' \in [Goroutines -> States] /\ pc'[r] = Served(r)
    /\ \A g \in Goroutines \ {r} : pc'[g] = pc[g] \/ (pc[g] = "sends" /\ pc'[g] = "runs")
    /\ hand' = [hand EXCEPT ![r] = Held(r, m)]
    /\ used' = used \cup UsedBy(r, m)
    /\ UNCHANGED <<role, lost, chosen, selects>>

LEMMA Delivered ==
    ASSUME GoroutineTypes, CasesWork, OneHolder, NEW r \in Goroutines, NEW m, Hands(r, m)
    PROVE  GoroutineTypes' /\ CasesWork' /\ OneHolder'
<1>0. m \in Nat /\ m \notin Got /\ Got' = Got \cup {m} /\ lost' = lost
  BY DEF Hands
<1>1. GoroutineTypes'
  BY DEF Hands, Held, GoroutineTypes
<1>2. ASSUME NEW g \in Goroutines
      PROVE  /\ role'[g] = "case" \/ pc'[g] = "posts" => g \in Workers
             /\ pc'[g] # "selects" => chosen'[g].posted = <<>>
  <2>1. CASE g = r
    BY <2>1 DEF Hands, CasesWork, Served
  <2>2. CASE g # r
    <3>1. (pc'[g] = pc[g] \/ (pc[g] = "sends" /\ pc'[g] = "runs")) /\ role' = role /\ chosen' = chosen
      BY <2>2 DEF Hands
    <3> QED
      BY <3>1 DEF CasesWork
  <2> QED
    BY <2>1, <2>2
<1>3. CASE role[r] = "case"
  <2>1. used' = used /\ pc'[r] = "posts" /\ pc[r] # "posts" /\ hand'[r] = m /\ chosen' = chosen
    BY <1>3 DEF Hands, UsedBy, Served, Held, GoroutineTypes
  <2>2. \A g \in Goroutines \ {r} : hand'[g] = hand[g] /\ (pc'[g] = "posts" <=> pc[g] = "posts")
    BY DEF Hands, GoroutineTypes
  <2>3. \A g \in Goroutines, k \in Nat, x \in Nat :
           Holds(g, k, x)' <=> Holds(g, k, x) \/ (g = r /\ k = 0 /\ x = m)
    BY <2>1, <2>2 DEF Holds
  <2> QED
    BY <1>0, <1>1, <1>2, <2>1, <2>3, HoldersGain DEF CasesWork
<1>4. CASE role[r] # "case"
  <2>1. used' = used \cup {m} /\ pc'[r] = "runs" /\ pc[r] # "posts" /\ chosen' = chosen
    BY <1>4 DEF Hands, UsedBy, Served
  <2>2. \A g \in Goroutines \ {r} : hand'[g] = hand[g] /\ (pc'[g] = "posts" <=> pc[g] = "posts")
    BY DEF Hands, GoroutineTypes
  <2>3. HoldsSame
    BY <2>1, <2>2 DEF Holds, HoldsSame
  <2> QED
    BY <1>0, <1>1, <1>2, <2>1, <2>3, HoldersUse DEF CasesWork
<1> QED
  BY <1>3, <1>4

(* A step that leaves channels and their values alone.                      *)
Quiet ==
    /\ UNCHANGED chanVars /\ UNCHANGED <<hand, used, lost>>
    /\ GoroutineTypes'
    /\ \A g \in Goroutines :
        /\ pc'[g] = "posts" <=> pc[g] = "posts"
        /\ pc[g] = "receives" => pc'[g] = "receives"
        /\ pc[g] = "sends" => pc'[g] = "sends"
        /\ chosen'[g].posted = chosen[g].posted
        /\ pc'[g] # "selects" => chosen'[g].posted = <<>>
        /\ role'[g] = "case" => g \in Workers

LEMMA QuietKeeps ==
    ASSUME ChannelTypes, ValueInv, Quiet
    PROVE  ValueInv'
<1> USE DEF ValueInv
<1>1. EachAccepted' /\ Got' = Got
  BY NothingAccepted DEF Quiet
<1>2. ReceiversWait' /\ SendersWait'
  BY ReceiversStay, SendersStay DEF Quiet, chanVars
<1>3. CasesWork'
  BY DEF CasesWork, Quiet
<1>4. HoldsSame
  BY DEF HoldsSame, Holds, Quiet
<1>5. OneHolder'
  BY <1>1, <1>4, HoldersSame DEF Quiet
<1> QED
  BY <1>1, <1>2, <1>3, <1>5 DEF Quiet

-----------------------------------------------------------------------------
(* Sends and receives. *)

LEMMA SendKeepsValues ==
    ASSUME ChannelTypes, NoneStranded, ValueInv, NEW g \in Goroutines, NEW c \in Channels, Send(g, c)
    PROVE  ValueInv'
<1> DEFINE v == sends + 1
           r == Head(recvq[c])
<1>1. /\ pc[g] = "runs" /\ sends' = v /\ v \in Nat
      /\ UNCHANGED <<role, chosen, selects, lost>>
  BY DEF Send, Runs, selectVars, ChannelTypes
<1>2. ChannelTypes' /\ Accepts(c, sends + 1)
  BY SendKeeps
<1>3. EachAccepted'
  BY <1>1, <1>2, AcceptedStays DEF ValueInv
<1>4. \/ /\ recvq[c] # <<>> /\ recvq' = [recvq EXCEPT ![c] = Tail(recvq[c])]
         /\ pc' = [pc EXCEPT ![r] = Served(r)] /\ hand' = [hand EXCEPT ![r] = Held(r, v)]
         /\ used' = used \cup UsedBy(r, v) /\ got' = [got EXCEPT ![c] = Append(got[c], v)]
         /\ sendq' = sendq
      \/ UNCHANGED <<pc, hand, used, got, recvq, sendq>>
      \/ /\ sendq' = [sendq EXCEPT ![c] = Append(sendq[c], [by |-> g, m |-> v])]
         /\ pc' = [pc EXCEPT ![g] = "sends"] /\ UNCHANGED <<hand, used, got, recvq>>
  BY DEF Send
<1>5. GoroutineTypes /\ CasesWork /\ OneHolder /\ ReceiversWait /\ SendersWait
  BY DEF ValueInv
<1> HIDE DEF v
<1>6. CASE /\ recvq[c] # <<>> /\ recvq' = [recvq EXCEPT ![c] = Tail(recvq[c])]
           /\ pc' = [pc EXCEPT ![r] = Served(r)] /\ hand' = [hand EXCEPT ![r] = Held(r, v)]
           /\ used' = used \cup UsedBy(r, v) /\ got' = [got EXCEPT ![c] = Append(got[c], v)]
           /\ sendq' = sendq
  <2>1. r \in Goroutines /\ pc[r] = "receives"
    <3>1. recvq[c] \in Seq(Goroutines)
      BY DEF ChannelTypes
    <3>2. Len(recvq[c]) \in Nat \ {0}
      BY <1>6, <3>1, EmptySeq
    <3>3. r = recvq[c][1] /\ 1 \in 1..Len(recvq[c])
      BY <1>6, <3>1, <3>2, HeadTailProperties
    <3> QED
      BY <1>5, <3>1, <3>3, ElementOfSeq DEF ReceiversWait
  <2> HIDE DEF r
  <2>2. /\ \A h \in Goroutines \ {r} : pc'[h] = pc[h]
        /\ pc'[r] = Served(r) /\ Served(r) \in {"posts", "runs"}
        /\ pc' \in [Goroutines -> States]
    BY <1>5, <1>6, <2>1, KnownStates, OneMoves DEF GoroutineTypes
  <2>3. ReceiversWait'
    BY <1>5, <1>6, <2>2, ReceiverServed DEF r
  <2>4. SendersWait'
    <3>1. \A h \in Goroutines : pc[h] = "sends" => pc'[h] = "sends"
      BY <2>1, <2>2
    <3> QED
      BY <1>5, <1>6, <3>1, SendersStay
  <2>5. v \notin Got /\ Got' = Got \cup {v}
    BY <1>1, <1>2, <1>3, <1>6, TakenOnce
  <2>6. Hands(r, v)
    BY <1>1, <1>6, <2>1, <2>2, <2>5 DEF Hands
  <2>7. GoroutineTypes' /\ CasesWork' /\ OneHolder'
    BY <1>5, <2>1, <2>6, Delivered
  <2> QED
    BY <1>3, <2>3, <2>4, <2>7 DEF ValueInv
<1>7. CASE \/ UNCHANGED <<pc, hand, used, got, recvq, sendq>>
           \/ /\ sendq' = [sendq EXCEPT ![c] = Append(sendq[c], [by |-> g, m |-> v])]
              /\ pc' = [pc EXCEPT ![g] = "sends"] /\ UNCHANGED <<hand, used, got, recvq>>
  <2>1. /\ \A h \in Goroutines \ {g} : pc'[h] = pc[h]
        /\ pc'[g] \in {"runs", "sends"} /\ pc' \in [Goroutines -> States]
        /\ UNCHANGED <<hand, used, got, recvq, chosen>>
    <3>1. "sends" \in States
      BY DEF States, Blocked
    <3>2. CASE UNCHANGED pc
      BY <1>1, <1>5, <1>7, <3>2 DEF GoroutineTypes
    <3>3. CASE pc' = [pc EXCEPT ![g] = "sends"]
      BY <1>1, <1>5, <1>7, <3>1, <3>3, OneMoves DEF GoroutineTypes
    <3> QED
      BY <1>7, <3>2, <3>3
  <2>2. ReceiversWait'
    <3>1. \A h \in Goroutines : pc[h] = "receives" => pc'[h] = "receives"
      BY <1>1, <2>1
    <3> QED
      BY <1>5, <2>1, <3>1, ReceiversStay
  <2>3. SendersWait'
    <3>1. CASE UNCHANGED <<pc, sendq>>
      BY <1>5, <3>1, SendersStay
    <3>2. CASE /\ sendq' = [sendq EXCEPT ![c] = Append(sendq[c], [by |-> g, m |-> v])]
               /\ pc' = [pc EXCEPT ![g] = "sends"]
      <4> DEFINE x == [by |-> g, m |-> v]
      <4>1. x \in Waiting /\ x.by = g
        BY <1>1 DEF Waiting
      <4>2. sendq' = [sendq EXCEPT ![c] = Append(sendq[c], x)]
        BY <3>2
      <4> HIDE DEF x
      <4>3. pc[g] # "sends" /\ pc'[g] = "sends" /\ \A h \in Goroutines : pc[h] = "sends" => pc'[h] = "sends"
        BY <1>1, <1>5, <3>2 DEF GoroutineTypes
      <4> QED
        BY <1>5, <4>1, <4>2, <4>3, SenderComes
    <3> QED
      BY <1>7, <3>1, <3>2
  <2>4. GoroutineTypes' /\ CasesWork'
    BY <1>1, <1>5, <2>1 DEF GoroutineTypes, CasesWork
  <2>5. OneHolder'
    <3>1. HoldsSame
      BY <1>1, <2>1 DEF HoldsSame, Holds
    <3>2. Got' = Got
      BY <2>1 DEF Got
    <3> QED
      BY <1>1, <1>5, <2>1, <3>1, <3>2, HoldersSame
  <2> QED
    BY <1>3, <2>2, <2>3, <2>4, <2>5 DEF ValueInv
<1> QED
  BY <1>4, <1>6, <1>7

LEMMA ReceiveKeepsValues ==
    ASSUME ChannelTypes, NoneStranded, ValueInv, NEW g \in Goroutines, NEW c \in Channels,
           Receive(g, c), pc[g] \in {"runs", "fires"}
    PROVE  ValueInv'
<1> DEFINE m == Head(queue[c])
           s == Head(sendq[c])
<1>1. sends' = sends /\ UNCHANGED <<role, chosen, selects, lost>>
  BY DEF Receive, selectVars
<1>2. ChannelTypes' /\ (Takes(c) \/ UNCHANGED <<got, queue, sendq>>)
  BY ReceiveKeeps
<1>3. EachAccepted'
  BY <1>1, <1>2, AcceptedSame DEF ValueInv
<1>4. \/ /\ queue[c] # <<>> /\ recvq' = recvq
         /\ hand' = [hand EXCEPT ![g] = Held(g, m)]
         /\ used' = used \cup UsedBy(g, m) /\ got' = [got EXCEPT ![c] = Append(got[c], m)]
         /\ \/ pc' = [pc EXCEPT ![g] = Served(g)] /\ sendq' = sendq
            \/ /\ sendq[c] # <<>> /\ sendq' = [sendq EXCEPT ![c] = Tail(sendq[c])]
               /\ pc' = [pc EXCEPT ![g] = Served(g), ![s.by] = "runs"]
      \/ /\ recvq' = [recvq EXCEPT ![c] = Append(recvq[c], g)]
         /\ pc' = [pc EXCEPT ![g] = "receives"]
         /\ UNCHANGED <<queue, sendq, hand, used, got>>
  BY DEF Receive
<1>5. GoroutineTypes /\ CasesWork /\ OneHolder /\ ReceiversWait /\ SendersWait
  BY DEF ValueInv
<1>6. CASE /\ queue[c] # <<>> /\ recvq' = recvq
           /\ hand' = [hand EXCEPT ![g] = Held(g, m)]
           /\ used' = used \cup UsedBy(g, m) /\ got' = [got EXCEPT ![c] = Append(got[c], m)]
           /\ \/ pc' = [pc EXCEPT ![g] = Served(g)] /\ sendq' = sendq
              \/ /\ sendq[c] # <<>> /\ sendq' = [sendq EXCEPT ![c] = Tail(sendq[c])]
                 /\ pc' = [pc EXCEPT ![g] = Served(g), ![s.by] = "runs"]
  <2>1. m \in Nat
    <3>1. queue[c] \in Seq(Nat)
      BY DEF ChannelTypes
    <3> QED
      BY <1>6, <3>1, HeadAndTail
  <2>2. sendq[c] # <<>> => s.by \in Goroutines /\ pc[s.by] = "sends"
    <3> SUFFICES ASSUME sendq[c] # <<>> PROVE s.by \in Goroutines /\ pc[s.by] = "sends"
      OBVIOUS
    <3>1. sendq[c] \in Seq(Waiting)
      BY DEF ChannelTypes
    <3>2. Len(sendq[c]) \in Nat \ {0}
      BY <3>1, EmptySeq
    <3>3. s = sendq[c][1] /\ 1 \in 1..Len(sendq[c]) /\ s \in Waiting
      BY <3>1, <3>2, HeadTailProperties
    <3> QED
      BY <1>5, <3>3 DEF SendersWait, Waiting
  <2> HIDE DEF m, s
  <2>3. /\ pc' \in [Goroutines -> States] /\ pc'[g] = Served(g) /\ Served(g) \in {"posts", "runs"}
        /\ \A h \in Goroutines \ {g} : pc'[h] = pc[h] \/ (pc[h] = "sends" /\ pc'[h] = "runs")
    <3>1. "runs" \in States /\ Served(g) \in States /\ Served(g) \in {"posts", "runs"}
      BY KnownStates DEF States
    <3>2. CASE pc' = [pc EXCEPT ![g] = Served(g)]
      BY <1>5, <3>1, <3>2, OneMoves DEF GoroutineTypes
    <3>3. CASE sendq[c] # <<>> /\ pc' = [pc EXCEPT ![g] = Served(g), ![s.by] = "runs"]
      <4>1. s.by \in Goroutines /\ pc[s.by] = "sends" /\ s.by # g
        BY <2>2, <3>3
      <4>2. pc' = [[pc EXCEPT ![g] = Served(g)] EXCEPT ![s.by] = "runs"]
        BY <3>3
      <4> QED
        BY <1>5, <3>1, <4>1, <4>2 DEF GoroutineTypes
    <3> QED
      BY <1>6, <3>2, <3>3
  <2>4. ReceiversWait'
    <3>1. \A h \in Goroutines : pc[h] = "receives" => pc'[h] = "receives"
      BY <2>3
    <3> QED
      BY <1>5, <1>6, <3>1, ReceiversStay
  <2>5. SendersWait'
    <3>1. CASE pc' = [pc EXCEPT ![g] = Served(g)] /\ sendq' = sendq
      <4>1. \A h \in Goroutines : pc[h] = "sends" => pc'[h] = "sends"
        BY <1>5, <3>1 DEF GoroutineTypes
      <4> QED
        BY <1>5, <3>1, <4>1, SendersStay
    <3>2. CASE /\ sendq[c] # <<>> /\ sendq' = [sendq EXCEPT ![c] = Tail(sendq[c])]
               /\ pc' = [pc EXCEPT ![g] = Served(g), ![s.by] = "runs"]
      <4>1. \A h \in Goroutines \ {s.by} : pc[h] = "sends" => pc'[h] = "sends"
        BY <1>5, <3>2 DEF GoroutineTypes
      <4> QED
        BY <1>5, <3>2, <4>1, SenderServed DEF s
    <3> QED
      BY <1>6, <3>1, <3>2
  <2>6. m \notin Got /\ Got' = Got \cup {m}
    BY <1>2, <1>3, <1>6, <2>1, TakenOnce
  <2>7. Hands(g, m)
    BY <1>1, <1>6, <2>1, <2>3, <2>6 DEF Hands
  <2>8. GoroutineTypes' /\ CasesWork' /\ OneHolder'
    BY <1>5, <2>7, Delivered
  <2> QED
    BY <1>3, <2>4, <2>5, <2>8 DEF ValueInv
<1>7. CASE /\ recvq' = [recvq EXCEPT ![c] = Append(recvq[c], g)]
           /\ pc' = [pc EXCEPT ![g] = "receives"]
           /\ UNCHANGED <<queue, sendq, hand, used, got>>
  <2>1. /\ \A h \in Goroutines \ {g} : pc'[h] = pc[h]
        /\ pc'[g] = "receives" /\ pc' \in [Goroutines -> States]
    <3>1. "receives" \in States
      BY DEF States, Blocked
    <3> QED
      BY <1>5, <1>7, <3>1, OneMoves DEF GoroutineTypes
  <2>2. ReceiversWait'
    <3>1. pc[g] # "receives" /\ \A h \in Goroutines : pc[h] = "receives" => pc'[h] = "receives"
      BY <2>1
    <3> QED
      BY <1>5, <1>7, <2>1, <3>1, ReceiverComes
  <2>3. SendersWait'
    <3>1. \A h \in Goroutines : pc[h] = "sends" => pc'[h] = "sends"
      BY <2>1
    <3> QED
      BY <1>5, <1>7, <3>1, SendersStay
  <2>4. GoroutineTypes' /\ CasesWork'
    BY <1>1, <1>5, <1>7, <2>1 DEF GoroutineTypes, CasesWork
  <2>5. OneHolder'
    <3>1. HoldsSame
      BY <1>1, <1>7, <2>1 DEF HoldsSame, Holds
    <3>2. Got' = Got
      BY <1>7 DEF Got
    <3> QED
      BY <1>1, <1>5, <1>7, <3>1, <3>2, HoldersSame
  <2> QED
    BY <1>3, <2>2, <2>3, <2>4, <2>5 DEF ValueInv
<1> QED
  BY <1>4, <1>6, <1>7

-----------------------------------------------------------------------------
(* Cases post what they received, and a select takes the first post. *)

LEMMA PostKeeps ==
    ASSUME ChannelTypes, ValueInv, NEW w \in Workers, Post(w)
    PROVE  ValueInv'
<1> DEFINE v == hand[w]
<1>1. /\ pc[w] = "posts" /\ w \in Goroutines /\ pc' = [pc EXCEPT ![w] = "over"]
      /\ hand' = [hand EXCEPT ![w] = 0]
      /\ UNCHANGED <<role, chanVars, used, selects>>
  BY DEF Post, Goroutines
<1>2. \/ \E g \in Goroutines :
            /\ pc[g] = "selects" /\ lost' = lost
            /\ chosen' = [chosen EXCEPT ![g].posted = Append(@, v)]
      \/ lost' = lost \cup {v} /\ chosen' = chosen
  BY Zenon DEF Post
<1>3. GoroutineTypes /\ CasesWork /\ OneHolder /\ ReceiversWait /\ SendersWait /\ EachAccepted
  BY DEF ValueInv
<1>4. /\ \A h \in Goroutines \ {w} : pc'[h] = pc[h] /\ hand'[h] = hand[h]
      /\ pc'[w] = "over" /\ pc' \in [Goroutines -> States]
      /\ hand' \in [Goroutines -> Nat] /\ v \in Nat
  <2>1. "over" \in States
    BY DEF States
  <2>2. /\ \A h \in Goroutines \ {w} : hand'[h] = hand[h]
        /\ hand' \in [Goroutines -> Nat] /\ v \in Nat
    BY <1>1, <1>3 DEF GoroutineTypes
  <2> QED
    BY <1>1, <1>3, <2>1, <2>2, OneMoves DEF GoroutineTypes
<1>5. EachAccepted' /\ Got' = Got
  BY <1>1, <1>3, NothingAccepted
<1>6. ReceiversWait' /\ SendersWait'
  <2>1. \A h \in Goroutines : /\ pc[h] = "receives" => pc'[h] = "receives"
                              /\ pc[h] = "sends" => pc'[h] = "sends"
    BY <1>1, <1>4
  <2> QED
    BY <1>1, <1>3, <2>1, ReceiversStay, SendersStay DEF chanVars
<1>7. Holds(w, 0, v) /\ \A x \in Nat : Holds(w, 0, x) => x = v
  BY <1>1 DEF Holds
<1>8. v \in Got \ (used \cup lost)
  BY <1>1, <1>3, <1>4, <1>7 DEF OneHolder
<1> HIDE DEF v
<1>9. CASE \E g \in Goroutines :
            /\ pc[g] = "selects" /\ lost' = lost
            /\ chosen' = [chosen EXCEPT ![g].posted = Append(@, v)]
  <2>1. PICK g \in Goroutines :
            /\ pc[g] = "selects" /\ lost' = lost
            /\ chosen' = [chosen EXCEPT ![g].posted = Append(@, v)]
    BY <1>9
  <2> DEFINE p == chosen[g].posted
             n == Len(p) + 1
  <2>2. p \in Seq(Nat) /\ Len(p) \in Nat
    BY <1>3 DEF GoroutineTypes
  <2>3. /\ chosen' \in [Goroutines -> [turn : Nat, posted : Seq(Nat)]]
        /\ chosen'[g].posted = Append(p, v)
        /\ \A h \in Goroutines \ {g} : chosen'[h] = chosen[h]
    <3>1. Append(p, v) \in Seq(Nat)
      BY <1>4, <2>2, AppendFacts
    <3>2. chosen[g] \in [turn : Nat, posted : Seq(Nat)]
      BY <1>3 DEF GoroutineTypes
    <3>3. chosen' = [chosen EXCEPT ![g] = [chosen[g] EXCEPT !.posted = Append(p, v)]]
      BY <2>1
    <3> QED
      BY <1>3, <3>1, <3>2, <3>3 DEF GoroutineTypes
  <2>4. /\ Len(chosen'[g].posted) = n /\ chosen'[g].posted[n] = v
        /\ \A i \in 1..Len(p) : chosen'[g].posted[i] = p[i]
    BY <1>4, <2>2, <2>3, AppendFacts
  <2>5. GoroutineTypes' /\ CasesWork'
    <3>1. GoroutineTypes'
      BY <1>1, <1>3, <1>4, <2>3 DEF GoroutineTypes
    <3>2. pc'[g] = "selects" /\ g # w
      BY <1>1, <1>4, <2>1
    <3>3. ASSUME NEW h \in Goroutines
          PROVE  /\ role'[h] = "case" \/ pc'[h] = "posts" => h \in Workers
                 /\ pc'[h] # "selects" => chosen'[h].posted = <<>>
      <4>1. CASE h = g
        BY <1>1, <1>3, <3>2, <4>1 DEF CasesWork
      <4>2. CASE h # g /\ h = w
        BY <1>1, <1>3, <1>4, <2>3, <4>2 DEF CasesWork
      <4>3. CASE h # g /\ h # w
        <5>1. pc'[h] = pc[h] /\ role'[h] = role[h] /\ chosen'[h] = chosen[h]
          BY <1>1, <1>4, <2>3, <4>3
        <5> QED
          BY <1>3, <5>1 DEF CasesWork
      <4> QED
        BY <4>1, <4>2, <4>3
    <3> QED
      BY <3>1, <3>3 DEF CasesWork
  <2>6. \A h \in Goroutines, k \in Nat, x \in Nat :
           Holds(h, k, x)' <=> (Holds(h, k, x) /\ ~(h = w /\ k = 0)) \/ (h = g /\ k = n /\ x = v)
    <3> SUFFICES ASSUME NEW h \in Goroutines, NEW k \in Nat, NEW x \in Nat
                 PROVE  Holds(h, k, x)' <=>
                           (Holds(h, k, x) /\ ~(h = w /\ k = 0)) \/ (h = g /\ k = n /\ x = v)
      OBVIOUS
    <3>1. CASE k = 0
      <4>1. ~(k = n)
        BY <2>2, <3>1
      <4> QED
        BY <1>4, <3>1, <4>1 DEF Holds
    <3>2. CASE k # 0 /\ h # g
      BY <2>3, <3>2 DEF Holds
    <3>3. CASE k # 0 /\ h = g
      <4>0. ASSUME NEW l \in Nat
            PROVE  \/ k \in 1..l /\ k # l + 1
                   \/ k = l + 1 /\ k \notin 1..l
                   \/ k \notin 1..l + 1 /\ k # l + 1 /\ k \notin 1..l
        BY <3>3
      <4>1. \/ k \in 1..Len(p) /\ k # n /\ chosen'[g].posted[k] = p[k]
            \/ k = n /\ k \notin 1..Len(p)
            \/ k \notin 1..n /\ k # n /\ k \notin 1..Len(p)
        <5>1. Len(p) \in Nat /\ \A i \in 1..Len(p) : chosen'[g].posted[i] = p[i]
          BY <2>2, <2>4
        <5> QED
          BY <4>0, <5>1, Zenon
      <4>2. k \in 1..Len(p) => k \in 1..n
        BY <2>2
      <4>3. k = n => k \in 1..n
        BY <2>2
      <4> HIDE DEF n
      <4> QED
        BY <2>4, <3>3, <4>1, <4>2, <4>3 DEF Holds
    <3> QED
      BY <3>1, <3>2, <3>3
  <2>7. n \in Nat /\ n # 0
    BY <2>2
  <2> HIDE DEF n, p
  <2>8. OneHolder'
    <3>1. used' \subseteq Got' /\ lost' \subseteq Got' /\ used' \cap lost' = {}
      BY <1>1, <1>3, <1>5, <2>1 DEF OneHolder
    <3>2. used' = used /\ lost' = lost
      BY <1>1, <2>1
    <3>3. ASSUME NEW h \in Goroutines, NEW k \in Nat, NEW x \in Nat, Holds(h, k, x)'
          PROVE  x \in Got' \ (used' \cup lost')
      BY <1>3, <1>5, <1>8, <2>6, <3>2, <3>3 DEF OneHolder
    <3>4. \A h \in Goroutines, k \in Nat : Holds(h, k, v) => h = w /\ k = 0
      <4>1. 0 \in Nat
        OBVIOUS
      <4> QED
        BY <1>1, <1>3, <1>4, <1>7, <4>1 DEF OneHolder
    <3>5. ASSUME NEW h \in Goroutines, NEW i \in Goroutines, NEW k \in Nat, NEW l \in Nat, NEW x \in Nat,
                 Holds(h, k, x)', Holds(i, l, x)'
          PROVE  h = i /\ k = l
      BY <1>3, <2>6, <3>4, <3>5 DEF OneHolder
    <3>6. ASSUME NEW x \in Got' \ (used' \cup lost')
          PROVE  \E h \in Goroutines : \E k \in Nat : Holds(h, k, x)'
      <4>1. x \in Nat
        BY DEF Got
      <4>2. CASE x = v
        BY <2>6, <2>7, <4>1, <4>2
      <4>3. CASE x # v
        <5>0. PICK h \in Goroutines : \E k \in Nat : Holds(h, k, x)
          BY <1>3, <1>5, <3>2 DEF OneHolder
        <5>1. PICK k \in Nat : Holds(h, k, x)
          BY <5>0
        <5>2. ~(h = w /\ k = 0)
          BY <1>7, <4>1, <4>3, <5>1
        <5> QED
          BY <2>6, <4>1, <5>1, <5>2
      <4> QED
        BY <4>2, <4>3
    <3> QED
      BY <3>1, <3>3, <3>5, <3>6 DEF OneHolder
  <2> QED
    BY <1>5, <1>6, <2>5, <2>8 DEF ValueInv
<1>10. CASE lost' = lost \cup {v} /\ chosen' = chosen
  <2>1. GoroutineTypes' /\ CasesWork'
    BY <1>1, <1>3, <1>4, <1>10 DEF GoroutineTypes, CasesWork
  <2>2. \A h \in Goroutines, k \in Nat, x \in Nat :
           Holds(h, k, x)' <=> Holds(h, k, x) /\ ~(h = w /\ k = 0)
    BY <1>4, <1>10 DEF Holds
  <2>3. OneHolder'
    <3>1. used' \subseteq Got' /\ lost' \subseteq Got' /\ used' \cap lost' = {}
      BY <1>1, <1>3, <1>5, <1>8, <1>10 DEF OneHolder
    <3>2. used' = used /\ lost' = lost \cup {v}
      BY <1>1, <1>10
    <3>3. \A h \in Goroutines, k \in Nat : Holds(h, k, v) => h = w /\ k = 0
      <4>1. 0 \in Nat
        OBVIOUS
      <4> QED
        BY <1>1, <1>3, <1>4, <1>7, <4>1 DEF OneHolder
    <3>4. ASSUME NEW h \in Goroutines, NEW k \in Nat, NEW x \in Nat, Holds(h, k, x)'
          PROVE  x \in Got' \ (used' \cup lost')
      BY <1>3, <1>5, <2>2, <3>2, <3>3, <3>4 DEF OneHolder
    <3>5. ASSUME NEW h \in Goroutines, NEW i \in Goroutines, NEW k \in Nat, NEW l \in Nat, NEW x \in Nat,
                 Holds(h, k, x)', Holds(i, l, x)'
          PROVE  h = i /\ k = l
      BY <1>3, <2>2, <3>5 DEF OneHolder
    <3>6. ASSUME NEW x \in Got' \ (used' \cup lost')
          PROVE  \E h \in Goroutines : \E k \in Nat : Holds(h, k, x)'
      <4>1. x \in Nat /\ x # v
        BY <3>2 DEF Got
      <4>2. PICK h \in Goroutines : \E k \in Nat : Holds(h, k, x)
        BY <1>3, <1>5, <3>2 DEF OneHolder
      <4>3. PICK k \in Nat : Holds(h, k, x)
        BY <4>2
      <4>4. ~(h = w /\ k = 0)
        BY <1>7, <4>1, <4>3
      <4> QED
        BY <2>2, <4>1, <4>3, <4>4
    <3> QED
      BY <3>1, <3>4, <3>5, <3>6 DEF OneHolder
  <2> QED
    BY <1>5, <1>6, <2>1, <2>3 DEF ValueInv
<1> QED
  BY <1>2, <1>9, <1>10 DEF v

LEMMA ChooseKeeps ==
    ASSUME ChannelTypes, ValueInv, NEW g \in Goroutines, Choose(g)
    PROVE  ValueInv'
<1> DEFINE p == chosen[g].posted
           rest == {p[i] : i \in 2..Len(p)}
<1>1. /\ pc[g] = "selects" /\ p # <<>> /\ pc' = [pc EXCEPT ![g] = "runs"]
      /\ used' = used \cup {Head(p)} /\ lost' = lost \cup rest
      /\ chosen' = [chosen EXCEPT ![g].posted = <<>>]
      /\ UNCHANGED <<role, chanVars, hand, selects>>
  BY DEF Choose
<1>2. GoroutineTypes /\ CasesWork /\ OneHolder /\ ReceiversWait /\ SendersWait /\ EachAccepted
  BY DEF ValueInv
<1>3. /\ \A h \in Goroutines \ {g} : pc'[h] = pc[h] /\ chosen'[h] = chosen[h]
      /\ pc'[g] = "runs" /\ pc' \in [Goroutines -> States]
      /\ chosen' \in [Goroutines -> [turn : Nat, posted : Seq(Nat)]]
      /\ chosen'[g].posted = <<>>
  <2>1. "runs" \in States /\ <<>> \in Seq(Nat)
    BY DEF States
  <2>2. chosen[g] \in [turn : Nat, posted : Seq(Nat)]
    BY <1>2 DEF GoroutineTypes
  <2>3. chosen' = [chosen EXCEPT ![g] = [chosen[g] EXCEPT !.posted = <<>>]]
    BY <1>1
  <2>4. /\ chosen' \in [Goroutines -> [turn : Nat, posted : Seq(Nat)]]
        /\ chosen'[g].posted = <<>> /\ \A h \in Goroutines \ {g} : chosen'[h] = chosen[h]
    BY <1>2, <2>1, <2>2, <2>3 DEF GoroutineTypes
  <2> QED
    BY <1>1, <1>2, <2>1, <2>4, OneMoves DEF GoroutineTypes
<1>4. p \in Seq(Nat) /\ Len(p) \in Nat \ {0} /\ Head(p) = p[1] /\ \A i \in 1..Len(p) : p[i] \in Nat
  <2>1. p \in Seq(Nat)
    BY <1>2 DEF GoroutineTypes
  <2>2. Len(p) \in Nat \ {0}
    BY <1>1, <2>1, EmptySeq
  <2> QED
    BY <2>1, <2>2, ElementOfSeq
<1>5. EachAccepted' /\ Got' = Got
  BY <1>1, <1>2, NothingAccepted
<1>6. ReceiversWait' /\ SendersWait'
  <2>1. \A h \in Goroutines : /\ pc[h] = "receives" => pc'[h] = "receives"
                              /\ pc[h] = "sends" => pc'[h] = "sends"
    BY <1>1, <1>3
  <2> QED
    BY <1>1, <1>2, <2>1, ReceiversStay, SendersStay DEF chanVars
<1>7. GoroutineTypes' /\ CasesWork'
  BY <1>1, <1>2, <1>3 DEF GoroutineTypes, CasesWork
<1>8. \A x \in Nat : (x = Head(p) \/ x \in rest) <=> \E k \in Nat : Holds(g, k, x)
  <2>1. \A k \in Nat, x \in Nat : Holds(g, k, x) <=> k \in 1..Len(p) /\ p[k] = x
    BY <1>1 DEF Holds
  <2> SUFFICES ASSUME NEW x \in Nat
               PROVE  (x = Head(p) \/ x \in rest) <=> \E k \in Nat : Holds(g, k, x)
    OBVIOUS
  <2> HIDE DEF p
  <2>2. \A k : k \in 1..Len(p) <=> k \in Nat /\ (k = 1 \/ k \in 2..Len(p))
    BY <1>4
  <2>3. 1 \in 1..Len(p)
    BY <1>4
  <2> QED
    BY <1>4, <2>1, <2>2, <2>3
<1>9. Head(p) \notin rest
  <2>1. \A k \in 2..Len(p) : k \in Nat /\ k \in 1..Len(p) /\ k # 1 /\ k # 0
    BY <1>4
  <2>2. 1 \in 1..Len(p) /\ 1 \in Nat /\ 1 # 0
    BY <1>4
  <2> SUFFICES ASSUME NEW k \in 2..Len(p), p[k] = Head(p) PROVE FALSE
    OBVIOUS
  <2>3. Holds(g, 1, Head(p)) /\ Holds(g, k, Head(p)) /\ Head(p) \in Nat
    BY <1>4, <2>1, <2>2 DEF Holds
  <2> QED
    BY <1>2, <2>1, <2>2, <2>3 DEF OneHolder
<1>10. \A x \in rest : x \in Nat
  <2>1. \A k \in 2..Len(p) : k \in 1..Len(p)
    BY <1>4
  <2> QED
    BY <1>4, <2>1
<1>11. \A h \in Goroutines, k \in Nat, x \in Nat : Holds(h, k, x)' <=> Holds(h, k, x) /\ h # g
  <2> SUFFICES ASSUME NEW h \in Goroutines, NEW k \in Nat, NEW x \in Nat
               PROVE  Holds(h, k, x)' <=> Holds(h, k, x) /\ h # g
    OBVIOUS
  <2>1. CASE h # g
    BY <1>1, <1>3, <2>1 DEF Holds
  <2>2. CASE h = g
    <3>1. k \notin 1..Len(<<>>)
      OBVIOUS
    <3> QED
      BY <1>3, <2>2, <3>1 DEF Holds
  <2> QED
    BY <2>1, <2>2
<1>12. Head(p) \in Nat
  BY <1>4
<1> HIDE DEF p, rest
<1>13. OneHolder'
  <2>1. \A x \in Nat : x = Head(p) \/ x \in rest => x \in Got \ (used \cup lost)
    BY <1>2, <1>8 DEF OneHolder
  <2>2. used' \subseteq Got' /\ lost' \subseteq Got' /\ used' \cap lost' = {}
    BY <1>1, <1>2, <1>5, <1>9, <1>10, <1>12, <2>1 DEF OneHolder
  <2>3. ASSUME NEW h \in Goroutines, NEW k \in Nat, NEW x \in Nat, Holds(h, k, x)'
        PROVE  x \in Got' \ (used' \cup lost')
    <3>1. Holds(h, k, x) /\ h # g
      BY <1>11, <2>3
    <3>2. x \in Got \ (used \cup lost)
      BY <1>2, <3>1 DEF OneHolder
    <3>3. ~(x = Head(p) \/ x \in rest)
      BY <1>2, <1>8, <3>1 DEF OneHolder
    <3> QED
      BY <1>1, <1>5, <3>2, <3>3
  <2>4. ASSUME NEW h \in Goroutines, NEW i \in Goroutines, NEW k \in Nat, NEW l \in Nat, NEW x \in Nat,
               Holds(h, k, x)', Holds(i, l, x)'
        PROVE  h = i /\ k = l
    BY <1>2, <1>11, <2>4 DEF OneHolder
  <2>5. ASSUME NEW x \in Got' \ (used' \cup lost')
        PROVE  \E h \in Goroutines : \E k \in Nat : Holds(h, k, x)'
    <3>1. x \in Nat /\ x \in Got \ (used \cup lost) /\ ~(x = Head(p) \/ x \in rest)
      BY <1>1, <1>5 DEF Got
    <3>2. PICK h \in Goroutines : \E k \in Nat : Holds(h, k, x)
      BY <1>2, <3>1 DEF OneHolder
    <3>3. h # g
      BY <1>8, <3>1, <3>2
    <3> QED
      BY <1>11, <3>1, <3>2, <3>3
  <2> QED
    BY <2>2, <2>3, <2>4, <2>5 DEF OneHolder
<1> QED
  BY <1>5, <1>6, <1>7, <1>13 DEF ValueInv

-----------------------------------------------------------------------------
(* The other steps leave the values where they are. *)

(* Goroutine g goes on from a place that is none of those of values.        *)
LEMMA OneGoesOn ==
    ASSUME ChannelTypes, ValueInv, NEW g \in Goroutines, NEW x \in States,
           pc[g] \notin {"posts", "receives", "sends", "selects"}, x \notin {"posts", "receives", "sends"},
           pc' = [pc EXCEPT ![g] = x] \/ pc' = pc,
           \A h \in Goroutines : role'[h] = "case" => role[h] = "case",
           UNCHANGED <<chanVars, hand, used, lost, chosen, selects>>
    PROVE  ValueInv'
<1>1. GoroutineTypes /\ CasesWork
  BY DEF ValueInv
<1>2. pc' \in [Goroutines -> States] /\ \A h \in Goroutines \ {g} : pc'[h] = pc[h]
  BY <1>1, OneMoves DEF GoroutineTypes
<1>3. GoroutineTypes'
  BY <1>1, <1>2 DEF GoroutineTypes
<1>4. pc'[g] = x \/ pc'[g] = pc[g]
  BY <1>1, OneMoves DEF GoroutineTypes
<1>5. ASSUME NEW h \in Goroutines
      PROVE  /\ pc'[h] = "posts" <=> pc[h] = "posts"
             /\ pc[h] = "receives" => pc'[h] = "receives"
             /\ pc[h] = "sends" => pc'[h] = "sends"
             /\ chosen'[h].posted = chosen[h].posted
             /\ pc'[h] # "selects" => chosen'[h].posted = <<>>
             /\ role'[h] = "case" => h \in Workers
  <2>1. CASE h = g
    BY <1>1, <1>4, <2>1 DEF CasesWork
  <2>2. CASE h # g
    <3>1. pc'[h] = pc[h]
      BY <1>2, <2>2
    <3> QED
      BY <1>1, <3>1 DEF CasesWork
  <2> QED
    BY <2>1, <2>2
<1>6. Quiet
  BY <1>3, <1>5 DEF Quiet
<1> QED
  BY <1>6, QuietKeeps

LEMMA SelectKeepsValues ==
    ASSUME ChannelTypes, ValueInv, NEW g \in Goroutines, Select(g)
    PROVE  ValueInv'
<1>1. GoroutineTypes /\ CasesWork
  BY DEF ValueInv
<1>2. PICK ws \in SUBSET Workers :
        /\ Start(ws, "case")
        /\ pc' = [h \in Goroutines |-> IF h \in ws THEN "fires" ELSE IF h = g THEN "selects" ELSE pc[h]]
  BY DEF Select
<1>3. /\ pc[g] = "runs" /\ selects' = selects + 1 /\ UNCHANGED <<chanVars, hand, used, lost>>
      /\ chosen' = [chosen EXCEPT ![g] = [turn |-> selects + 1, posted |-> <<>>]]
  BY DEF Select, Runs
<1>4. /\ chosen' \in [Goroutines -> [turn : Nat, posted : Seq(Nat)]] /\ selects' \in Nat
      /\ chosen'[g].posted = <<>> /\ chosen[g].posted = <<>>
      /\ \A h \in Goroutines \ {g} : chosen'[h] = chosen[h]
  <2>1. [turn |-> selects + 1, posted |-> <<>>] \in [turn : Nat, posted : Seq(Nat)] /\ selects + 1 \in Nat
    BY <1>1 DEF GoroutineTypes
  <2> QED
    BY <1>1, <1>3, <2>1 DEF GoroutineTypes, CasesWork
<1>5. "fires" \in States /\ "selects" \in States
  BY DEF States, Blocked
<1>6. GoroutineTypes'
  BY <1>1, <1>2, <1>3, <1>4, <1>5 DEF GoroutineTypes
<1>7. ASSUME NEW h \in Goroutines
      PROVE  /\ pc'[h] = "posts" <=> pc[h] = "posts"
             /\ pc[h] = "receives" => pc'[h] = "receives"
             /\ pc[h] = "sends" => pc'[h] = "sends"
             /\ chosen'[h].posted = chosen[h].posted
             /\ pc'[h] # "selects" => chosen'[h].posted = <<>>
             /\ role'[h] = "case" => h \in Workers
  <2>1. CASE h \in ws
    <3>1. pc[h] = "none" /\ pc'[h] = "fires" /\ h \in Workers /\ h # g
      BY <1>2, <1>3, <2>1 DEF Start
    <3> QED
      BY <1>1, <1>4, <3>1 DEF CasesWork
  <2>2. CASE h \notin ws /\ h = g
    <3>1. pc'[h] = "selects" /\ role'[h] = role[h]
      BY <1>2, <2>2 DEF Start
    <3> QED
      BY <1>1, <1>3, <1>4, <2>2, <3>1 DEF CasesWork
  <2>3. CASE h \notin ws /\ h # g
    <3>1. pc'[h] = pc[h] /\ role'[h] = role[h]
      BY <1>2, <2>3 DEF Start
    <3> QED
      BY <1>1, <1>4, <2>3, <3>1 DEF CasesWork
  <2> QED
    BY <2>1, <2>2, <2>3
<1>8. Quiet
  BY <1>3, <1>6, <1>7 DEF Quiet
<1> QED
  BY <1>8, QuietKeeps

LEMMA OtherKeeps ==
    ASSUME ChannelTypes, ValueInv, NEW g \in Goroutines, NEW w \in Goroutines,
           \/ Spawn(g, w) \/ SetTimeout(g, w) \/ SetInterval(g, w) \/ ClearInterval(g, w)
           \/ Listen(g) \/ CloseServer(g) \/ Panic(g)
           \/ Wake(w) \/ Tick(w) \/ TakeTick(w) \/ CallInterval(w) \/ Request(w) \/ Return(w)
           \/ MainReturns \/ MainFails \/ ServeReturns \/ Exit \/ Deadlock \/ UNCHANGED vars
    PROVE  ValueInv'
<1> DEFINE Kept == UNCHANGED <<chanVars, hand, used, lost, chosen, selects>>
           RolesKept == \A h \in Goroutines : role'[h] = "case" => role[h] = "case"
<1>0. Main \in Goroutines
  BY DEF Goroutines
<1>1. {"none", "asleep", "runs", "fires", "over", "ticks"} \subseteq States
  BY DEF States, Blocked
<1>2. ASSUME NEW r \in {"spawn", "timeout", "interval", "handler"}, Start({w}, r)
      PROVE  RolesKept /\ pc[w] = "none"
  BY <1>2 DEF Start
<1>3. CASE Spawn(g, w) \/ SetTimeout(g, w) \/ SetInterval(g, w) \/ Request(w)
  <2>1. /\ Kept /\ \E x \in {"runs", "asleep", "ticks"} : pc' = [pc EXCEPT ![w] = x]
        /\ \E r \in {"spawn", "timeout", "interval", "handler"} : Start({w}, r)
    BY <1>3 DEF Spawn, SetTimeout, SetInterval, Request, selectVars
  <2>2. RolesKept /\ pc[w] = "none"
    BY <1>2, <2>1
  <2>3. PICK x \in {"runs", "asleep", "ticks"} : pc' = [pc EXCEPT ![w] = x]
    BY <2>1
  <2>4. x \in States /\ x \notin {"posts", "receives", "sends"}
    BY <1>1
  <2> QED
    BY <1>0, <2>1, <2>2, <2>3, <2>4, OneGoesOn
<1>4. CASE Wake(w) \/ TakeTick(w) \/ CallInterval(w) \/ Return(w)
  <2>1. /\ Kept /\ RolesKept /\ pc[w] \in {"asleep", "ticks", "fires", "runs"}
        /\ \E x \in {"runs", "fires", "ticks", "over"} : pc' = [pc EXCEPT ![w] = x]
    BY <1>4 DEF Wake, TakeTick, CallInterval, Return, Runs, selectVars
  <2>2. PICK x \in {"runs", "fires", "ticks", "over"} : pc' = [pc EXCEPT ![w] = x]
    BY <2>1
  <2>3. x \in States /\ x \notin {"posts", "receives", "sends"}
    BY <1>1
  <2> QED
    BY <1>0, <2>1, <2>2, <2>3, OneGoesOn
<1>5. CASE MainReturns \/ Panic(g)
  <2>1. /\ Kept /\ RolesKept
        /\ \E h \in Goroutines : pc[h] = "runs" /\ (pc' = [pc EXCEPT ![h] = "over"] \/ pc' = pc)
    BY <1>0, <1>5 DEF MainReturns, Panic, Runs, selectVars
  <2>2. PICK h \in Goroutines : pc[h] = "runs" /\ (pc' = [pc EXCEPT ![h] = "over"] \/ pc' = pc)
    BY <2>1
  <2> QED
    BY <1>1, <2>1, <2>2, OneGoesOn
<1>6. CASE \/ ClearInterval(g, w) \/ Listen(g) \/ CloseServer(g) \/ Tick(w)
           \/ MainFails \/ ServeReturns \/ Exit \/ Deadlock \/ UNCHANGED vars
  <2>1. Kept /\ UNCHANGED <<pc, role>>
    BY <1>6 DEF ClearInterval, Listen, CloseServer, Tick, MainFails, ServeReturns, Exit, Deadlock,
                selectVars, vars
  <2>2. Quiet
    BY <2>1 DEF Quiet, ValueInv, GoroutineTypes, CasesWork
  <2> QED
    BY <2>2, QuietKeeps
<1> QED
  BY <1>3, <1>4, <1>5, <1>6

LEMMA ValueStep ==
    ASSUME ChannelInv, ValueInv, [TasksNext]_vars
    PROVE  ValueInv'
<1>0. ChannelTypes /\ NoneStranded /\ Main \in Goroutines /\ Workers \subseteq Goroutines
  BY DEF ChannelInv, Goroutines
<1>1. ASSUME NEW g \in Goroutines, ScriptStep(g) \/ Choose(g)
      PROVE  ValueInv'
  <2>1. ASSUME NEW c \in Channels, Send(g, c) PROVE ValueInv'
    BY <1>0, <2>1, SendKeepsValues
  <2>2. ASSUME NEW c \in Channels, Recv(g, c) PROVE ValueInv'
    <3>1. pc[g] \in {"runs", "fires"} /\ Receive(g, c)
      BY <2>2 DEF Recv, Runs
    <3> QED
      BY <1>0, <3>1, ReceiveKeepsValues
  <2>3. ASSUME NEW w \in Workers,
               Spawn(g, w) \/ SetTimeout(g, w) \/ SetInterval(g, w) \/ ClearInterval(g, w)
        PROVE  ValueInv'
    BY <1>0, <2>3, OtherKeeps
  <2>4. ASSUME Listen(g) \/ CloseServer(g) \/ Panic(g) PROVE ValueInv'
    BY <1>0, <2>4, OtherKeeps
  <2>5. ASSUME Select(g) PROVE ValueInv'
    BY <1>0, <2>5, SelectKeepsValues
  <2>6. ASSUME Choose(g) PROVE ValueInv'
    BY <1>0, <2>6, ChooseKeeps
  <2> QED
    BY <1>1, <2>1, <2>2, <2>3, <2>4, <2>5, <2>6, Zenon DEF ScriptStep
<1>2. ASSUME NEW w \in Workers, RuntimeStep(w) \/ Request(w) \/ Return(w)
      PROVE  ValueInv'
  <2>0. w \in Goroutines
    BY <1>0
  <2>1. ASSUME CaseReceive(w) PROVE ValueInv'
    <3>1. /\ pc[w] \in {"runs", "fires"} /\ role[w] = "case" /\ Receive(w, source[w].from)
          /\ source[w].from \in Channels
      BY <2>1 DEF CaseReceive, ChannelInv, CasesReceive
    <3> QED
      BY <1>0, <2>0, <3>1, ReceiveKeepsValues
  <2>2. ASSUME Post(w) PROVE ValueInv'
    BY <1>0, <2>2, PostKeeps
  <2>3. ASSUME Wake(w) \/ Tick(w) \/ TakeTick(w) \/ CallInterval(w) \/ Request(w) \/ Return(w)
        PROVE  ValueInv'
    BY <1>0, <2>0, <2>3, OtherKeeps
  <2> QED
    BY <1>2, <2>1, <2>2, <2>3, Zenon DEF RuntimeStep
<1>3. ASSUME MainReturns \/ MainFails \/ ServeReturns \/ Exit \/ Deadlock \/ UNCHANGED vars
      PROVE  ValueInv'
  BY <1>0, <1>3, OtherKeeps
<1> QED
  BY <1>1, <1>2, <1>3, Zenon DEF TasksNext

LEMMA ValuesInitially == TasksInit => ValueInv
<1> SUFFICES ASSUME TasksInit PROVE ValueInv
  OBVIOUS
<1>1. /\ queue = [c \in Channels |-> <<>>] /\ sendq = [c \in Channels |-> <<>>]
      /\ recvq = [c \in Channels |-> <<>>] /\ got = [c \in Channels |-> <<>>] /\ sends = 0
      /\ role = [g \in Goroutines |-> "script"] /\ hand = [g \in Goroutines |-> 0]
      /\ pc = [g \in Goroutines |-> IF g = Main THEN "runs" ELSE "none"]
      /\ chosen = [g \in Goroutines |-> [turn |-> 0, posted |-> <<>>]]
      /\ selects = 0 /\ used = {} /\ lost = {}
  BY DEF TasksInit
<1>2. Len(<<>>) = 0 /\ (\A S : <<>> \in Seq(S)) /\ \A i : i \notin 1..0
  BY EmptySeq
<1>3. \A c \in Channels : \A i : i \notin Place(c)
  <2>1. ChannelTypes
    BY ChannelsInitially DEF ChannelInv
  <2> SUFFICES ASSUME NEW c \in Channels PROVE Len(AcceptedOf(c)) = 0
    BY <1>2 DEF Place
  <2>2. /\ Len(AcceptedOf(c)) = Len(got[c]) + Len(queue[c]) + Len(sendq[c])
    BY <2>1, Places DEF PlacesKnown
  <2>3. got[c] = <<>> /\ queue[c] = <<>> /\ sendq[c] = <<>>
    BY <1>1
  <2> QED
    BY <1>2, <2>2, <2>3
<1>4. EachAccepted
  BY <1>1, <1>2, <1>3 DEF EachAccepted
<1>5. GoroutineTypes /\ CasesWork
  <2>1. "runs" \in States /\ "none" \in States
    BY DEF States
  <2>2. [turn |-> 0, posted |-> <<>>] \in [turn : Nat, posted : Seq(Nat)]
    BY <1>2
  <2> QED
    BY <1>1, <2>1, <2>2 DEF GoroutineTypes, CasesWork
<1>6. ReceiversWait /\ SendersWait
  BY <1>1, <1>2 DEF ReceiversWait, SendersWait
<1>7. OneHolder
  <2>1. Got = {}
    BY <1>1, <1>2 DEF Got
  <2>2. \A g \in Goroutines, k \in Nat, m \in Nat : ~Holds(g, k, m)
    BY <1>1, <1>2 DEF Holds
  <2> QED
    BY <1>1, <2>1, <2>2 DEF OneHolder
<1> QED
  BY <1>4, <1>5, <1>6, <1>7 DEF ValueInv

-----------------------------------------------------------------------------
(* A value has one place. *)

LEMMA OnePart ==
    ASSUME ChannelTypes, EachAccepted, NEW m \in 1..sends
    PROVE  \/ m \in Got /\ m \notin InBuffer /\ m \notin InSends
           \/ m \notin Got /\ m \in InBuffer /\ m \notin InSends
           \/ m \notin Got /\ m \notin InBuffer /\ m \in InSends
<1> DEFINE a(c) == Len(got[c])
           b(c) == Len(queue[c])
           d(c) == Len(sendq[c])
           at(c, i) == AcceptedOf(c)[i]
<1>1. ASSUME NEW c \in Channels
      PROVE  /\ a(c) \in Nat /\ b(c) \in Nat /\ d(c) \in Nat
             /\ Place(c) = 1..a(c) + b(c) + d(c)
             /\ \A i \in 1..a(c) : at(c, i) = got[c][i]
             /\ \A i \in 1..b(c) : at(c, a(c) + i) = queue[c][i]
             /\ \A i \in 1..d(c) : at(c, a(c) + b(c) + i) = sendq[c][i].m
  BY Places DEF PlacesKnown, Place
<1>2. \A c \in Channels : DOMAIN queue[c] = 1..b(c) /\ DOMAIN sendq[c] = 1..d(c)
  BY DEF ChannelTypes
<1>3. /\ \E c \in Channels : \E i \in Place(c) : at(c, i) = m
      /\ \A c, e \in Channels : \A i \in Place(c), j \in Place(e) : at(c, i) = at(e, j) => c = e /\ i = j
  BY DEF EachAccepted
<1>4. m \in Nat
  BY DEF ChannelTypes
<1> HIDE DEF a, b, d, at
<1>5. m \in Got <=> \E c \in Channels : \E i \in 1..a(c) : at(c, i) = m
  <2>1. m \in Got <=> \E c \in Channels : \E i \in 1..a(c) : got[c][i] = m
    BY <1>4, Zenon DEF Got, a
  <2>2. \A c \in Channels : \A i \in 1..a(c) : at(c, i) = got[c][i]
    BY <1>1
  <2> QED
    BY <2>1, <2>2
<1>6. m \in InBuffer <=> \E c \in Channels : \E i \in 1..b(c) : at(c, a(c) + i) = m
  <2> DEFINE of(c) == {queue[c][i] : i \in DOMAIN queue[c]}
  <2>0. ASSUME NEW c \in Channels PROVE m \in of(c) <=> \E i \in 1..b(c) : queue[c][i] = m
    <3>1. m \in of(c) <=> \E i \in DOMAIN queue[c] : queue[c][i] = m
      OBVIOUS
    <3>2. DOMAIN queue[c] = 1..b(c)
      BY <1>2
    <3> QED
      BY <3>1, <3>2, Zenon
  <2>1. m \in InBuffer <=> \E c \in Channels : \E i \in 1..b(c) : queue[c][i] = m
    <3>1. m \in InBuffer <=> \E c \in Channels : m \in of(c)
      BY DEF InBuffer
    <3> QED
      BY <2>0, <3>1, Zenon
  <2>2. \A c \in Channels : \A i \in 1..b(c) : at(c, a(c) + i) = queue[c][i]
    BY <1>1
  <2> QED
    BY <2>1, <2>2
<1>7. m \in InSends <=> \E c \in Channels : \E i \in 1..d(c) : at(c, a(c) + b(c) + i) = m
  <2> DEFINE of(c) == {sendq[c][i].m : i \in DOMAIN sendq[c]}
  <2>0. ASSUME NEW c \in Channels PROVE m \in of(c) <=> \E i \in 1..d(c) : sendq[c][i].m = m
    <3>1. m \in of(c) <=> \E i \in DOMAIN sendq[c] : sendq[c][i].m = m
      OBVIOUS
    <3>2. DOMAIN sendq[c] = 1..d(c)
      BY <1>2
    <3> QED
      BY <3>1, <3>2, Zenon
  <2>1. m \in InSends <=> \E c \in Channels : \E i \in 1..d(c) : sendq[c][i].m = m
    <3>1. m \in InSends <=> \E c \in Channels : m \in of(c)
      BY DEF InSends
    <3> QED
      BY <2>0, <3>1, Zenon
  <2>2. \A c \in Channels : \A i \in 1..d(c) : at(c, a(c) + b(c) + i) = sendq[c][i].m
    BY <1>1
  <2> QED
    BY <2>1, <2>2
<1>8. PICK c \in Channels : \E i \in Place(c) : at(c, i) = m
  BY <1>3
<1>9. PICK i \in Place(c) : at(c, i) = m
  BY <1>8
<1>10. \A e \in Channels : \A j \in Place(e) : at(e, j) = m => e = c /\ j = i
  BY <1>3, <1>9
<1>11. m \in Got <=> i \in 1..a(c)
  <2>1. \A e \in Channels : \A j \in 1..a(e) : j \in Place(e)
    BY <1>1
  <2> QED
    BY <1>5, <1>9, <1>10, <2>1
<1>12. m \in InBuffer <=> i - a(c) \in 1..b(c)
  <2>1. \A e \in Channels : \A j \in 1..b(e) : a(e) + j \in Place(e) /\ (a(e) + j) - a(e) = j
    BY <1>1
  <2>2. i \in Int /\ i = a(c) + (i - a(c))
    BY <1>1
  <2>3. ASSUME m \in InBuffer PROVE i - a(c) \in 1..b(c)
    <3>1. PICK e \in Channels : \E j \in 1..b(e) : at(e, a(e) + j) = m
      BY <1>6, <2>3
    <3>2. PICK j \in 1..b(e) : at(e, a(e) + j) = m
      BY <3>1
    <3>3. e = c /\ a(e) + j = i
      BY <1>10, <2>1, <3>2
    <3> QED
      BY <2>1, <3>3
  <2> QED
    BY <1>6, <1>9, <2>2, <2>3
<1>13. m \in InSends <=> i - (a(c) + b(c)) \in 1..d(c)
  <2>1. \A e \in Channels : \A j \in 1..d(e) :
           a(e) + b(e) + j \in Place(e) /\ (a(e) + b(e) + j) - (a(e) + b(e)) = j
    BY <1>1
  <2>2. i \in Int /\ i = a(c) + b(c) + (i - (a(c) + b(c)))
    BY <1>1
  <2>3. ASSUME m \in InSends PROVE i - (a(c) + b(c)) \in 1..d(c)
    <3>1. PICK e \in Channels : \E j \in 1..d(e) : at(e, a(e) + b(e) + j) = m
      BY <1>7, <2>3
    <3>2. PICK j \in 1..d(e) : at(e, a(e) + b(e) + j) = m
      BY <3>1
    <3>3. e = c /\ a(e) + b(e) + j = i
      BY <1>10, <2>1, <3>2
    <3> QED
      BY <2>1, <3>3
  <2> QED
    BY <1>7, <1>9, <2>2, <2>3
<1> QED
  BY <1>1, <1>11, <1>12, <1>13

LEMMA OnePlace ==
    ASSUME ChannelTypes, ValueInv
    PROVE  Conserved
<1> DEFINE Parts == {<<"buffer", InBuffer>>, <<"sends", InSends>>, <<"cases", WithCases>>,
                     <<"used", used>>, <<"lost", lost>>}
<1> SUFFICES ASSUME NEW m \in 1..sends
             PROVE  Cardinality({p \in Parts : m \in p[2]}) = 1
  BY DEF Conserved
<1>1. m \in Nat
  BY DEF ChannelTypes
<1>2. m \in WithCases <=> \E g \in Goroutines : \E k \in Nat : Holds(g, k, m)
  <2>1. \A g \in Goroutines : DOMAIN chosen[g].posted = 1..Len(chosen[g].posted)
    <3>1. \A g \in Goroutines : chosen[g].posted \in Seq(Nat)
      BY DEF ValueInv, GoroutineTypes
    <3> QED
      BY <3>1
  <2>2. \A g \in Goroutines : \A k \in 1..Len(chosen[g].posted) : k \in Nat /\ k # 0
    BY <2>1
  <2>3. \A g \in Goroutines : Holds(g, 0, m) => g \in Workers /\ pc[g] = "posts" /\ hand[g] = m
    BY DEF Holds, ValueInv, CasesWork
  <2>4. \A g \in Workers : pc[g] = "posts" /\ hand[g] = m => g \in Goroutines /\ Holds(g, 0, m)
    BY DEF Holds, Goroutines
  <2>5. \A g \in Goroutines, k \in Nat :
           k # 0 => (Holds(g, k, m) <=> k \in 1..Len(chosen[g].posted) /\ chosen[g].posted[k] = m)
    BY DEF Holds
  <2>6. ASSUME m \in WithCases PROVE \E g \in Goroutines : \E k \in Nat : Holds(g, k, m)
    <3>1. \/ \E g \in Workers : pc[g] = "posts" /\ hand[g] = m
          \/ \E g \in Goroutines : \E k \in 1..Len(chosen[g].posted) : chosen[g].posted[k] = m
      BY <2>1, <2>6 DEF WithCases
    <3> QED
      BY <2>2, <2>4, <2>5, <3>1
  <2>7. ASSUME NEW g \in Goroutines, NEW k \in Nat, Holds(g, k, m) PROVE m \in WithCases
    <3>1. CASE k = 0
      BY <2>3, <2>7, <3>1 DEF WithCases
    <3>2. CASE k # 0
      BY <2>1, <2>5, <2>7, <3>2 DEF WithCases
    <3> QED
      BY <3>1, <3>2
  <2> QED
    BY <2>6, <2>7
<1>3. /\ used \subseteq Got /\ lost \subseteq Got /\ used \cap lost = {}
      /\ m \in WithCases => m \in Got \ (used \cup lost)
      /\ m \in Got \ (used \cup lost) => m \in WithCases
  BY <1>1, <1>2 DEF ValueInv, OneHolder
<1>4. \/ m \in Got /\ m \notin InBuffer /\ m \notin InSends
      \/ m \notin Got /\ m \in InBuffer /\ m \notin InSends
      \/ m \notin Got /\ m \notin InBuffer /\ m \in InSends
  BY OnePart DEF ValueInv
<1>5. \/ m \in InBuffer /\ m \notin InSends \cup WithCases \cup used \cup lost
      \/ m \in InSends /\ m \notin InBuffer \cup WithCases \cup used \cup lost
      \/ m \in WithCases /\ m \notin InBuffer \cup InSends \cup used \cup lost
      \/ m \in used /\ m \notin InBuffer \cup InSends \cup WithCases \cup lost
      \/ m \in lost /\ m \notin InBuffer \cup InSends \cup WithCases \cup used
  BY <1>3, <1>4
<1>6. \E p : {q \in Parts : m \in q[2]} = {p}
  <2>1. CASE m \in InBuffer /\ m \notin InSends \cup WithCases \cup used \cup lost
    <3>1. {q \in Parts : m \in q[2]} = {<<"buffer", InBuffer>>}
      BY <2>1
    <3> QED
      BY <3>1
  <2>2. CASE m \in InSends /\ m \notin InBuffer \cup WithCases \cup used \cup lost
    <3>1. {q \in Parts : m \in q[2]} = {<<"sends", InSends>>}
      BY <2>2
    <3> QED
      BY <3>1
  <2>3. CASE m \in WithCases /\ m \notin InBuffer \cup InSends \cup used \cup lost
    <3>1. {q \in Parts : m \in q[2]} = {<<"cases", WithCases>>}
      BY <2>3
    <3> QED
      BY <3>1
  <2>4. CASE m \in used /\ m \notin InBuffer \cup InSends \cup WithCases \cup lost
    <3>1. {q \in Parts : m \in q[2]} = {<<"used", used>>}
      BY <2>4
    <3> QED
      BY <3>1
  <2>5. CASE m \in lost /\ m \notin InBuffer \cup InSends \cup WithCases \cup used
    <3>1. {q \in Parts : m \in q[2]} = {<<"lost", lost>>}
      BY <2>5
    <3> QED
      BY <3>1
  <2> QED
    BY <1>5, <2>1, <2>2, <2>3, <2>4, <2>5
<1> HIDE DEF Parts
<1> QED
  BY <1>6, FS_Singleton

(* What every step keeps of the values.                                     *)
THEOREM ValuesKept == TasksSpec => []ValueInv
<1>1. ChannelInv /\ ValueInv /\ [TasksNext]_vars => ValueInv'
  BY ValueStep
<1> QED
  BY <1>1, ValuesInitially, ChannelsKeep, PTL DEF TasksSpec

(* Every value that was sent is at one place, whatever selects do with the  *)
(* values of their losing cases (control.go:442-475).                       *)
THEOREM ValuesConserved == TasksSpec => []Conserved
<1>1. ChannelInv /\ ValueInv => Conserved
  BY OnePlace DEF ChannelInv
<1> QED
  BY <1>1, ChannelsKeep, ValuesKept, PTL
=============================================================================
