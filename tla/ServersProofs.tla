-------------------------- MODULE ServersProofs --------------------------
(***************************************************************************)
(* Servers for every number of requests, connections, routes and messages: *)
(* what WsServer promises of its clients, then what HttpServer promises of *)
(* an answer and of close, in programs that use one of them or both.       *)
(***************************************************************************)
EXTENDS Servers, StackLemmas, TLAPS

Phases == {"absent", "reads", "closes", "calls back", "over"}
Jobs == [m : Nat, to : Seq(Conns)]

WsTypes ==
    /\ clients \in Seq(Conns)
    /\ phase \in [Conns -> Phases]
    /\ closed \in [Conns -> BOOLEAN]
    /\ broken \in [Conns -> BOOLEAN]
    /\ onClose \in [Conns -> {"none", "remove", "script"}]
    /\ sent \in [Conns -> Seq(Nat)]
    /\ job \in [Scripts -> Jobs]
    /\ messages \in Nat

(* A message is one of those so far, has clients left to go to, each once,  *)
(* is of one goroutine, and is not yet on the connections it has to go to.  *)
JobsPending ==
    \A g \in Scripts : ~Free(g) =>
        /\ job[g].m \in 1..messages
        /\ job[g].to # <<>>
        /\ IsInjective(job[g].to)
        /\ \A h \in Scripts \ {g} : Free(h) \/ job[h].m # job[g].m
        /\ \A c \in Range(job[g].to) : job[g].m \notin Range(sent[c])

(* On a connection are messages so far, and a close frame only if closed.   *)
FramesKnown ==
    \A c \in Conns : \A k \in DOMAIN sent[c] :
        /\ sent[c][k] <= messages
        /\ sent[c][k] = Bye => closed[c]

WsInv == WsTypes /\ ClientsFollow /\ JobsPending /\ FramesKnown /\ FramesInOrder

-----------------------------------------------------------------------------
(* Sequences without repetitions. *)

LEMMA IndexesOf ==
    ASSUME NEW S, NEW s \in Seq(S)
    PROVE  /\ DOMAIN s = 1..Len(s)
           /\ \A x : x \in Range(s) => \E i \in 1..Len(s) : s[i] = x
           /\ \A i \in 1..Len(s) : s[i] \in Range(s)
<1>1. DOMAIN s = 1..Len(s)
  OBVIOUS
<1>2. \A x : x \in Range(s) => \E i \in 1..Len(s) : s[i] = x
  BY DEF Range
<1>3. \A i \in 1..Len(s) : s[i] \in Range(s)
  BY DEF Range
<1> QED
  BY <1>1, <1>2, <1>3

LEMMA AppendNew ==
    ASSUME NEW S, NEW s \in Seq(S), IsInjective(s), NEW x \in S, x \notin Range(s)
    PROVE  /\ IsInjective(Append(s, x))
           /\ Append(s, x) \in Seq(S)
           /\ Range(Append(s, x)) = Range(s) \cup {x}
<1> DEFINE t == Append(s, x)
<1>1. /\ t \in Seq(S) /\ Len(t) = Len(s) + 1 /\ Len(s) \in Nat
      /\ t[Len(s) + 1] = x /\ \A i \in 1..Len(s) : t[i] = s[i]
  BY AppendFacts
<1>2. /\ DOMAIN s = 1..Len(s)
      /\ \A y : y \in Range(s) => \E i \in 1..Len(s) : s[i] = y
      /\ \A i \in 1..Len(s) : s[i] \in Range(s)
  BY IndexesOf
<1> HIDE DEF t
<1>3. /\ DOMAIN t = 1..Len(t)
      /\ \A y : y \in Range(t) => \E i \in 1..Len(t) : t[i] = y
      /\ \A i \in 1..Len(t) : t[i] \in Range(t)
  BY <1>1, IndexesOf
<1>4. IsInjective(t)
  <2> SUFFICES ASSUME NEW a \in 1..Len(t), NEW b \in 1..Len(t), t[a] = t[b] PROVE a = b
    BY <1>3, Zenon DEF IsInjective
  <2>1. CASE a \in 1..Len(s) /\ b \in 1..Len(s)
    BY <1>1, <1>2, <2>1 DEF IsInjective
  <2>2. CASE a \notin 1..Len(s) \/ b \notin 1..Len(s)
    BY <1>1, <1>2, <2>2
  <2> QED
    BY <2>1, <2>2
<1>5. Range(t) = Range(s) \cup {x}
  BY <1>1, <1>2, <1>3
<1> QED
  BY <1>1, <1>4, <1>5 DEF t

LEMMA CutOut ==
    ASSUME NEW S, NEW s \in Seq(S), NEW n \in 1..Len(s)
    PROVE  /\ RemoveAt(s, n) \in Seq(S) /\ Len(RemoveAt(s, n)) = Len(s) - 1
           /\ \A i \in 1..Len(s) - 1 : RemoveAt(s, n)[i] = IF i < n THEN s[i] ELSE s[i + 1]
<1> DEFINE u == SubSeq(s, 1, n - 1)
           v == SubSeq(s, n + 1, Len(s))
<1>1. Len(s) \in Nat /\ n \in Nat /\ n - 1 \in 0..Len(s) /\ Len(s) - n \in 0..Len(s)
  OBVIOUS
<1>2. u \in Seq(S) /\ Len(u) = n - 1 /\ \A i \in 1..n - 1 : u[i] = s[i]
  BY <1>1
<1>3. v \in Seq(S) /\ Len(v) = Len(s) - n /\ \A i \in 1..Len(s) - n : v[i] = s[n + i]
  <2>1. \A i \in n + 1..Len(s) : s[i] \in S
    BY <1>1
  <2>2. v \in Seq(S) /\ Len(v) = Len(s) - n
    <3>1. CASE n = Len(s)
      BY <1>1, <3>1
    <3>2. CASE n < Len(s)
      BY <1>1, <3>2, SubSeqProperties
    <3> QED
      BY <1>1, <3>1, <3>2
  <2>3. ASSUME NEW i \in 1..Len(s) - n PROVE v[i] = s[n + i]
    BY <1>1, SubSeqProperties
  <2> QED
    BY <2>2, <2>3
<1> HIDE DEF u, v
<1>4. /\ u \o v \in Seq(S) /\ Len(u \o v) = Len(u) + Len(v)
      /\ \A i \in 1..Len(u) + Len(v) : (u \o v)[i] = IF i <= Len(u) THEN u[i] ELSE v[i - Len(u)]
  BY <1>2, <1>3, ConcatProperties
<1>5. ASSUME NEW i \in 1..Len(s) - 1
      PROVE  (u \o v)[i] = IF i < n THEN s[i] ELSE s[i + 1]
  <2>0. /\ i \in 1..Len(u) + Len(v)
        /\ (u \o v)[i] = IF i <= n - 1 THEN u[i] ELSE v[i - (n - 1)]
    BY <1>1, <1>2, <1>3, <1>4
  <2>1. CASE i < n
    BY <1>1, <1>2, <2>0, <2>1
  <2>2. CASE ~(i < n)
    <3>1. /\ i - (n - 1) \in 1..Len(s) - n /\ n + (i - (n - 1)) = i + 1 /\ ~(i <= n - 1)
      BY <1>1, <2>2
    <3>2. v[i - (n - 1)] = s[n + (i - (n - 1))]
      BY <1>3, <3>1
    <3> QED
      BY <2>0, <2>2, <3>1, <3>2
  <2> QED
    BY <2>1, <2>2
<1>6. RemoveAt(s, n) = u \o v
  BY DEF RemoveAt, u, v
<1>7. Len(u \o v) = Len(s) - 1
  BY <1>1, <1>2, <1>3, <1>4
<1> QED
  BY <1>4, <1>5, <1>6, <1>7

LEMMA RemoveOne ==
    ASSUME NEW S, NEW s \in Seq(S), IsInjective(s), NEW n \in 1..Len(s)
    PROVE  /\ IsInjective(RemoveAt(s, n))
           /\ RemoveAt(s, n) \in Seq(S)
           /\ Range(RemoveAt(s, n)) = Range(s) \ {s[n]}
<1> DEFINE t == RemoveAt(s, n)
<1>1. /\ DOMAIN s = 1..Len(s)
      /\ \A y : y \in Range(s) => \E i \in 1..Len(s) : s[i] = y
      /\ \A i \in 1..Len(s) : s[i] \in Range(s)
  BY IndexesOf
<1>2. /\ t \in Seq(S) /\ Len(t) = Len(s) - 1
      /\ \A i \in 1..Len(s) - 1 : t[i] = IF i < n THEN s[i] ELSE s[i + 1]
  BY CutOut
<1> HIDE DEF t
<1>3. /\ DOMAIN t = 1..Len(t)
      /\ \A y : y \in Range(t) => \E i \in 1..Len(t) : t[i] = y
      /\ \A i \in 1..Len(t) : t[i] \in Range(t)
  BY <1>2, IndexesOf
<1>4. \A a, b \in 1..Len(s) : s[a] = s[b] => a = b
  BY <1>1, Zenon DEF IsInjective
<1>5. IsInjective(t)
  <2> SUFFICES ASSUME NEW a \in 1..Len(t), NEW b \in 1..Len(t), t[a] = t[b] PROVE a = b
    BY <1>3, Zenon DEF IsInjective
  <2> QED
    BY <1>1, <1>2, <1>4
<1>6. ASSUME NEW y, y \in Range(t) PROVE y \in Range(s) /\ y # s[n]
  <2>1. PICK i \in 1..Len(t) : t[i] = y
    BY <1>3, <1>6
  <2>2. CASE i < n
    BY <1>1, <1>2, <1>4, <2>1, <2>2
  <2>3. CASE ~(i < n)
    BY <1>1, <1>2, <1>4, <2>1, <2>3
  <2> QED
    BY <2>2, <2>3
<1>7. ASSUME NEW y, y \in Range(s), y # s[n] PROVE y \in Range(t)
  <2>1. PICK i \in 1..Len(s) : s[i] = y
    BY <1>1, <1>7
  <2>2. CASE i < n
    <3>1. i \in 1..Len(t) /\ t[i] = s[i]
      BY <1>2, <2>2
    <3> QED
      BY <1>3, <2>1, <3>1
  <2>3. CASE i > n
    <3>1. i - 1 \in 1..Len(t) /\ ~(i - 1 < n) /\ (i - 1) + 1 = i
      BY <1>1, <1>2, <2>3
    <3>2. t[i - 1] = s[i]
      BY <1>2, <3>1
    <3> QED
      BY <1>3, <2>1, <3>1, <3>2
  <2> QED
    BY <1>7, <2>1, <2>2, <2>3
<1> QED
  BY <1>2, <1>5, <1>6, <1>7 DEF t

LEMMA TailOfInjective ==
    ASSUME NEW S, NEW s \in Seq(S), IsInjective(s), s # <<>>
    PROVE  /\ Head(s) \in Range(s)
           /\ Tail(s) \in Seq(S) /\ IsInjective(Tail(s))
           /\ Range(Tail(s)) = Range(s) \ {Head(s)}
           /\ Len(s) # 1 => Tail(s) # <<>>
<1>0. /\ Tail(s) \in Seq(S) /\ Len(Tail(s)) = Len(s) - 1
      /\ \A i \in 1..Len(Tail(s)) : Tail(s)[i] = s[i + 1]
  BY HeadTailProperties
<1>1. /\ Len(s) \in Nat \ {0} /\ Head(s) = s[1] /\ 1 \in 1..Len(s)
      /\ Tail(s) \in Seq(S) /\ Len(Tail(s)) = Len(s) - 1
      /\ \A i \in 1..Len(s) - 1 : Tail(s)[i] = s[i + 1]
  <2>1. Len(s) \in Nat \ {0}
    BY EmptySeq
  <2>2. Head(s) = s[1] /\ 1 \in 1..Len(s)
    BY <2>1
  <2> QED
    BY <1>0, <2>1, <2>2
<1>2. /\ RemoveAt(s, 1) \in Seq(S) /\ Len(RemoveAt(s, 1)) = Len(s) - 1
      /\ \A i \in 1..Len(s) - 1 : RemoveAt(s, 1)[i] = IF i < 1 THEN s[i] ELSE s[i + 1]
  BY <1>1, CutOut
<1>3. Tail(s) = RemoveAt(s, 1)
  <2> DEFINE r == RemoveAt(s, 1)
             t == Tail(s)
  <2> HIDE DEF r, t
  <2>1. \A i \in 1..Len(t) : t[i] = r[i]
    BY <1>1, <1>2 DEF r, t
  <2>2. t \in Seq(S) /\ r \in Seq(S) /\ Len(t) = Len(r)
    BY <1>1, <1>2 DEF r, t
  <2>3. t = r
    BY <2>1, <2>2, SeqEqual
  <2> QED
    BY <2>3 DEF r, t
<1>4. /\ IsInjective(RemoveAt(s, 1))
      /\ Range(RemoveAt(s, 1)) = Range(s) \ {s[1]}
  BY <1>1, RemoveOne
<1>5. s[1] \in Range(s)
  BY <1>1, IndexesOf
<1>6. Len(s) # 1 => Tail(s) # <<>>
  BY <1>1
<1>7. Head(s) \in Range(s)
  BY <1>1, <1>5
<1>8. IsInjective(Tail(s)) /\ Range(Tail(s)) = Range(s) \ {Head(s)}
  <2>1. Head(s) = s[1]
    BY <1>1
  <2> QED
    BY <1>3, <1>4, <2>1, Zenon
<1> QED
  BY <1>1, <1>6, <1>7, <1>8

-----------------------------------------------------------------------------
(* What is on the connections. *)

(* A frame that is new to a connection that is not closed may follow what   *)
(* is on it.                                                                *)
LEMMA FrameAdded ==
    ASSUME WsInv, NEW c \in Conns, NEW f \in Nat, f <= messages, ~closed[c], f \notin Range(sent[c]),
           f = Bye => closed'[c],
           closed' \in [Conns -> BOOLEAN], \A d \in Conns : closed[d] => closed'[d],
           sent' = [sent EXCEPT ![c] = Append(@, f)], messages' = messages
    PROVE  /\ sent' \in [Conns -> Seq(Nat)]
           /\ FramesInOrder' /\ FramesKnown'
           /\ Range(sent'[c]) = Range(sent[c]) \cup {f}
           /\ \A d \in Conns \ {c} : sent'[d] = sent[d]
<1>1. /\ sent \in [Conns -> Seq(Nat)] /\ closed \in [Conns -> BOOLEAN] /\ messages \in Nat
      /\ FramesKnown /\ FramesInOrder
  BY DEF WsInv, WsTypes
<1>2. sent'[c] = Append(sent[c], f) /\ \A d \in Conns \ {c} : sent'[d] = sent[d]
  BY <1>1
<1>3. \A i \in 1..Len(sent[c]) : sent[c][i] # Bye
  BY <1>1 DEF FramesKnown
<1>4. IsInjective(sent[c])
  <2> SUFFICES ASSUME NEW a \in DOMAIN sent[c], NEW b \in DOMAIN sent[c], sent[c][a] = sent[c][b]
               PROVE a = b
    BY Zenon DEF IsInjective
  <2>1. \A i, j \in DOMAIN sent[c] : i < j => sent[c][i] # sent[c][j]
    BY <1>1 DEF FramesInOrder
  <2>2. a \in Nat /\ b \in Nat
    BY <1>1
  <2> QED
    BY <2>1, <2>2
<1>5. /\ sent'[c] \in Seq(Nat) /\ Range(sent'[c]) = Range(sent[c]) \cup {f}
      /\ IsInjective(sent'[c])
  BY <1>1, <1>2, <1>4, AppendNew
<1>6. sent' \in [Conns -> Seq(Nat)]
  BY <1>1, <1>5
<1>7. /\ Len(sent'[c]) = Len(sent[c]) + 1 /\ Len(sent[c]) \in Nat
      /\ sent'[c][Len(sent[c]) + 1] = f
      /\ \A i \in 1..Len(sent[c]) : sent'[c][i] = sent[c][i]
  BY <1>1, <1>2, AppendFacts
<1>8. FramesInOrder'
  <2> SUFFICES ASSUME NEW d \in Conns, NEW i \in DOMAIN sent'[d], NEW j \in DOMAIN sent'[d], i < j
               PROVE  sent'[d][i] # Bye /\ sent'[d][i] # sent'[d][j]
    BY DEF FramesInOrder
  <2>1. CASE d # c
    BY <1>1, <1>2, <2>1 DEF FramesInOrder
  <2>2. CASE d = c
    <3>1. i \in 1..Len(sent'[c]) /\ j \in 1..Len(sent'[c]) /\ i \in 1..Len(sent[c])
      BY <1>5, <1>7, <2>2
    <3>2. sent'[c][i] # Bye
      BY <1>3, <1>7, <3>1
    <3>3. i # j
      BY <3>1
    <3>4. i \in DOMAIN sent'[c] /\ j \in DOMAIN sent'[c]
      BY <2>2
    <3>5. sent'[c][i] # sent'[c][j]
      BY <1>5, <3>3, <3>4, Zenon DEF IsInjective
    <3> QED
      BY <2>2, <3>2, <3>5
  <2> QED
    BY <2>1, <2>2
<1>9. FramesKnown'
  <2> SUFFICES ASSUME NEW d \in Conns, NEW k \in DOMAIN sent'[d]
               PROVE  sent'[d][k] <= messages' /\ (sent'[d][k] = Bye => closed'[d])
    BY DEF FramesKnown
  <2>1. CASE d # c
    BY <1>1, <1>2, <2>1 DEF FramesKnown
  <2>2. CASE d = c /\ k \in 1..Len(sent[c])
    <3>1. sent[c][k] <= messages /\ sent[c][k] # Bye
      BY <1>1, <1>3, <2>2 DEF FramesKnown
    <3> QED
      BY <1>7, <2>2, <3>1
  <2>3. CASE d = c /\ k = Len(sent[c]) + 1
    BY <1>7, <2>3
  <2> QED
    BY <1>5, <1>7, <2>1, <2>2, <2>3
<1> QED
  BY <1>2, <1>5, <1>6, <1>8, <1>9

-----------------------------------------------------------------------------
(* Each step keeps WsInv. *)

LEMMA AcceptKeeps ==
    ASSUME WsInv, NEW c \in Conns, Accept(c)
    PROVE  WsInv'
<1> USE DEF WsInv
<1>1. /\ clients \in Seq(Conns) /\ IsInjective(clients) /\ c \notin Range(clients)
      /\ phase \in [Conns -> Phases] /\ onClose \in [Conns -> {"none", "remove", "script"}]
  BY DEF WsTypes, ClientsFollow, Accept
<1>2. /\ phase' = [phase EXCEPT ![c] = "reads"] /\ onClose' = [onClose EXCEPT ![c] = "remove"]
      /\ clients' = Append(clients, c)
      /\ UNCHANGED <<closed, broken, sent, job, messages>>
  BY DEF Accept
<1>3. clients' \in Seq(Conns) /\ IsInjective(clients') /\ Range(clients') = Range(clients) \cup {c}
  BY <1>1, <1>2, AppendNew
<1>4. WsTypes'
  BY <1>1, <1>2, <1>3 DEF WsTypes, Phases
<1>5. ClientsFollow'
  BY <1>1, <1>2, <1>3 DEF ClientsFollow
<1>6. JobsPending' /\ FramesKnown' /\ FramesInOrder'
  BY <1>2 DEF JobsPending, FramesKnown, FramesInOrder, Free
<1> QED
  BY <1>4, <1>5, <1>6

LEMMA CallBackKeeps ==
    ASSUME WsInv, NEW c \in Conns, CallBack(c)
    PROVE  WsInv'
<1> USE DEF WsInv
<1>1. /\ clients \in Seq(Conns) /\ IsInjective(clients) /\ c \in Range(clients)
      /\ phase \in [Conns -> Phases]
  BY DEF WsTypes, ClientsFollow, CallBack
<1>2. /\ phase' = [phase EXCEPT ![c] = "over"] /\ phase[c] = "calls back"
      /\ clients' = IF onClose[c] = "remove" THEN Without(c) ELSE clients
      /\ UNCHANGED <<closed, broken, onClose, sent, job, messages>>
  BY DEF CallBack
<1>3. /\ Without(c) \in Seq(Conns) /\ IsInjective(Without(c))
      /\ Range(Without(c)) = Range(clients) \ {c}
  <2>1. /\ DOMAIN clients = 1..Len(clients)
        /\ \A d : d \in Range(clients) => \E i \in 1..Len(clients) : clients[i] = d
    BY <1>1, IndexesOf
  <2>2. PICK n \in 1..Len(clients) : clients[n] = c
    BY <1>1, <2>1
  <2>3. {i \in DOMAIN clients : clients[i] = c} = {n}
    <3>1. n \in DOMAIN clients
      BY <2>1
    <3>2. \A i \in DOMAIN clients : clients[i] = c => i = n
      BY <1>1, <2>2, <3>1, Zenon DEF IsInjective
    <3> QED
      BY <2>2, <3>1, <3>2, Zenon
  <2>4. Min({n}) = n
    <3>1. n \in {n} /\ \A y \in {n} : n <= y
      BY <2>2
    <3> QED
      BY <3>1, Zenon DEF Min
  <2>5. {n} # {}
    OBVIOUS
  <2>6. Without(c) = RemoveAt(clients, n)
    BY <2>3, <2>4, <2>5, Zenon DEF Without
  <2>7. /\ IsInjective(RemoveAt(clients, n)) /\ RemoveAt(clients, n) \in Seq(Conns)
        /\ Range(RemoveAt(clients, n)) = Range(clients) \ {clients[n]}
    BY <1>1, RemoveOne
  <2> QED
    BY <2>2, <2>6, <2>7
<1>4. WsTypes'
  BY <1>1, <1>2, <1>3 DEF WsTypes, Phases
<1>5. ClientsFollow'
  BY <1>1, <1>2, <1>3 DEF ClientsFollow
<1>6. JobsPending' /\ FramesKnown' /\ FramesInOrder'
  BY <1>2 DEF JobsPending, FramesKnown, FramesInOrder, Free
<1> QED
  BY <1>4, <1>5, <1>6

(* No connection is accepted and none is over. *)
PhaseGoesOn ==
    /\ phase' \in [Conns -> Phases]
    /\ \A d \in Conns :
          /\ phase'[d] \in {"reads", "closes", "calls back"} =>
                phase[d] \in {"reads", "closes", "calls back"}
          /\ phase'[d] \in {"absent", "over"} => phase[d] = phase'[d]

(* What leaves the list, what is sent and what is closed as they are. *)
LEMMA QuietKeeps ==
    ASSUME WsInv, UNCHANGED <<clients, closed, sent, job, messages>>,
           phase' \in [Conns -> Phases], broken' \in [Conns -> BOOLEAN],
           onClose' \in [Conns -> {"none", "remove", "script"}],
           \A c \in Conns :
              /\ phase'[c] \in {"reads", "closes", "calls back"} =>
                    phase[c] \in {"reads", "closes", "calls back"}
              /\ phase'[c] \in {"absent", "over"} => phase[c] = phase'[c] /\ onClose'[c] = onClose[c]
    PROVE  WsInv'
<1> USE DEF WsInv
<1>1. WsTypes'
  BY DEF WsTypes
<1>2. ClientsFollow'
  BY DEF ClientsFollow
<1>3. JobsPending'
  BY DEF JobsPending, Free
<1>4. FramesKnown' /\ FramesInOrder'
  BY DEF FramesKnown, FramesInOrder
<1> QED
  BY <1>1, <1>2, <1>3, <1>4

LEMMA CloseKeeps ==
    ASSUME WsInv, NEW c \in Conns, Close(c), UNCHANGED <<clients, onClose, job, messages>>, PhaseGoesOn
    PROVE  WsInv'
<1>0. WsTypes /\ ClientsFollow /\ JobsPending /\ FramesKnown /\ FramesInOrder
  BY DEF WsInv
<1>1. /\ closed' = [closed EXCEPT ![c] = TRUE] /\ broken' = [broken EXCEPT ![c] = TRUE]
      /\ sent' = IF closed[c] THEN sent ELSE IF broken[c] THEN sent ELSE [sent EXCEPT ![c] = Append(@, Bye)]
  BY DEF Close, Put
<1>2. /\ closed' \in [Conns -> BOOLEAN] /\ broken' \in [Conns -> BOOLEAN]
      /\ closed'[c] /\ \A d \in Conns : closed[d] => closed'[d]
  BY <1>0, <1>1 DEF WsTypes
<1>3. ClientsFollow'
  BY <1>0 DEF ClientsFollow, PhaseGoesOn
<1>4. CASE sent' = sent
  <2>1. WsTypes'
    BY <1>0, <1>2, <1>4 DEF WsTypes, PhaseGoesOn
  <2>2. FramesKnown' /\ FramesInOrder'
    BY <1>0, <1>2, <1>4 DEF FramesKnown, FramesInOrder
  <2>3. JobsPending'
    BY <1>0, <1>4 DEF JobsPending, Free
  <2> QED
    BY <1>3, <2>1, <2>2, <2>3 DEF WsInv
<1>5. CASE sent' # sent
  <2>1. ~closed[c] /\ sent' = [sent EXCEPT ![c] = Append(@, Bye)]
    BY <1>1, <1>5
  <2>2. Bye \in Nat /\ Bye <= messages
    BY <1>0 DEF WsTypes, Bye
  <2>3. Bye \notin Range(sent[c])
    <3>1. sent[c] \in Seq(Nat)
      BY <1>0 DEF WsTypes
    <3>2. \A x : x \in Range(sent[c]) => \E i \in 1..Len(sent[c]) : sent[c][i] = x
      BY <3>1, IndexesOf
    <3>3. DOMAIN sent[c] = 1..Len(sent[c])
      BY <3>1
    <3>4. \A i \in 1..Len(sent[c]) : sent[c][i] # Bye
      BY <1>0, <2>1, <3>3 DEF FramesKnown
    <3> QED
      BY <3>2, <3>4
  <2>4. /\ sent' \in [Conns -> Seq(Nat)]
        /\ FramesInOrder' /\ FramesKnown'
        /\ Range(sent'[c]) = Range(sent[c]) \cup {Bye}
        /\ \A d \in Conns \ {c} : sent'[d] = sent[d]
    BY <1>2, <2>1, <2>2, <2>3, FrameAdded
  <2>5. WsTypes'
    BY <1>0, <1>2, <2>4 DEF WsTypes, PhaseGoesOn
  <2>6. JobsPending'
    <3> SUFFICES ASSUME NEW g \in Scripts, ~Free(g)'
                 PROVE  /\ job'[g].m \in 1..messages'
                        /\ job'[g].to # <<>>
                        /\ IsInjective(job'[g].to)
                        /\ \A h \in Scripts \ {g} : Free(h)' \/ job'[h].m # job'[g].m
                        /\ \A d \in Range(job'[g].to) : job'[g].m \notin Range(sent'[d])
      BY DEF JobsPending
    <3>1. /\ ~Free(g) /\ job' = job /\ messages' = messages /\ job[g] \in Jobs
          /\ job[g].m \in 1..messages
      BY <1>0 DEF Free, JobsPending, WsTypes
    <3>2. job[g].m # Bye
      BY <3>1 DEF Bye
    <3>3. /\ job[g].to # <<>> /\ IsInjective(job[g].to)
          /\ \A h \in Scripts \ {g} : Free(h) \/ job[h].m # job[g].m
          /\ \A d \in Range(job[g].to) : job[g].m \notin Range(sent[d])
      BY <1>0, <3>1 DEF JobsPending
    <3>4. ASSUME NEW d \in Range(job[g].to) PROVE d \in Conns
      BY <3>1, IndexesOf DEF Jobs
    <3>5. ASSUME NEW d \in Range(job[g].to) PROVE job[g].m \notin Range(sent'[d])
      BY <2>4, <3>2, <3>3, <3>4, <3>5
    <3> QED
      BY <3>1, <3>3, <3>5 DEF Free
  <2> QED
    BY <1>3, <2>4, <2>5, <2>6 DEF WsInv
<1> QED
  BY <1>4, <1>5

LEMMA StartKeeps ==
    ASSUME WsInv, NEW g \in Scripts, NEW to \in Seq(Conns), IsInjective(to), Start(g, to)
    PROVE  WsInv'
<1>0. WsTypes /\ ClientsFollow /\ JobsPending /\ FramesKnown /\ FramesInOrder
  BY DEF WsInv
<1>1. /\ Free(g) /\ to # <<>> /\ messages' = messages + 1
      /\ job' = [job EXCEPT ![g] = [m |-> messages + 1, to |-> to]]
      /\ UNCHANGED <<clients, phase, closed, onClose, sent, broken>>
  BY DEF Start
<1>2. messages \in Nat /\ job \in [Scripts -> Jobs] /\ sent \in [Conns -> Seq(Nat)]
  BY <1>0 DEF WsTypes
<1>3. [m |-> messages + 1, to |-> to] \in Jobs
  BY <1>2 DEF Jobs
<1>4. WsTypes'
  BY <1>0, <1>1, <1>2, <1>3 DEF WsTypes
<1>5. ClientsFollow' /\ FramesInOrder'
  BY <1>0, <1>1 DEF ClientsFollow, FramesInOrder
<1>6. FramesKnown'
  <2> SUFFICES ASSUME NEW c \in Conns, NEW k \in DOMAIN sent[c]
               PROVE  sent[c][k] <= messages + 1 /\ (sent[c][k] = Bye => closed[c])
    BY <1>1 DEF FramesKnown
  <2>1. sent[c][k] \in Nat
    BY <1>2
  <2> QED
    BY <1>0, <1>2, <2>1 DEF FramesKnown
<1>7. JobsPending'
  <2> SUFFICES ASSUME NEW h \in Scripts, ~Free(h)'
               PROVE  /\ job'[h].m \in 1..messages'
                      /\ job'[h].to # <<>>
                      /\ IsInjective(job'[h].to)
                      /\ \A i \in Scripts \ {h} : Free(i)' \/ job'[i].m # job'[h].m
                      /\ \A d \in Range(job'[h].to) : job'[h].m \notin Range(sent'[d])
    BY DEF JobsPending
  <2>1. \A i \in Scripts : i # g => job'[i] = job[i] /\ (Free(i)' <=> Free(i))
    BY <1>1, <1>2 DEF Free
  <2>2. job'[g].m = messages + 1 /\ job'[g].to = to
    BY <1>1, <1>2
  <2>3. \A i \in Scripts : ~Free(i) => job[i].m \in 1..messages
    BY <1>0 DEF JobsPending
  <2>4. ASSUME NEW d \in Conns PROVE messages + 1 \notin Range(sent[d])
    <3>1. sent[d] \in Seq(Nat) /\ DOMAIN sent[d] = 1..Len(sent[d])
      BY <1>2
    <3>2. \A x : x \in Range(sent[d]) => \E i \in 1..Len(sent[d]) : sent[d][i] = x
      BY <3>1, IndexesOf
    <3>3. \A i \in 1..Len(sent[d]) : sent[d][i] <= messages /\ sent[d][i] \in Nat
      BY <1>0, <3>1 DEF FramesKnown
    <3>4. messages \in Nat
      BY <1>2
    <3>5. \A i \in 1..Len(sent[d]) : sent[d][i] # messages + 1
      BY <3>3, <3>4
    <3> QED
      BY <3>2, <3>5, Zenon
  <2>5. CASE h = g
    <3>1. \A d \in Range(to) : d \in Conns
      BY IndexesOf
    <3>2. \A i \in Scripts \ {h} : Free(i)' \/ job'[i].m # messages + 1
      BY <1>2, <2>1, <2>3, <2>5
    <3>3. messages + 1 \in 1..messages'
      BY <1>1, <1>2
    <3> QED
      BY <1>1, <2>2, <2>4, <2>5, <3>1, <3>2, <3>3
  <2>6. CASE h # g
    <3>1. /\ ~Free(h) /\ job'[h] = job[h] /\ job[h].m \in 1..messages /\ job[h].m \in 1..messages'
      BY <1>1, <1>2, <2>1, <2>3, <2>6
    <3>2. \A i \in Scripts \ {h} : Free(i)' \/ job'[i].m # job'[h].m
      <4> SUFFICES ASSUME NEW i \in Scripts \ {h}, ~Free(i)' PROVE job'[i].m # job'[h].m
        OBVIOUS
      <4>1. CASE i = g
        BY <1>2, <2>2, <3>1, <4>1
      <4>2. CASE i # g
        BY <1>0, <2>1, <3>1, <4>2 DEF JobsPending
      <4> QED
        BY <4>1, <4>2
    <3>3. /\ job[h].to # <<>> /\ IsInjective(job[h].to)
          /\ \A d \in Range(job[h].to) : job[h].m \notin Range(sent[d])
      BY <1>0, <3>1 DEF JobsPending
    <3> QED
      BY <1>1, <3>1, <3>2, <3>3
  <2> QED
    BY <2>5, <2>6
<1> QED
  BY <1>4, <1>5, <1>6, <1>7 DEF WsInv

LEMMA WriteKeeps ==
    ASSUME WsInv, NEW g \in Scripts, Write(g)
    PROVE  WsInv'
<1> DEFINE c == Head(job[g].to)
           m == job[g].m
<1>0. WsTypes /\ ClientsFollow /\ JobsPending /\ FramesKnown /\ FramesInOrder
  BY DEF WsInv
<1>1. /\ ~Free(g) /\ job' = [job EXCEPT ![g] = Done(g)]
      /\ sent' = IF closed[c] THEN sent ELSE Put(c, m)
      /\ UNCHANGED <<clients, phase, closed, onClose, broken, messages>>
  BY DEF Write
<1>2. messages \in Nat /\ job \in [Scripts -> Jobs] /\ sent \in [Conns -> Seq(Nat)]
  BY <1>0 DEF WsTypes
<1>3. /\ job[g].m \in 1..messages /\ job[g].to \in Seq(Conns)
      /\ job[g].to # <<>> /\ IsInjective(job[g].to)
      /\ \A h \in Scripts \ {g} : Free(h) \/ job[h].m # job[g].m
      /\ \A d \in Range(job[g].to) : job[g].m \notin Range(sent[d])
  BY <1>0, <1>1, <1>2 DEF JobsPending, Jobs
<1>4. /\ c \in Range(job[g].to)
      /\ Tail(job[g].to) \in Seq(Conns) /\ IsInjective(Tail(job[g].to))
      /\ Range(Tail(job[g].to)) = Range(job[g].to) \ {c}
      /\ Len(job[g].to) # 1 => Tail(job[g].to) # <<>>
  BY <1>3, TailOfInjective
<1>5. \A d \in Range(job[g].to) : d \in Conns
  BY <1>3, IndexesOf
<1>6. m \in Nat /\ m <= messages /\ m # Bye
  BY <1>2, <1>3 DEF Bye
<1>7. Done(g) \in Jobs /\ (Done(g) # Idle => Done(g) = [m |-> m, to |-> Tail(job[g].to)])
  <2>1. CASE Len(job[g].to) = 1
    BY <2>1 DEF Done, Idle, Jobs
  <2>2. CASE Len(job[g].to) # 1
    <3>1. job[g] \in Jobs
      BY <1>2
    <3>2. Done(g) = [job[g] EXCEPT !.to = Tail(job[g].to)]
      BY <2>2 DEF Done
    <3>3. Done(g) = [m |-> m, to |-> Tail(job[g].to)]
      BY <3>1, <3>2 DEF Jobs
    <3> QED
      BY <1>4, <1>6, <3>3 DEF Jobs
  <2> QED
    BY <2>1, <2>2
<1> HIDE DEF c, m
<1>8. job' \in [Scripts -> Jobs] /\ job'[g] = Done(g) /\ \A h \in Scripts : h # g => job'[h] = job[h]
  BY <1>1, <1>2, <1>7
<1>9. /\ sent' \in [Conns -> Seq(Nat)] /\ FramesInOrder' /\ FramesKnown'
      /\ \A d \in Conns : Range(sent'[d]) \subseteq Range(sent[d]) \cup {m}
      /\ \A d \in Conns \ {c} : sent'[d] = sent[d]
  <2>1. CASE sent' = sent
    BY <1>0, <1>1, <1>2, <2>1 DEF FramesInOrder, FramesKnown
  <2>2. CASE sent' # sent
    <3>1. ~closed[c] /\ sent' = [sent EXCEPT ![c] = Append(@, m)]
      BY <1>1, <2>2 DEF Put
    <3>2. c \in Conns /\ m \notin Range(sent[c])
      BY <1>3, <1>4, <1>5 DEF m
    <3>3. closed' \in [Conns -> BOOLEAN] /\ \A d \in Conns : closed[d] => closed'[d]
      BY <1>0, <1>1 DEF WsTypes
    <3>4. /\ sent' \in [Conns -> Seq(Nat)] /\ FramesInOrder' /\ FramesKnown'
          /\ Range(sent'[c]) = Range(sent[c]) \cup {m}
          /\ \A d \in Conns \ {c} : sent'[d] = sent[d]
      BY <1>1, <1>6, <3>1, <3>2, <3>3, FrameAdded
    <3> QED
      BY <3>4
  <2> QED
    BY <2>1, <2>2
<1>10. WsTypes'
  BY <1>0, <1>1, <1>8, <1>9 DEF WsTypes
<1>11. ClientsFollow'
  BY <1>0, <1>1 DEF ClientsFollow
<1>12. JobsPending'
  <2> SUFFICES ASSUME NEW h \in Scripts, ~Free(h)'
               PROVE  /\ job'[h].m \in 1..messages'
                      /\ job'[h].to # <<>>
                      /\ IsInjective(job'[h].to)
                      /\ \A i \in Scripts \ {h} : Free(i)' \/ job'[i].m # job'[h].m
                      /\ \A d \in Range(job'[h].to) : job'[h].m \notin Range(sent'[d])
    BY DEF JobsPending
  <2>1. ASSUME NEW i \in Scripts, ~Free(i)'
        PROVE  ~Free(i) /\ job'[i].m = job[i].m
    <3>1. CASE i = g
      BY <1>1, <1>7, <1>8, <2>1, <3>1 DEF Free, m
    <3>2. CASE i # g
      BY <1>8, <2>1, <3>2 DEF Free
    <3> QED
      BY <3>1, <3>2
  <2>2. /\ ~Free(h) /\ job'[h].m = job[h].m
        /\ job[h].m \in 1..messages
        /\ job[h].to # <<>> /\ IsInjective(job[h].to)
        /\ \A i \in Scripts \ {h} : Free(i) \/ job[i].m # job[h].m
        /\ \A d \in Range(job[h].to) : job[h].m \notin Range(sent[d])
    BY <1>0, <2>1 DEF JobsPending
  <2>3. \A i \in Scripts \ {h} : Free(i)' \/ job'[i].m # job'[h].m
    BY <2>1, <2>2
  <2>4. CASE h = g
    <3>1. job'[g] = [m |-> m, to |-> Tail(job[g].to)]
      BY <1>7, <1>8, <2>4 DEF Free
    <3>2. Len(job[g].to) # 1
      BY <1>8, <2>4 DEF Free, Done
    <3>3. ASSUME NEW d \in Range(job'[g].to) PROVE m \notin Range(sent'[d])
      <4>1. d \in Range(job[g].to) /\ d # c
        BY <1>4, <3>1, <3>3
      <4> QED
        BY <1>3, <1>5, <1>9, <4>1 DEF m
    <3>4. job'[h].m = m /\ job'[h].to = Tail(job[g].to)
      BY <2>4, <3>1
    <3>5. job'[h].to # <<>> /\ IsInjective(job'[h].to) /\ job'[h].m \in 1..messages'
      BY <1>1, <1>4, <2>2, <3>2, <3>4
    <3>6. \A d \in Range(job'[h].to) : job'[h].m \notin Range(sent'[d])
      BY <2>4, <3>3, <3>4
    <3> QED
      BY <2>3, <3>5, <3>6
  <2>5. CASE h # g
    <3>1. job'[h] = job[h] /\ job[h].m # m
      BY <1>3, <1>8, <2>2, <2>5 DEF m
    <3>2. \A d \in Range(job[h].to) : d \in Conns
      <4>1. job[h].to \in Seq(Conns)
        BY <1>2 DEF Jobs
      <4> QED
        BY <4>1, IndexesOf
    <3>3. \A d \in Range(job[h].to) : job[h].m \notin Range(sent'[d])
      BY <1>9, <2>2, <3>1, <3>2
    <3> QED
      BY <1>1, <2>2, <2>3, <3>1, <3>3
  <2> QED
    BY <2>4, <2>5
<1> QED
  BY <1>9, <1>10, <1>11, <1>12 DEF WsInv

LEMMA WsInitially == WsInit => WsInv
<1> SUFFICES ASSUME WsInit PROVE WsInv
  OBVIOUS
<1>1. WsTypes
  BY DEF WsInit, WsTypes, Phases, Jobs, Idle
<1>2. ClientsFollow
  BY DEF WsInit, ClientsFollow, IsInjective, Range
<1>3. JobsPending
  BY DEF WsInit, JobsPending, Free
<1>4. FramesKnown /\ FramesInOrder
  BY DEF WsInit, FramesKnown, FramesInOrder
<1> QED
  BY <1>1, <1>2, <1>3, <1>4 DEF WsInv

LEMMA WsStep ==
    ASSUME WsInv, [WsNext]_wsVars
    PROVE  WsInv'
<1>0. WsTypes
  BY DEF WsInv
<1>1. CASE UNCHANGED wsVars
  <2>1. /\ UNCHANGED <<clients, closed, sent, job, messages>>
        /\ phase' = phase /\ broken' = broken /\ onClose' = onClose
    BY <1>1 DEF wsVars
  <2> QED
    BY <1>0, <2>1, QuietKeeps DEF WsTypes
<1>2. ASSUME NEW c \in Conns, Goes(c) \/ Peer(c) \/ Registers(c)
      PROVE  WsInv'
  <2>1. CASE Accept(c)
    BY <2>1, AcceptKeeps
  <2>2. CASE CallBack(c)
    BY <2>2, CallBackKeeps
  <2>3. CASE CloseRead(c)
    <3>1. Close(c) /\ UNCHANGED <<clients, onClose, job, messages>>
      BY <2>3 DEF CloseRead
    <3>2. PhaseGoesOn
      BY <1>0, <2>3 DEF CloseRead, PhaseGoesOn, Phases, WsTypes
    <3> QED
      BY <3>1, <3>2, CloseKeeps
  <2>4. CASE ScriptCloses(c)
    <3>1. Close(c) /\ UNCHANGED <<clients, onClose, job, messages>>
      BY <2>4 DEF ScriptCloses
    <3>2. PhaseGoesOn
      BY <1>0, <2>4 DEF ScriptCloses, PhaseGoesOn, WsTypes
    <3> QED
      BY <3>1, <3>2, CloseKeeps
  <2>5. CASE ReadEnds(c) \/ LockToClose(c) \/ OnClose(c) \/ Peer(c)
    <3>1. /\ UNCHANGED <<clients, closed, sent, job, messages>>
          /\ broken' \in [Conns -> BOOLEAN]
      BY <1>0, <2>5 DEF ReadEnds, LockToClose, OnClose, Peer, PeerReads, PeerLeaves, PeerVanishes, WsTypes
    <3>2. CASE ReadEnds(c)
      <4>1. /\ phase' = [phase EXCEPT ![c] = "closes"] /\ phase[c] = "reads" /\ onClose' = onClose
        BY <3>2 DEF ReadEnds
      <4>2. PhaseGoesOn
        BY <1>0, <4>1 DEF PhaseGoesOn, Phases, WsTypes
      <4> QED
        BY <1>0, <3>1, <4>1, <4>2, QuietKeeps DEF PhaseGoesOn, WsTypes
    <3>3. CASE LockToClose(c) \/ Peer(c)
      <4>1. phase' = phase /\ onClose' = onClose
        BY <3>3 DEF LockToClose, Peer, PeerReads, PeerLeaves, PeerVanishes
      <4> QED
        BY <1>0, <3>1, <4>1, QuietKeeps DEF WsTypes
    <3>4. CASE OnClose(c)
      <4>1. /\ phase' = phase /\ phase[c] \notin {"absent", "over"}
            /\ onClose' = [onClose EXCEPT ![c] = "script"]
        BY <3>4 DEF OnClose, Shown
      <4> QED
        BY <1>0, <3>1, <4>1, QuietKeeps DEF WsTypes
    <3> QED
      BY <2>5, <3>2, <3>3, <3>4
  <2> QED
    BY <1>2, <2>1, <2>2, <2>3, <2>4, <2>5 DEF Goes, Registers
<1>3. CASE CloseServer \/ \E g \in Scripts : LockToSend(g)
  <2>1. /\ UNCHANGED <<clients, closed, sent, job, messages>>
        /\ phase' = phase /\ broken' = broken /\ onClose' = onClose
    BY <1>3 DEF CloseServer, LockToSend
  <2> QED
    BY <1>0, <2>1, QuietKeeps DEF WsTypes
<1>4. ASSUME NEW g \in Scripts, Write(g) PROVE WsInv'
  BY <1>4, WriteKeeps
<1>5. ASSUME NEW g \in Scripts, Broadcast(g) PROVE WsInv'
  <2>1. clients \in Seq(Conns) /\ IsInjective(clients) /\ Start(g, clients)
    BY <1>5 DEF WsInv, WsTypes, ClientsFollow, Broadcast
  <2> QED
    BY <2>1, StartKeeps
<1>6. ASSUME NEW g \in Scripts, NEW c \in Conns, Send(g, c) PROVE WsInv'
  <2>1. <<c>> \in Seq(Conns) /\ Start(g, <<c>>)
    BY <1>6 DEF Send
  <2>2. IsInjective(<<c>>)
    BY DEF IsInjective
  <2> QED
    BY <2>1, <2>2, StartKeeps
<1> QED
  BY <1>1, <1>2, <1>3, <1>4, <1>5, <1>6 DEF WsNext, Works

-----------------------------------------------------------------------------
(***************************************************************************)
(* Servers for every number of requests, connections, routes and messages: *)
(* what HttpServer promises of an answer and of close, and what WsServer   *)
(* promises of its clients, in programs that use one of them or both.      *)
(***************************************************************************)

Fields == {"phase", "method", "path", "chain", "handler", "sent", "status", "pending", "headers",
           "value", "leaked", "answers", "ran", "known", "asked"}

(* Until a request is answered it has no answer; then it has one, that of   *)
(* the server or of the function that was called last.                      *)
OneAnswer(q) ==
    \E a : q.answers = <<a>> /\ (a.by \in {Static, Server} \/ a.by = Last(q.ran))
AnswersOf(q) ==
    ~q.leaked => IF q.sent \/ q.phase = "done" THEN OneAnswer(q) ELSE q.answers = <<>>

(* The script has closed only a server that listened; once it has seen no   *)
(* request under way there is none; and while it waits it is still there.   *)
ServerStates ==
    /\ DOMAIN closes = Closers
    /\ closes[Main] # "none" => server = "closed"
    /\ closes[Main] = "drained" => Busy = {}
    /\ closes[Main] = "waits" => main = "runs"
    /\ gone => main = "done" /\ server # "open"

HttpInv ==
    /\ DOMAIN req = Requests
    /\ \A r \in Requests : DOMAIN req[r] = Fields /\ AnswersOf(req[r])
    /\ ServerStates

-----------------------------------------------------------------------------
(* The steps of a request. *)

LEMMA AppendToEmpty == ASSUME NEW a PROVE Append(<<>>, a) = <<a>>
<1>1. <<>> \in Seq({a}) /\ <<a>> \in Seq({a}) /\ Len(<<>>) = 0 /\ Len(<<a>>) = 1 /\ <<a>>[1] = a
  OBVIOUS
<1>2. /\ Append(<<>>, a) \in Seq({a}) /\ Len(Append(<<>>, a)) = 1 /\ Append(<<>>, a)[1] = a
  BY <1>1
<1>3. \A i \in 1..Len(<<a>>) : <<a>>[i] = Append(<<>>, a)[i]
  BY <1>1, <1>2
<1> QED
  BY <1>1, <1>2, <1>3, SeqEqual

(* A step of a request that is under way, or of none.                       *)
LEMMA RequestStep ==
    ASSUME HttpInv, NEW r \in Requests, NEW q, req' = [req EXCEPT ![r] = q],
           DOMAIN q = Fields, AnswersOf(q),
           q.phase \in {"none", "done"} \/ r \in Busy \/ server = "open", UNCHANGED serverVars
    PROVE  HttpInv'
<1>1. /\ DOMAIN req' = Requests /\ req'[r] = q
      /\ \A s \in Requests : s # r => req'[s] = req[s]
  BY DEF HttpInv
<1>2. server # "open" => (Busy)' \subseteq Busy
  BY <1>1 DEF Busy
<1>3. ServerStates'
  BY <1>2 DEF HttpInv, ServerStates, serverVars
<1>4. \A s \in Requests : DOMAIN req'[s] = Fields /\ AnswersOf(req'[s])
  BY <1>1 DEF HttpInv
<1>5. \A s \in Requests : (AnswersOf(req[s]))' <=> AnswersOf(req'[s])
  BY DEF AnswersOf, OneAnswer
<1> QED
  BY <1>1, <1>3, <1>4, <1>5 DEF HttpInv

LEMMA ChainKeeps ==
    ASSUME HttpInv, NEW r \in Requests, Handles_(r)
    PROVE  HttpInv'
<1> DEFINE q == req[r]
<1>0. DOMAIN q = Fields /\ AnswersOf(q) /\ DOMAIN req = Requests
  BY DEF HttpInv
<1>1. CASE Route(r)
  <2> DEFINE p == [q EXCEPT !.phase = "chain", !.known = Len(routes), !.chain = Chain(q), !.handler = First(q)]
  <2>1. req' = [req EXCEPT ![r] = p] /\ UNCHANGED serverVars /\ q.phase = "arrives"
    BY <1>1 DEF Route
  <2>2. DOMAIN p = Fields /\ AnswersOf(p)
    BY <1>0, <2>1 DEF Fields, AnswersOf, OneAnswer
  <2>3. r \in Busy
    BY <2>1 DEF Busy
  <2> HIDE DEF p
  <2> QED
    BY <2>1, <2>2, <2>3, RequestStep
<1>2. CASE Middleware(r)
  <2> DEFINE i == Head(q.chain)
  <2>0. q.phase = "chain" /\ ~q.sent /\ UNCHANGED serverVars
    BY <1>2 DEF Middleware
  <2>1. r \in Busy
    BY <2>0 DEF Busy
  <2>2. ~q.leaked => q.answers = <<>>
    BY <1>0, <2>0 DEF AnswersOf
  <2>3. CASE req' = [req EXCEPT ![r] = [Enter(r, i, "middleware") EXCEPT !.chain = Tail(q.chain)]]
    <3> DEFINE p == [Enter(r, i, "middleware") EXCEPT !.chain = Tail(q.chain)]
    <3>1. /\ DOMAIN p = Fields /\ p.phase = "middleware" /\ p.sent = q.sent
          /\ p.leaked = q.leaked /\ p.answers = q.answers
      BY <1>0 DEF Enter, Fields
    <3> HIDE DEF p
    <3>2. AnswersOf(p)
      BY <2>0, <2>2, <3>1 DEF AnswersOf
    <3> QED
      BY <2>0, <2>1, <2>3, <3>1, <3>2, RequestStep DEF p
  <2>4. CASE req' = [req EXCEPT ![r] = [Answer(r, Static, 200, Typed(q.headers)) EXCEPT !.phase = "done"]]
    <3> DEFINE p == [Answer(r, Static, 200, Typed(q.headers)) EXCEPT !.phase = "done"]
               a == [by |-> Static, status |-> 200, headers |-> Typed(q.headers)]
    <3>1. /\ DOMAIN p = Fields /\ p.phase = "done" /\ p.sent = q.sent
          /\ p.leaked = q.leaked /\ p.answers = Append(q.answers, a)
      BY <1>0 DEF Answer, Fields
    <3>2. a.by = Static
      OBVIOUS
    <3> HIDE DEF p, a
    <3>3. ~p.leaked => p.answers = <<a>>
      BY <2>2, <3>1, AppendToEmpty
    <3>4. AnswersOf(p)
      BY <3>1, <3>2, <3>3 DEF AnswersOf, OneAnswer
    <3> QED
      BY <2>0, <2>1, <2>4, <3>1, <3>4, RequestStep DEF p
  <2>5. CASE req' = [req EXCEPT ![r].chain = Tail(q.chain)]
    <3> DEFINE p == [q EXCEPT !.chain = Tail(q.chain)]
    <3>1. /\ DOMAIN p = Fields /\ p.phase = "chain" /\ p.sent = q.sent
          /\ p.leaked = q.leaked /\ p.answers = q.answers
      BY <1>0, <2>0 DEF Fields
    <3>2. req' = [req EXCEPT ![r] = p]
      BY <2>5
    <3> HIDE DEF p
    <3>3. AnswersOf(p)
      BY <2>0, <2>2, <3>1 DEF AnswersOf
    <3> QED
      BY <2>0, <2>1, <3>1, <3>2, <3>3, RequestStep
  <2> QED
    BY <1>2, <2>3, <2>4, <2>5 DEF Middleware
<1>3. CASE Stop(r)
  <2> DEFINE p == [q EXCEPT !.phase = "done"]
  <2>1. req' = [req EXCEPT ![r] = p] /\ UNCHANGED serverVars /\ q.phase = "chain" /\ q.sent
    BY <1>3 DEF Stop
  <2>2. /\ DOMAIN p = Fields /\ p.phase = "done" /\ p.sent = q.sent
        /\ p.leaked = q.leaked /\ p.answers = q.answers /\ p.ran = q.ran
    BY <1>0 DEF Fields
  <2> HIDE DEF p
  <2>3. AnswersOf(p)
    BY <1>0, <2>1, <2>2 DEF AnswersOf, OneAnswer
  <2> QED
    BY <2>1, <2>2, <2>3, RequestStep
<1>4. CASE Handler(r)
  <2>0. q.phase = "chain" /\ ~q.sent /\ UNCHANGED serverVars
    BY <1>4 DEF Handler
  <2>1. r \in Busy
    BY <2>0 DEF Busy
  <2>2. ~q.leaked => q.answers = <<>>
    BY <1>0, <2>0 DEF AnswersOf
  <2>3. PICK p \in {Enter(r, q.handler, "handler"), Enter(r, Default, "handler"),
                    [q EXCEPT !.phase = "replies"]} : req' = [req EXCEPT ![r] = p]
    BY <1>4 DEF Handler
  <2>4. /\ DOMAIN p = Fields /\ p.phase \in {"handler", "replies"} /\ p.sent = q.sent
        /\ p.leaked = q.leaked /\ p.answers = q.answers
    BY <1>0 DEF Enter, Fields
  <2>5. AnswersOf(p)
    BY <2>0, <2>2, <2>4 DEF AnswersOf
  <2> QED
    BY <2>0, <2>1, <2>3, <2>4, <2>5, RequestStep
<1>5. CASE Reply(r)
  <2>0. q.phase = "replies" /\ UNCHANGED serverVars
    BY <1>5 DEF Reply
  <2>1. r \in Busy
    BY <2>0 DEF Busy
  <2>2. CASE q.sent
    <3> DEFINE p == [q EXCEPT !.phase = "done"]
    <3>1. req' = [req EXCEPT ![r] = p]
      BY <1>5, <2>2 DEF Reply
    <3>2. /\ DOMAIN p = Fields /\ p.phase = "done" /\ p.sent = q.sent
          /\ p.leaked = q.leaked /\ p.answers = q.answers /\ p.ran = q.ran
      BY <1>0 DEF Fields
    <3> HIDE DEF p
    <3>3. AnswersOf(p)
      BY <1>0, <2>2, <3>2 DEF AnswersOf, OneAnswer
    <3> QED
      BY <2>0, <2>1, <3>1, <3>2, <3>3, RequestStep
  <2>3. CASE ~q.sent
    <3> DEFINE code == IF q.value THEN 200 ELSE 404
               p == [Answer(r, Server, code, Typed(q.headers)) EXCEPT !.phase = "done"]
               a == [by |-> Server, status |-> code, headers |-> Typed(q.headers)]
    <3>1. req' = [req EXCEPT ![r] = p]
      BY <1>5, <2>3 DEF Reply
    <3>2. /\ DOMAIN p = Fields /\ p.phase = "done"
          /\ p.leaked = q.leaked /\ p.answers = Append(q.answers, a)
      BY <1>0 DEF Answer, Fields
    <3>3. a.by = Server
      OBVIOUS
    <3>4. ~q.leaked => q.answers = <<>>
      BY <1>0, <2>0, <2>3 DEF AnswersOf
    <3> HIDE DEF p, a
    <3>5. ~p.leaked => p.answers = <<a>>
      BY <3>2, <3>4, AppendToEmpty
    <3>6. AnswersOf(p)
      BY <3>2, <3>3, <3>5 DEF AnswersOf, OneAnswer
    <3> QED
      BY <2>0, <2>1, <3>1, <3>2, <3>6, RequestStep
  <2> QED
    BY <2>2, <2>3
<1> QED
  BY <1>1, <1>2, <1>3, <1>4, <1>5 DEF Handles_

(* What a function does, or a goroutine it left behind, that gives no       *)
(* answer.                                                                  *)
LEMMA AskKeeps ==
    ASSUME HttpInv, NEW r \in Requests, NEW q, req' = [req EXCEPT ![r] = q], UNCHANGED serverVars,
           req[r].phase \in Functions, DOMAIN q = Fields, q.phase # "done", q.sent = req[r].sent,
           q.leaked \/ q.leaked = req[r].leaked, q.answers = req[r].answers, q.ran = req[r].ran
    PROVE  HttpInv'
<1>1. r \in Busy
  BY DEF Busy, Functions
<1>2. AnswersOf(req[r])
  BY DEF HttpInv
<1>3. AnswersOf(q)
  BY <1>2 DEF AnswersOf, OneAnswer, Functions
<1> QED
  BY <1>1, <1>3, RequestStep

LEMMA SendKeeps ==
    ASSUME HttpInv, NEW r \in Requests, NEW by, NEW how, NEW code, Sends(r, by, how, code),
           UNCHANGED serverVars, ~req[r].sent,
           req[r].leaked \/ (req[r].phase \in Functions /\ by = Last(req[r].ran))
    PROVE  HttpInv'
<1> DEFINE q == req[r]
           stat == Status(q, how, code)
<1>0. DOMAIN q = Fields /\ AnswersOf(q)
  BY DEF HttpInv
<1>w. PICK w \in Flushes(q) :
        LET written == IF Sets(how, w) THEN Typed(w) ELSE w
        IN  req' = [req EXCEPT ![r] = [Answer(r, by, Status(q, how, code), written) EXCEPT
                !.sent = TRUE, !.headers = written, !.pending = NoRequest.pending,
                !.asked = Append(@, <<how, code>>)]]
  BY DEF Sends
<1> DEFINE all == IF Sets(how, w) THEN Typed(w) ELSE w
           a == [by |-> by, status |-> stat, headers |-> all]
           p == [Answer(r, by, stat, all) EXCEPT !.sent = TRUE, !.headers = all,
                    !.pending = NoRequest.pending, !.asked = Append(@, <<how, code>>)]
<1>1. req' = [req EXCEPT ![r] = p]
  BY <1>w
<1>2. /\ DOMAIN p = Fields /\ p.phase = q.phase /\ p.sent
      /\ p.leaked = q.leaked /\ p.answers = Append(q.answers, a) /\ p.ran = q.ran
  BY <1>0 DEF Answer, Fields
<1>3. a.by = by
  OBVIOUS
<1> HIDE DEF p, a
<1>4. ~q.leaked => q.answers = <<>> /\ by = Last(q.ran)
  BY <1>0 DEF AnswersOf, Functions
<1>5. ~p.leaked => p.answers = <<a>> /\ a.by = Last(p.ran)
  BY <1>2, <1>3, <1>4, AppendToEmpty
<1>6. AnswersOf(p)
  BY <1>2, <1>5 DEF AnswersOf, OneAnswer
<1>7. p.phase \in {"none", "done"} \/ r \in Busy
  BY <1>2 DEF Busy
<1> QED
  BY <1>1, <1>2, <1>6, <1>7, RequestStep

LEMMA FunctionKeeps ==
    ASSUME HttpInv, NEW r \in Requests, Return(r) \/ Function(r) \/ sendLate(r)
    PROVE  HttpInv'
<1> DEFINE q == req[r]
<1>0. DOMAIN q = Fields
  BY DEF HttpInv
<1>1. CASE Return(r)
  <2>1. PICK value \in BOOLEAN :
          req' = [req EXCEPT ![r].value = value,
                             ![r].phase = IF q.phase = "handler" THEN "replies" ELSE "chain"]
    BY <1>1 DEF Return
  <2> DEFINE next == IF q.phase = "handler" THEN "replies" ELSE "chain"
             p == [q EXCEPT !.value = value, !.phase = next]
  <2>2. req' = [req EXCEPT ![r] = p]
    BY <2>1
  <2>3. /\ DOMAIN p = Fields /\ p.phase = next /\ p.sent = q.sent
        /\ p.leaked = q.leaked /\ p.answers = q.answers /\ p.ran = q.ran
    BY <1>0 DEF Fields
  <2>4. UNCHANGED serverVars /\ q.phase \in Functions /\ next # "done"
    BY <1>1 DEF Return
  <2> HIDE DEF p, next
  <2> QED
    BY <2>2, <2>3, <2>4, AskKeeps
<1>2. ASSUME NEW code, setStatus(r, code) PROVE HttpInv'
  <2> DEFINE p == [Asked(r, "status", code) EXCEPT !.status = code]
  <2>1. /\ req' = [req EXCEPT ![r] = p] /\ UNCHANGED serverVars /\ q.phase \in Functions
    BY <1>2 DEF setStatus, Asks
  <2>2. /\ DOMAIN p = Fields /\ p.phase = q.phase /\ p.sent = q.sent
        /\ p.leaked = q.leaked /\ p.answers = q.answers /\ p.ran = q.ran
    BY <1>0 DEF Asked, Fields
  <2>3. p.phase # "done"
    BY <2>1, <2>2 DEF Functions
  <2> HIDE DEF p
  <2> QED
    BY <2>1, <2>2, <2>3, AskKeeps
<1>3. ASSUME NEW k, setHeader(r, k) PROVE HttpInv'
  <2> DEFINE p == [Asked(r, "header", k) EXCEPT !.pending[k] = Number(r)]
  <2>1. /\ req' = [req EXCEPT ![r] = p] /\ UNCHANGED serverVars /\ q.phase \in Functions
    BY <1>3 DEF setHeader, Asks
  <2>2. /\ DOMAIN p = Fields /\ p.phase = q.phase /\ p.sent = q.sent
        /\ p.leaked = q.leaked /\ p.answers = q.answers /\ p.ran = q.ran
    BY <1>0 DEF Asked, Fields
  <2>3. p.phase # "done"
    BY <2>1, <2>2 DEF Functions
  <2> HIDE DEF p
  <2> QED
    BY <2>1, <2>2, <2>3, AskKeeps
<1>4. CASE cookie(r)
  <2> DEFINE p == [Asked(r, "cookie", "Set-Cookie") EXCEPT !.headers["Set-Cookie"] = Number(r)]
  <2>1. /\ req' = [req EXCEPT ![r] = p] /\ UNCHANGED serverVars /\ q.phase \in Functions
    BY <1>4 DEF cookie, Asks
  <2>2. /\ DOMAIN p = Fields /\ p.phase = q.phase /\ p.sent = q.sent
        /\ p.leaked = q.leaked /\ p.answers = q.answers /\ p.ran = q.ran
    BY <1>0 DEF Asked, Fields
  <2>3. p.phase # "done"
    BY <2>1, <2>2 DEF Functions
  <2> HIDE DEF p
  <2> QED
    BY <2>1, <2>2, <2>3, AskKeeps
<1>5. ASSUME NEW k, removeHeader(r, k) PROVE HttpInv'
  <2> DEFINE p == [Asked(r, "none", k) EXCEPT !.pending[k] = None, !.headers[canonical(k)] = None]
  <2>1. /\ req' = [req EXCEPT ![r] = p] /\ UNCHANGED serverVars /\ q.phase \in Functions
    BY <1>5 DEF removeHeader, Asks
  <2>2. /\ DOMAIN p = Fields /\ p.phase = q.phase /\ p.sent = q.sent
        /\ p.leaked = q.leaked /\ p.answers = q.answers /\ p.ran = q.ran
    BY <1>0 DEF Asked, Fields
  <2>3. p.phase # "done"
    BY <2>1, <2>2 DEF Functions
  <2> HIDE DEF p
  <2> QED
    BY <2>1, <2>2, <2>3, AskKeeps
<1>6. CASE Spawn(r)
  <2> DEFINE p == [Asked(r, "spawn", 0) EXCEPT !.leaked = TRUE]
  <2>1. /\ req' = [req EXCEPT ![r] = p] /\ UNCHANGED serverVars /\ q.phase \in Functions
    BY <1>6 DEF Spawn, Asks
  <2>2. /\ DOMAIN p = Fields /\ p.phase = q.phase /\ p.sent = q.sent
        /\ p.leaked /\ p.answers = q.answers /\ p.ran = q.ran
    BY <1>0 DEF Asked, Fields
  <2>3. p.phase # "done"
    BY <2>1, <2>2 DEF Functions
  <2> HIDE DEF p
  <2> QED
    BY <2>1, <2>2, <2>3, AskKeeps
<1>7. ASSUME NEW how, NEW code, send(r, how, code) PROVE HttpInv'
  BY <1>7, SendKeeps DEF send
<1>8. CASE sendLate(r)
  BY <1>8, SendKeeps DEF sendLate
<1> QED
  BY <1>1, <1>2, <1>3, <1>4, <1>5, <1>6, <1>7, <1>8 DEF Function

LEMMA ArriveKeeps ==
    ASSUME HttpInv, NEW r \in Requests, NEW method, NEW path, Arrive(r, method, path)
    PROVE  HttpInv'
<1> DEFINE p == [req[r] EXCEPT !.phase = "arrives", !.method = method, !.path = path]
<1>1. /\ req' = [req EXCEPT ![r] = p] /\ UNCHANGED serverVars
      /\ req[r].phase = "none" /\ server = "open"
  BY DEF Arrive
<1>2. DOMAIN req[r] = Fields /\ AnswersOf(req[r])
  BY DEF HttpInv
<1>3. /\ DOMAIN p = Fields /\ p.phase = "arrives" /\ p.sent = req[r].sent
      /\ p.leaked = req[r].leaked /\ p.answers = req[r].answers /\ p.ran = req[r].ran
  BY <1>2 DEF Fields
<1> HIDE DEF p
<1>4. AnswersOf(p)
  BY <1>1, <1>2, <1>3 DEF AnswersOf, OneAnswer
<1> QED
  BY <1>1, <1>3, <1>4, RequestStep

-----------------------------------------------------------------------------
(* The server and the process. *)

LEMMA ServerKeeps ==
    ASSUME HttpInv, UNCHANGED req,
           \/ UNCHANGED serverVars
           \/ listen \/ ServerSteps \/ ScriptEnds \/ Exit
    PROVE  HttpInv'
<1>1. (Busy)' = Busy
  BY DEF Busy
<1>2. DOMAIN req' = Requests /\ \A r \in Requests : DOMAIN req'[r] = Fields /\ AnswersOf(req[r])'
  BY DEF HttpInv, AnswersOf, OneAnswer
<1>3. ServerStates
  BY DEF HttpInv
<1>4. ServerStates'
  <2>1. CASE UNCHANGED serverVars
    BY <1>1, <1>3, <2>1 DEF ServerStates, serverVars
  <2>2. CASE listen \/ ScriptEnds \/ Exit
    BY <1>1, <1>3, <2>2 DEF ServerStates, listen, ScriptEnds, Exit, Up
  <2>3. ASSUME NEW who \in Closers, Drained(who) \/ Timeout(who) \/ close(who) PROVE ServerStates'
    <3>1. /\ DOMAIN closes' = Closers /\ UNCHANGED <<main, gone>> /\ ~gone
          /\ who # Main => closes'[Main] = closes[Main]
      BY <1>3, <2>3 DEF ServerStates, Drained, Timeout, close, Up, Closers
    <3>2. server' = server \/ server' = "closed"
      BY <2>3 DEF Drained, Timeout, close
    <3>3. CASE who # Main
      BY <1>1, <1>3, <3>1, <3>2, <3>3 DEF ServerStates
    <3>4. CASE who = Main
      BY <1>1, <1>3, <2>3, <3>1, <3>4 DEF ServerStates, Drained, Timeout, close, Up
    <3> QED
      BY <3>3, <3>4
  <2> QED
    BY <2>1, <2>2, <2>3 DEF ServerSteps
<1> QED
  BY <1>2, <1>4 DEF HttpInv

LEMMA HttpInitially == HttpInit => HttpInv
<1> SUFFICES ASSUME HttpInit PROVE HttpInv
  OBVIOUS
<1>1. /\ req = [r \in Requests |-> NoRequest] /\ server = "new"
      /\ DOMAIN closes = Closers /\ closes[Main] = "none" /\ main = "runs" /\ gone = FALSE
  BY DEF HttpInit, Closers
<1>2. /\ DOMAIN NoRequest = Fields /\ ~NoRequest.sent /\ NoRequest.phase = "none"
      /\ NoRequest.answers = <<>>
  BY DEF NoRequest, Fields
<1>3. AnswersOf(NoRequest)
  BY <1>2 DEF AnswersOf
<1>4. Busy = {}
  BY <1>1, <1>2 DEF Busy
<1>5. ServerStates
  BY <1>1, <1>4 DEF ServerStates
<1> QED
  BY <1>1, <1>2, <1>3, <1>5 DEF HttpInv

LEMMA HttpStep ==
    ASSUME HttpInv, [HttpNext]_httpVars
    PROVE  HttpInv'
<1>1. CASE UNCHANGED httpVars
  <2>1. UNCHANGED req /\ UNCHANGED serverVars
    BY <1>1 DEF httpVars
  <2> QED
    BY <2>1, ServerKeeps
<1>2. ASSUME NEW e \in Entries, Register(e) PROVE HttpInv'
  <2>1. UNCHANGED req /\ UNCHANGED serverVars
    BY <1>2 DEF Register
  <2> QED
    BY <2>1, ServerKeeps
<1>3. ASSUME NEW r \in Requests, Handles_(r) PROVE HttpInv'
  BY <1>3, ChainKeeps
<1>4. ASSUME NEW r \in Requests, Return(r) \/ Function(r) \/ sendLate(r) PROVE HttpInv'
  BY <1>4, FunctionKeeps
<1>5. ASSUME NEW r \in Requests, NEW method \in Methods, NEW path \in Paths, Arrive(r, method, path)
      PROVE  HttpInv'
  BY <1>5, ArriveKeeps
<1>6. CASE listen \/ ServerSteps \/ ScriptEnds \/ Exit
  <2>1. UNCHANGED req
    BY <1>6 DEF listen, ServerSteps, Drained, Timeout, close, ScriptEnds, Exit
  <2> QED
    BY <1>6, <2>1, ServerKeeps
<1> QED
  BY <1>1, <1>2, <1>3, <1>4, <1>5, <1>6 DEF HttpNext

-----------------------------------------------------------------------------
(* What the functions of a request ask for, and which functions run.        *)

Kinds == {"header", "cookie", "none"}
Asking == (Kinds \cup {"status", "spawn"} \cup Replies) \X (Nat \cup Spellings)

(* The types of content that answers set.                                   *)
TypedBy(how, asked, h) ==
    /\ h = "Content-Type" /\ how # "end"
    /\ how = "redirect" => HeaderAsked(asked, h) = {None}
ValueCarried(a, asked, h) ==
    a.headers[h] \in IF TypedBy(Last(asked)[1], asked, h) THEN {Own} ELSE HeaderAsked(asked, h)
HeadersCarried(a, asked) == \A h \in Headers : OneWay(asked, h) => ValueCarried(a, asked, h)

(* An answer of a function carries what they asked for; until there is one, *)
(* res and w have it: res what setHeader set and w what cookie did, under   *)
(* the spellings of the calls.                                              *)
AnswersCarry(q) ==
    \A i \in DOMAIN q.answers : q.answers[i].by \notin {Static, Server} =>
        /\ HeadersCarried(q.answers[i], q.asked)
        /\ Last(q.asked) \in {<<"typed", 0>>, <<"end", 0>>} =>
              q.answers[i].status \in IF StatusAsked(q.asked) = {} THEN {200} ELSE StatusAsked(q.asked)
Called(asked, what, k) == \E i \in DOMAIN asked : asked[i][1] = what /\ asked[i][2] = k
ValueKept(q, h) ==
    /\ \A k \in Spellings : canonical(k) = h /\ Called(q.asked, "header", k) =>
          HeaderAsked(q.asked, h) = {q.pending[k]}
    /\ (\A k \in Spellings : canonical(k) = h => ~Called(q.asked, "header", k)) =>
          HeaderAsked(q.asked, h) = {q.headers[h]}
HeadersKept(q) ==
    /\ q.pending \in [Spellings -> Nat] /\ q.headers \in [Headers -> Nat]
    /\ \A k \in Spellings : q.pending[k] # None => Called(q.asked, "header", k)
    /\ \A h \in Headers : q.headers[h] # None => Called(q.asked, "cookie", h)
    /\ \A h \in Headers : OneWay(q.asked, h) => ValueKept(q, h)
Carried(q) ==
    /\ q.asked \in Seq(Asking) /\ \E S : q.answers \in Seq(S)
    /\ q.status \in Nat /\ q.sent \in BOOLEAN
    /\ q.sent => AnswersCarry(q)
    /\ ~q.sent =>
          /\ \A i \in DOMAIN q.answers : q.answers[i].by \in {Static, Server}
          /\ HeadersKept(q)
          /\ StatusAsked(q.asked) = IF q.status = 0 THEN {} ELSE {q.status}

(* The functions that ran, those of the chain and the handler are in the    *)
(* order of the routes, and no function that is due is left out.            *)
Due(q, i, rs) ==
    Guards(rs[i], q) /\ rs[i].calls = "function" /\ (q.handler = Server \/ i < q.handler)
Rising(ran) == \A i, j \in DOMAIN ran : i < j /\ ran[j] # Default => ran[i] < ran[j]
Chained(q, rs) ==
    /\ \A i, j \in DOMAIN q.chain : i < j => q.chain[i] < q.chain[j]
    /\ \A i \in DOMAIN q.ran, j \in DOMAIN q.chain : q.ran[i] < q.chain[j]
    /\ q.handler # Server => \A i \in DOMAIN q.ran : q.ran[i] < q.handler
    /\ q.handler # Server => \A j \in DOMAIN q.chain : q.chain[j] < q.handler
    /\ \A i \in 1..q.known : Due(q, i, rs) => i \in Range(q.ran) \cup Range(q.chain)
DueRan(q, rs) == \A i \in 1..q.known : Due(q, i, rs) => i \in Range(q.ran)
Guarded(q, rs) ==
    /\ q.ran \in Seq(Nat) /\ q.chain \in Seq(Nat) /\ q.known \in 0..Len(rs)
    /\ q.handler \in Nat \cup {Server}
    /\ Rising(q.ran)
    /\ q.phase \in {"none", "arrives"} => q.ran = <<>>
    /\ q.phase \in {"chain", "middleware"} => Chained(q, rs)
    /\ q.phase = "handler" => DueRan(q, rs)

RequestsInv ==
    /\ routes \in Seq(Entries)
    /\ \A r \in Requests : Carried(req[r]) /\ Guarded(req[r], routes)

(* Of positions up to n and one more, the last is that.                     *)
LEMMA LastOfMore ==
    ASSUME NEW n \in Nat, NEW S \in SUBSET (1..n)
    PROVE  LastOf(S \cup {n + 1}) = {n + 1}
<1>1. \A i \in S : i \in Nat /\ i < n + 1
  OBVIOUS
<1>2. \A i \in S \cup {n + 1} : i <= n + 1
  BY <1>1
<1>3. \A i \in LastOf(S \cup {n + 1}) : i = n + 1
  BY <1>1 DEF LastOf
<1>4. n + 1 \in LastOf(S \cup {n + 1})
  BY <1>2, Zenon DEF LastOf
<1> QED
  BY <1>3, <1>4

(* One more call on res: what it is about, it decides.                      *)
IsAbout(x, h) == x[1] \in Kinds /\ canonical(x[2]) = h

Says(x, i) == IF x[1] = "none" THEN None ELSE i
OneMore(s, x, t) ==
    /\ t \in Seq(Asking) /\ Last(t) = x
    /\ Len(s) \in Nat /\ DOMAIN s = 1..Len(s) /\ DOMAIN t = 1..Len(s) + 1
    /\ t[Len(s) + 1] = x /\ \A i \in 1..Len(s) : t[i] = s[i]
    /\ \A h : IsAbout(x, h) => About(t, h) = About(s, h) \cup {Len(s) + 1}
    /\ \A h : ~IsAbout(x, h) => About(t, h) = About(s, h)
    /\ \A h : IsAbout(x, h) => HeaderAsked(t, h) = {Says(x, Len(s) + 1)}
    /\ \A h : ~IsAbout(x, h) => HeaderAsked(t, h) = HeaderAsked(s, h)
    /\ StatusAsked(t) = IF x[1] = "status" THEN {x[2]} ELSE StatusAsked(s)

LEMMA AskedMore ==
    ASSUME NEW s \in Seq(Asking), NEW x \in Asking
    PROVE  OneMore(s, x, Append(s, x))
<1> DEFINE t == Append(s, x)
           n == Len(s)
           st(u) == {i \in DOMAIN u : u[i][1] = "status"}
<1>1. /\ t \in Seq(Asking) /\ Last(t) = x /\ n \in Nat /\ Len(t) = n + 1
      /\ t[n + 1] = x /\ \A i \in 1..n : t[i] = s[i]
  BY AppendFacts
<1> HIDE DEF t
<1>2. DOMAIN s = 1..n /\ DOMAIN t = 1..n + 1
  BY <1>1
<1>3. ASSUME NEW h
      PROVE  /\ IsAbout(x, h) => About(t, h) = About(s, h) \cup {n + 1}
             /\ ~IsAbout(x, h) => About(t, h) = About(s, h)
  <2>0. /\ \A i \in DOMAIN t : i \in About(t, h) <=> IsAbout(t[i], h)
        /\ \A i \in DOMAIN s : i \in About(s, h) <=> IsAbout(s[i], h)
        /\ About(t, h) \subseteq DOMAIN t /\ About(s, h) \subseteq DOMAIN s
    BY Zenon DEF About, IsAbout, Kinds
  <2>1. ASSUME NEW i \in 1..n PROVE i \in About(t, h) <=> i \in About(s, h)
    BY <1>1, <1>2, <2>0
  <2>2. n + 1 \in About(t, h) <=> IsAbout(x, h)
    BY <1>1, <1>2, <2>0
  <2>3. \A i \in DOMAIN t : i \in 1..n \/ i = n + 1
    BY <1>1, <1>2
  <2>4. About(s, h) \subseteq 1..n /\ 1..n \subseteq DOMAIN t /\ n + 1 \in DOMAIN t
    BY <1>1, <1>2, <2>0
  <2>5. CASE IsAbout(x, h)
    <3>1. \A i : i \in About(t, h) <=> i \in About(s, h) \/ i = n + 1
      BY <2>0, <2>1, <2>2, <2>3, <2>4, <2>5
    <3> QED
      BY <2>5, <3>1
  <2>6. CASE ~IsAbout(x, h)
    <3>1. \A i : i \in About(t, h) <=> i \in About(s, h)
      BY <2>0, <2>1, <2>2, <2>3, <2>4, <2>6
    <3> QED
      BY <2>6, <3>1
  <2> QED
    BY <2>5, <2>6
<1>4. st(t) = IF x[1] = "status" THEN st(s) \cup {n + 1} ELSE st(s)
  <2>1. ASSUME NEW i \in 1..n PROVE i \in st(t) <=> i \in st(s)
    BY <1>1, <1>2
  <2>2. n + 1 \in st(t) <=> x[1] = "status"
    BY <1>1, <1>2
  <2>3. st(s) \subseteq 1..n /\ st(t) \subseteq 1..n + 1
    BY <1>2
  <2> QED
    BY <1>1, <2>1, <2>2, <2>3
<1>5. /\ \A h : About(s, h) \in SUBSET (1..n)
      /\ st(s) \in SUBSET (1..n)
  BY <1>2 DEF About
<1>7. StatusAsked(t) = {t[i][2] : i \in LastOf(st(t))} /\ StatusAsked(s) = {s[i][2] : i \in LastOf(st(s))}
  BY Zenon DEF StatusAsked
<1>8. ASSUME NEW S \in SUBSET (1..n) PROVE LastOf(S) \subseteq 1..n /\ LastOf(S \cup {n + 1}) = {n + 1}
  BY <1>1, LastOfMore DEF LastOf
<1> HIDE DEF st
<1>9. ASSUME NEW h
      PROVE  /\ IsAbout(x, h) => HeaderAsked(t, h) = {Says(x, n + 1)}
             /\ ~IsAbout(x, h) => HeaderAsked(t, h) = HeaderAsked(s, h)
  <2>0. ASSUME NEW u
        PROVE  HeaderAsked(u, h) = IF About(u, h) = {} THEN {None}
                                   ELSE {Says(u[i], i) : i \in LastOf(About(u, h))}
    BY Zenon DEF HeaderAsked, Says
  <2>1. CASE IsAbout(x, h)
    <3>1. LastOf(About(t, h)) = {n + 1} /\ About(t, h) # {}
      BY <1>3, <1>5, <1>8, <2>1
    <3>2. HeaderAsked(t, h) = {Says(t[i], i) : i \in LastOf(About(t, h))}
      BY <2>0, <3>1, Zenon
    <3>3. \A v : v \in HeaderAsked(t, h) <=> v = Says(x, n + 1)
      BY <1>1, <3>1, <3>2
    <3> QED
      BY <2>1, <3>3
  <2>2. CASE ~IsAbout(x, h)
    <3>1. About(t, h) = About(s, h)
      BY <1>3, <2>2
    <3>2. LastOf(About(s, h)) \subseteq 1..n
      BY <1>5, <1>8
    <3>3. \A i \in LastOf(About(s, h)) : t[i] = s[i]
      BY <1>1, <3>2
    <3>4. {Says(t[i], i) : i \in LastOf(About(s, h))} = {Says(s[i], i) : i \in LastOf(About(s, h))}
      BY <3>3
    <3>5. HeaderAsked(t, h) = HeaderAsked(s, h)
      BY <2>0, <3>1, <3>4, Zenon
    <3> QED
      BY <2>2, <3>5
  <2> QED
    BY <2>1, <2>2
<1>12. StatusAsked(t) = IF x[1] = "status" THEN {x[2]} ELSE StatusAsked(s)
  <2>1. CASE x[1] = "status"
    <3>1. LastOf(st(t)) = {n + 1}
      BY <1>4, <1>5, <1>8, <2>1
    <3> QED
      BY <1>1, <1>7, <2>1, <3>1
  <2>2. CASE x[1] # "status"
    <3>1. LastOf(st(t)) = LastOf(st(s)) /\ LastOf(st(s)) \subseteq 1..n
      BY <1>4, <1>5, <1>8, <2>2
    <3> QED
      BY <1>1, <1>7, <2>2, <3>1
  <2> QED
    BY <2>1, <2>2
<1> QED
  BY <1>1, <1>2, <1>3, <1>9, <1>12 DEF t, OneMore

(* The calls that were made, with one more, and the ways of a header.       *)
OneCalled(s, x, t) ==
    /\ \A what, k : Called(t, what, k) <=> Called(s, what, k) \/ (x[1] = what /\ x[2] = k)
    /\ \A h : OneWay(t, h) => OneWay(s, h)
    /\ \A h : OneWay(t, h) /\ IsAbout(x, h) =>
          \A what \in Kinds : \A k : canonical(k) = h /\ Called(s, what, k) =>
             k = x[2] /\ {what, x[1]} # {"header", "cookie"}

LEMMA CalledMore ==
    ASSUME NEW s \in Seq(Asking), NEW x \in Asking
    PROVE  OneCalled(s, x, Append(s, x))
<1> DEFINE t == Append(s, x)
           n == Len(s)
<1>1. /\ n \in Nat /\ DOMAIN s = 1..n /\ DOMAIN t = 1..n + 1
      /\ t[n + 1] = x /\ \A i \in 1..n : t[i] = s[i]
      /\ \A h : IsAbout(x, h) => About(t, h) = About(s, h) \cup {n + 1}
      /\ \A h : ~IsAbout(x, h) => About(t, h) = About(s, h)
  BY AskedMore DEF OneMore
<1> HIDE DEF t, n
<1>2. \A what, k : Called(t, what, k) <=> Called(s, what, k) \/ (x[1] = what /\ x[2] = k)
  <2> SUFFICES ASSUME NEW what, NEW k
               PROVE  Called(t, what, k) <=> Called(s, what, k) \/ (x[1] = what /\ x[2] = k)
    OBVIOUS
  <2>1. \A i \in DOMAIN t : i \in DOMAIN s \/ i = n + 1
    BY <1>1
  <2>2. DOMAIN s \subseteq DOMAIN t /\ n + 1 \in DOMAIN t
    BY <1>1
  <2> QED
    BY <1>1, <2>1, <2>2 DEF Called
<1>3. \A h : About(s, h) \subseteq 1..n /\ About(s, h) \subseteq About(t, h)
  <2>1. \A h : About(s, h) \subseteq 1..n
    BY <1>1 DEF About
  <2> QED
    BY <1>1, <2>1
<1>4. ASSUME NEW h, OneWay(t, h)
      PROVE  /\ OneWay(s, h)
             /\ IsAbout(x, h) => \A i \in About(s, h) : s[i][2] = x[2] /\ {s[i][1], x[1]} # {"header", "cookie"}
  <2>1. \A i, j \in About(t, h) : t[i][2] = t[j][2] /\ {t[i][1], t[j][1]} # {"header", "cookie"}
    BY <1>4 DEF OneWay
  <2>2. \A i \in About(s, h) : i \in About(t, h) /\ t[i] = s[i]
    BY <1>1, <1>3
  <2>3. IsAbout(x, h) => n + 1 \in About(t, h)
    BY <1>1
  <2>4. ASSUME NEW i \in About(s, h), NEW j \in About(s, h)
        PROVE  s[i][2] = s[j][2] /\ {s[i][1], s[j][1]} # {"header", "cookie"}
    <3>1. t[i][2] = t[j][2] /\ {t[i][1], t[j][1]} # {"header", "cookie"}
      BY <2>1, <2>2, Zenon
    <3> QED
      BY <2>2, <3>1
  <2>5. ASSUME IsAbout(x, h), NEW i \in About(s, h)
        PROVE  s[i][2] = x[2] /\ {s[i][1], x[1]} # {"header", "cookie"}
    <3>1. t[i][2] = t[n + 1][2] /\ {t[i][1], t[n + 1][1]} # {"header", "cookie"}
      BY <2>1, <2>2, <2>3, <2>5, Zenon
    <3>2. t[i] = s[i] /\ t[n + 1] = x
      BY <1>1, <2>2
    <3> QED
      BY <3>1, <3>2
  <2>6. OneWay(s, h)
    BY <2>4, Zenon DEF OneWay
  <2> QED
    BY <2>5, <2>6, Zenon
<1>5. ASSUME NEW h, NEW what \in Kinds, NEW k, canonical(k) = h, Called(s, what, k)
      PROVE  \E i \in About(s, h) : s[i][1] = what /\ s[i][2] = k
  <2>1. PICK i \in DOMAIN s : s[i][1] = what /\ s[i][2] = k
    BY <1>5 DEF Called
  <2>2. i \in About(s, h)
    BY <1>5, <2>1, Zenon DEF About, Kinds
  <2> QED
    BY <2>1, <2>2
<1>6. ASSUME NEW h, OneWay(t, h), IsAbout(x, h), NEW what \in Kinds, NEW k,
             canonical(k) = h, Called(s, what, k)
      PROVE  k = x[2] /\ {what, x[1]} # {"header", "cookie"}
  BY <1>4, <1>5, <1>6
<1> QED
  BY <1>2, <1>4, <1>6 DEF t, OneCalled

LEMMA FirstFacts ==
    ASSUME routes \in Seq(Entries), NEW q
    PROVE  /\ First(q) = Server \/ (First(q) \in 1..Len(routes) /\ ~routes[First(q)].use)
           /\ Before(q) \in 0..Len(routes)
           /\ \A i \in 1..Len(routes) : First(q) = Server \/ i < First(q) => i <= Before(q)
           /\ First(q) # Server => Before(q) = First(q)
<1>1. Matching(q) \in SUBSET (1..Len(routes)) /\ Len(routes) \in Nat
  BY DEF Matching
<1>2. IsFiniteSet(1..Len(routes))
  BY <1>1, FS_Interval
<1>3. Matching(q) \in SUBSET Int /\ IsFiniteSet(Matching(q))
  BY <1>1, <1>2, FS_Subset
<1>4. CASE Matching(q) = {}
  BY <1>1, <1>4 DEF First, Before
<1>5. CASE Matching(q) # {}
  <2>1. First(q) \in Matching(q)
    BY <1>3, <1>5, LeastOf, Zenon DEF First
  <2>2. First(q) \in 1..Len(routes) /\ ~routes[First(q)].use
    BY <1>1, <2>1 DEF Matching, Handles
  <2>3. First(q) # Server
    BY <2>2 DEF Server
  <2> QED
    BY <1>1, <2>2, <2>3 DEF Before
<1> QED
  BY <1>4, <1>5

(* The chain of a request: the functions of use before its route, in their  *)
(* order.                                                                   *)
LEMMA ChainFacts ==
    ASSUME routes \in Seq(Entries), NEW q
    PROVE  /\ Chain(q) \in Seq(Nat)
           /\ \A i, j \in DOMAIN Chain(q) : i < j => Chain(q)[i] < Chain(q)[j]
           /\ First(q) # Server => \A j \in DOMAIN Chain(q) : Chain(q)[j] < First(q)
           /\ \A i \in 1..Len(routes) :
                 Guards(routes[i], q) /\ (First(q) = Server \/ i < First(q)) => i \in Range(Chain(q))
<1> DEFINE G == {i \in 1..Before(q) : Guards(routes[i], q)}
           n == Cardinality(G)
<1>1. /\ First(q) = Server \/ (First(q) \in 1..Len(routes) /\ ~routes[First(q)].use)
      /\ Before(q) \in 0..Len(routes)
      /\ \A i \in 1..Len(routes) : First(q) = Server \/ i < First(q) => i <= Before(q)
      /\ First(q) # Server => Before(q) = First(q)
  BY FirstFacts
<1>2. G \in SUBSET (1..Before(q)) /\ IsFiniteSet(1..Before(q))
  BY <1>1, FS_Interval
<1>3. G \in SUBSET Int /\ IsFiniteSet(G)
  <2> HIDE DEF G
  <2>1. G \in SUBSET Int
    BY <1>1, <1>2
  <2>2. IsFiniteSet(G)
    BY <1>2, FS_Subset
  <2> QED
    BY <2>1, <2>2
<1>4. /\ n \in Nat /\ Ascending(G) \in [1..n -> G]
      /\ \A i, j \in 1..n : i < j => Ascending(G)[i] < Ascending(G)[j]
      /\ \A x \in G : \E k \in 1..n : Ascending(G)[k] = x
  BY <1>3, AscendingFacts
<1>5. Chain(q) = Ascending(G)
  BY DEF Chain
<1> DEFINE c == Chain(q)
<1>6. \A i \in G : i \in Nat /\ Guards(routes[i], q) /\ i \in 1..Before(q)
  BY <1>1
<1> HIDE DEF G, n, c
<1>7. c \in [1..n -> G] /\ n \in Nat
  BY <1>4, <1>5 DEF c
<1>8. \A i \in 1..n : c[i] \in Nat
  BY <1>6, <1>7
<1>9. c \in Seq(Nat) /\ DOMAIN c = 1..n
  <2>1. c = [i \in 1..n |-> c[i]]
    BY <1>7
  <2> QED
    BY <1>7, <1>8, <2>1, IsASeq
<1>10. \A i, j \in DOMAIN c : i < j => c[i] < c[j]
  BY <1>4, <1>5, <1>9 DEF c
<1>11. ASSUME First(q) # Server, NEW j \in DOMAIN c PROVE c[j] < First(q)
  <2>1. c[j] \in G
    BY <1>7, <1>9
  <2>2. c[j] \in 1..Before(q) /\ Guards(routes[c[j]], q)
    BY <1>6, <2>1
  <2>3. c[j] # First(q)
    BY <1>1, <1>11, <2>2 DEF Guards
  <2> QED
    BY <1>1, <1>11, <2>2, <2>3
<1>12. ASSUME NEW i \in 1..Len(routes), Guards(routes[i], q), First(q) = Server \/ i < First(q)
       PROVE  i \in Range(c)
  <2>1. i \in G
    BY <1>1, <1>12 DEF G
  <2>2. \E k \in 1..n : c[k] = i
    BY <1>4, <1>5, <2>1 DEF c
  <2> QED
    BY <1>9, <2>2 DEF Range
<1> QED
  BY <1>9, <1>10, <1>11, <1>12 DEF c

(* A step of one request.                                                   *)
LEMMA RequestsStep ==
    ASSUME HttpInv, RequestsInv, NEW r \in Requests, NEW p, req' = [req EXCEPT ![r] = p],
           UNCHANGED routes, Carried(p), Guarded(p, routes)
    PROVE  RequestsInv'
<1>1. req'[r] = p /\ \A s \in Requests : s # r => req'[s] = req[s]
  BY DEF HttpInv
<1>2. \A s \in Requests : Carried(req'[s]) /\ Guarded(req'[s], routes)
  BY <1>1 DEF RequestsInv
<1>3. \A s \in Requests : (Carried(req[s]))' <=> Carried(req'[s])
  BY DEF Carried, AnswersCarry
<1>4. \A s \in Requests : (Guarded(req[s], routes))' <=> Guarded(req'[s], routes')
  BY Zenon DEF Guarded, Chained, DueRan, Due, Rising, Guards, matchPrefix
<1> QED
  BY <1>2, <1>3, <1>4 DEF RequestsInv

(* What a step leaves of a request is enough for what it leaves alone.      *)
SameFunctions(p, q) ==
    /\ p.path = q.path /\ p.chain = q.chain /\ p.handler = q.handler /\ p.ran = q.ran
    /\ p.known = q.known
SameAnswers(p, q) ==
    /\ p.asked = q.asked /\ p.answers = q.answers /\ p.status = q.status /\ p.sent = q.sent
    /\ p.headers = q.headers /\ p.pending = q.pending

LEMMA SameKept ==
    ASSUME NEW p, NEW q
    PROVE  /\ SameAnswers(p, q) /\ Carried(q) => Carried(p)
           /\ /\ SameFunctions(p, q) /\ Guarded(q, routes)
              /\ p.phase = q.phase \/ p.phase \in {"replies", "done"}
                 \/ (p.phase = "chain" /\ q.phase = "middleware")
              => Guarded(p, routes)
<1>1. ASSUME SameAnswers(p, q), Carried(q) PROVE Carried(p)
  <2>1. HeadersKept(q) => HeadersKept(p)
    BY <1>1 DEF SameAnswers, HeadersKept, ValueKept
  <2>2. AnswersCarry(q) => AnswersCarry(p)
    BY <1>1 DEF SameAnswers, AnswersCarry
  <2> QED
    BY <1>1, <2>1, <2>2 DEF SameAnswers, Carried
<1>2. ASSUME SameFunctions(p, q), Guarded(q, routes),
             p.phase = q.phase \/ p.phase \in {"replies", "done"}
                 \/ (p.phase = "chain" /\ q.phase = "middleware")
      PROVE  Guarded(p, routes)
  <2>1. \A i : Due(p, i, routes) <=> Due(q, i, routes)
    <3>1. \A e : Guards(e, p) <=> Guards(e, q)
      BY <1>2, Zenon DEF Guards, SameFunctions
    <3>2. p.handler = q.handler
      BY <1>2, Zenon DEF SameFunctions
    <3> QED
      BY <3>1, <3>2, Zenon DEF Due
  <2>2. /\ p.chain = q.chain /\ p.handler = q.handler /\ p.ran = q.ran /\ p.known = q.known
    BY <1>2, Zenon DEF SameFunctions
  <2>3. Chained(p, routes) <=> Chained(q, routes)
    BY <2>1, <2>2, Zenon DEF Chained
  <2>4. DueRan(p, routes) <=> DueRan(q, routes)
    BY <2>1, <2>2, Zenon DEF DueRan
  <2>5. p.phase \in {"none", "arrives"} => q.phase = p.phase
    BY <1>2
  <2>6. p.phase \in {"chain", "middleware"} => q.phase \in {"chain", "middleware"}
    BY <1>2
  <2>7. p.phase = "handler" => q.phase = "handler"
    BY <1>2
  <2> HIDE DEF SameFunctions
  <2>8. Guarded(q, routes)
    BY <1>2
  <2> QED
    BY <2>2, <2>3, <2>4, <2>5, <2>6, <2>7, <2>8 DEF Guarded
<1> QED
  BY <1>1, <1>2

(* The first of a sequence and the rest.                                    *)
LEMMA HeadAndRest ==
    ASSUME NEW S, NEW s \in Seq(S), s # <<>>
    PROVE  /\ Head(s) \in S /\ Head(s) = s[1] /\ 1 \in DOMAIN s
           /\ Tail(s) \in Seq(S)
           /\ \A j \in DOMAIN Tail(s) : j \in Nat /\ j + 1 \in DOMAIN s /\ Tail(s)[j] = s[j + 1]
           /\ \A x \in Range(s) : x = Head(s) \/ x \in Range(Tail(s))
<1>1. /\ Len(s) \in Nat \ {0} /\ DOMAIN s = 1..Len(s) /\ Head(s) = s[1]
      /\ Tail(s) \in Seq(S) /\ Len(Tail(s)) = Len(s) - 1
      /\ \A j \in 1..Len(Tail(s)) : Tail(s)[j] = s[j + 1]
  BY EmptySeq, HeadTailProperties
<1>2. DOMAIN Tail(s) = 1..Len(Tail(s))
  BY <1>1
<1>3. 1 \in DOMAIN s /\ Head(s) \in S
  BY <1>1
<1>4. ASSUME NEW x \in Range(s) PROVE x = Head(s) \/ x \in Range(Tail(s))
  <2>1. PICK k \in 1..Len(s) : s[k] = x
    BY <1>1, <1>4 DEF Range
  <2>2. CASE k = 1
    BY <1>1, <2>1, <2>2
  <2>3. CASE k # 1
    <3>1. k - 1 \in 1..Len(Tail(s)) /\ (k - 1) + 1 = k
      BY <1>1, <2>3
    <3>2. Tail(s)[k - 1] = x
      BY <1>1, <2>1, <3>1
    <3> QED
      BY <1>2, <3>1, <3>2 DEF Range
  <2> QED
    BY <2>2, <2>3
<1> QED
  BY <1>1, <1>2, <1>3, <1>4

(* One more function has run: it comes after those that did.                *)
LEMMA OneMoreRan ==
    ASSUME NEW ran \in Seq(Nat), Rising(ran), NEW h \in Nat,
           h = Default \/ \A i \in DOMAIN ran : ran[i] < h
    PROVE  /\ Append(ran, h) \in Seq(Nat) /\ Rising(Append(ran, h))
           /\ Range(ran) \subseteq Range(Append(ran, h)) /\ h \in Range(Append(ran, h))
           /\ \A i \in DOMAIN Append(ran, h) :
                 (i \in DOMAIN ran /\ Append(ran, h)[i] = ran[i]) \/ Append(ran, h)[i] = h
<1> DEFINE t == Append(ran, h)
           n == Len(ran)
<1>1. /\ t \in Seq(Nat) /\ n \in Nat /\ Len(t) = n + 1
      /\ t[n + 1] = h /\ \A i \in 1..n : t[i] = ran[i]
  BY AppendFacts
<1> HIDE DEF t
<1>2. DOMAIN ran = 1..n /\ DOMAIN t = 1..n + 1
  BY <1>1
<1>3. \A i \in DOMAIN t : i \in DOMAIN ran \/ i = n + 1
  BY <1>1, <1>2
<1>4. Rising(t)
  <2> SUFFICES ASSUME NEW i \in DOMAIN t, NEW j \in DOMAIN t, i < j, t[j] # Default PROVE t[i] < t[j]
    BY DEF Rising
  <2>1. CASE j \in DOMAIN ran
    <3>1. i \in DOMAIN ran
      BY <1>2, <2>1
    <3> QED
      BY <1>1, <1>2, <2>1, <3>1 DEF Rising
  <2>2. CASE j = n + 1
    <3>1. i \in DOMAIN ran
      BY <1>1, <1>2, <2>2
    <3> QED
      BY <1>1, <1>2, <2>2, <3>1
  <2> QED
    BY <1>3, <2>1, <2>2
<1>5. ASSUME NEW x \in Range(ran) PROVE x \in Range(t)
  <2>1. PICK i \in 1..n : ran[i] = x
    BY <1>2 DEF Range
  <2>2. i \in DOMAIN t /\ t[i] = x
    BY <1>1, <1>2, <2>1
  <2> QED
    BY <2>2 DEF Range
<1>6. h \in Range(t)
  BY <1>1, <1>2 DEF Range
<1>7. \A i \in DOMAIN t : (i \in DOMAIN ran /\ t[i] = ran[i]) \/ t[i] = h
  BY <1>1, <1>2, <1>3
<1> QED
  BY <1>1, <1>4, <1>5, <1>6, <1>7 DEF t

(* The first of the chain runs, or is passed by when it is a directory.     *)
LEMMA ChainMoves ==
    ASSUME routes \in Seq(Entries), NEW q, NEW p, Guarded(q, routes), q.phase = "chain", q.chain # <<>>,
           p.path = q.path, p.handler = q.handler, p.known = q.known, p.chain = Tail(q.chain),
           p.phase \in {"chain", "middleware"},
           \/ p.ran = Append(q.ran, Head(q.chain))
           \/ p.ran = q.ran /\ routes[Head(q.chain)].calls # "function"
    PROVE  Guarded(p, routes)
<1> DEFINE h == Head(q.chain)
<1>1. /\ q.ran \in Seq(Nat) /\ q.chain \in Seq(Nat) /\ q.known \in 0..Len(routes)
      /\ q.handler \in Nat \cup {Server} /\ Rising(q.ran) /\ Chained(q, routes)
  BY DEF Guarded
<1>2. /\ h \in Nat /\ h = q.chain[1] /\ 1 \in DOMAIN q.chain
      /\ p.chain \in Seq(Nat)
      /\ \A j \in DOMAIN p.chain : j \in Nat /\ j + 1 \in DOMAIN q.chain /\ p.chain[j] = q.chain[j + 1]
      /\ \A x \in Range(q.chain) : x = h \/ x \in Range(p.chain)
  BY <1>1, HeadAndRest
<1>3. /\ \A i, j \in DOMAIN q.chain : i < j => q.chain[i] < q.chain[j]
      /\ \A i \in DOMAIN q.ran, j \in DOMAIN q.chain : q.ran[i] < q.chain[j]
      /\ q.handler # Server => \A i \in DOMAIN q.ran : q.ran[i] < q.handler
      /\ q.handler # Server => \A j \in DOMAIN q.chain : q.chain[j] < q.handler
      /\ \A i \in 1..q.known : Due(q, i, routes) => i \in Range(q.ran) \cup Range(q.chain)
  BY <1>1 DEF Chained
<1>4. \A i : Due(p, i, routes) <=> Due(q, i, routes)
  <2>1. \A e : Guards(e, p) <=> Guards(e, q)
    BY Zenon DEF Guards
  <2> QED
    BY <2>1, Zenon DEF Due
<1> HIDE DEF h
<1>5. /\ p.ran \in Seq(Nat) /\ Rising(p.ran) /\ Range(q.ran) \subseteq Range(p.ran)
      /\ \A i \in DOMAIN p.ran : (i \in DOMAIN q.ran /\ p.ran[i] = q.ran[i]) \/ p.ran[i] = h
      /\ h \in Range(p.ran) \/ routes[h].calls # "function"
  <2>1. CASE p.ran = Append(q.ran, h)
    <3>1. \A i \in DOMAIN q.ran : q.ran[i] < h
      BY <1>2, <1>3
    <3>2. q.ran \in Seq(Nat) /\ Rising(q.ran) /\ h \in Nat
      BY <1>1, <1>2
    <3>3. /\ Append(q.ran, h) \in Seq(Nat) /\ Rising(Append(q.ran, h))
          /\ Range(q.ran) \subseteq Range(Append(q.ran, h)) /\ h \in Range(Append(q.ran, h))
          /\ \A i \in DOMAIN Append(q.ran, h) :
                (i \in DOMAIN q.ran /\ Append(q.ran, h)[i] = q.ran[i]) \/ Append(q.ran, h)[i] = h
      BY <3>1, <3>2, OneMoreRan
    <3> QED
      BY <2>1, <3>3, Zenon
  <2>2. CASE p.ran = q.ran /\ routes[h].calls # "function"
    BY <1>1, <2>2
  <2> QED
    BY <2>1, <2>2 DEF h
<1>6. \A j \in DOMAIN p.chain : h < p.chain[j]
  <2> SUFFICES ASSUME NEW j \in DOMAIN p.chain PROVE h < p.chain[j]
    OBVIOUS
  <2>1. j \in Nat /\ j + 1 \in DOMAIN q.chain /\ p.chain[j] = q.chain[j + 1] /\ j # 0
    BY <1>2
  <2>2. 1 < j + 1
    BY <2>1
  <2>3. q.chain[1] < q.chain[j + 1]
    BY <1>2, <1>3, <2>1, <2>2
  <2> QED
    BY <1>2, <2>1, <2>3
<1>7. Chained(p, routes)
  <2>1. ASSUME NEW i \in DOMAIN p.chain, NEW j \in DOMAIN p.chain, i < j PROVE p.chain[i] < p.chain[j]
    <3>1. /\ i \in Nat /\ i + 1 \in DOMAIN q.chain /\ p.chain[i] = q.chain[i + 1]
          /\ j \in Nat /\ j + 1 \in DOMAIN q.chain /\ p.chain[j] = q.chain[j + 1]
      BY <1>2
    <3>2. i + 1 < j + 1
      BY <2>1, <3>1
    <3> QED
      BY <1>3, <3>1, <3>2
  <2>2. \A i \in DOMAIN p.ran, j \in DOMAIN p.chain : p.ran[i] < p.chain[j]
    <3> SUFFICES ASSUME NEW i \in DOMAIN p.ran, NEW j \in DOMAIN p.chain PROVE p.ran[i] < p.chain[j]
      OBVIOUS
    <3>1. j + 1 \in DOMAIN q.chain /\ p.chain[j] = q.chain[j + 1]
      BY <1>2
    <3> QED
      BY <1>3, <1>5, <1>6, <3>1
  <2>3. p.handler # Server => \A i \in DOMAIN p.ran : p.ran[i] < p.handler
    BY <1>2, <1>3, <1>5
  <2>4. ASSUME p.handler # Server, NEW j \in DOMAIN p.chain PROVE p.chain[j] < p.handler
    <3>1. j + 1 \in DOMAIN q.chain /\ p.chain[j] = q.chain[j + 1]
      BY <1>2
    <3> QED
      BY <1>3, <2>4, <3>1
  <2>5. ASSUME NEW i \in 1..p.known, Due(p, i, routes) PROVE i \in Range(p.ran) \cup Range(p.chain)
    <3>1. Due(q, i, routes) /\ i \in 1..q.known
      BY <1>4, <2>5
    <3>2. i \in Range(q.ran) \/ i \in Range(q.chain)
      BY <1>3, <3>1
    <3>3. routes[i].calls = "function"
      BY <3>1, Zenon DEF Due
    <3> QED
      BY <1>2, <1>5, <3>2, <3>3
  <2> QED
    BY <2>1, <2>2, <2>3, <2>4, <2>5 DEF Chained
<1> QED
  BY <1>1, <1>2, <1>5, <1>7 DEF Guarded

(* The chain is through: the handler of the route runs, or that of the      *)
(* server.                                                                  *)
LEMMA HandlerRuns ==
    ASSUME NEW q, NEW p, Guarded(q, routes), q.phase = "chain", q.chain = <<>>,
           p.path = q.path, p.handler = q.handler, p.known = q.known, p.chain = q.chain,
           p.phase = "handler",
           \E i : p.ran = Append(q.ran, i) /\ (i = Default \/ (i # Server /\ i = q.handler))
    PROVE  Guarded(p, routes)
<1>1. /\ q.ran \in Seq(Nat) /\ q.chain \in Seq(Nat) /\ q.known \in 0..Len(routes)
      /\ q.handler \in Nat \cup {Server} /\ Rising(q.ran)
      /\ q.handler # Server => \A i \in DOMAIN q.ran : q.ran[i] < q.handler
      /\ \A i \in 1..q.known : Due(q, i, routes) => i \in Range(q.ran) \cup Range(q.chain)
  BY DEF Guarded, Chained
<1>2. PICK h : p.ran = Append(q.ran, h) /\ (h = Default \/ (h # Server /\ h = q.handler))
  OBVIOUS
<1>3. h \in Nat /\ (h = Default \/ \A i \in DOMAIN q.ran : q.ran[i] < h)
  BY <1>1, <1>2 DEF Default
<1>4. p.ran \in Seq(Nat) /\ Rising(p.ran) /\ Range(q.ran) \subseteq Range(p.ran)
  BY <1>1, <1>2, <1>3, OneMoreRan
<1>5. Range(q.chain) = {}
  BY DEF Range
<1>6. \A i : Due(p, i, routes) <=> Due(q, i, routes)
  <2>1. \A e : Guards(e, p) <=> Guards(e, q)
    BY Zenon DEF Guards
  <2> QED
    BY <2>1, Zenon DEF Due
<1>7. DueRan(p, routes)
  BY <1>1, <1>4, <1>5, <1>6 DEF DueRan
<1> QED
  BY <1>1, <1>4, <1>7 DEF Guarded

(* An answer that no function gave changes nothing of what is due.          *)
LEMMA AnswerAdded ==
    ASSUME NEW q, NEW p, NEW a, Carried(q), ~q.sent, a.by \in {Static, Server},
           p.asked = q.asked, p.answers = Append(q.answers, a), p.status = q.status,
           p.sent = q.sent, p.headers = q.headers, p.pending = q.pending
    PROVE  Carried(p)
<1>1. PICK S : q.answers \in Seq(S)
  BY DEF Carried
<1> DEFINE T == S \cup {a}
           n == Len(q.answers)
<1>2. q.answers \in Seq(T) /\ a \in T
  BY <1>1
<1> HIDE DEF T
<1>3. /\ p.answers \in Seq(T) /\ n \in Nat /\ Len(p.answers) = n + 1
      /\ p.answers[n + 1] = a /\ \A i \in 1..n : p.answers[i] = q.answers[i]
  BY <1>2, AppendFacts
<1>4. DOMAIN q.answers = 1..n /\ DOMAIN p.answers = 1..n + 1
  BY <1>2, <1>3
<1>5. \A i \in DOMAIN q.answers : q.answers[i].by \in {Static, Server}
  BY DEF Carried
<1>6. \A i \in DOMAIN p.answers : p.answers[i].by \in {Static, Server}
  BY <1>3, <1>4, <1>5
<1>7. HeadersKept(q) => HeadersKept(p)
  BY DEF HeadersKept, ValueKept
<1> QED
  BY <1>3, <1>6, <1>7 DEF Carried

(* What res and w hold after one more call.                                 *)
Takes(q, p, x) ==
    \/ x[1] \notin Kinds /\ p.pending = q.pending /\ p.headers = q.headers
    \/ x[1] = "header" /\ p.pending = [q.pending EXCEPT ![x[2]] = Len(q.asked) + 1] /\ p.headers = q.headers
    \/ /\ x = <<"cookie", "Set-Cookie">> /\ p.pending = q.pending
       /\ p.headers = [q.headers EXCEPT !["Set-Cookie"] = Len(q.asked) + 1]
    \/ /\ x[1] = "none" /\ p.pending = [q.pending EXCEPT ![x[2]] = None]
       /\ p.headers = [q.headers EXCEPT ![canonical(x[2])] = None]

LEMMA Spelled ==
    /\ \A k \in Spellings : canonical(k) \in Headers
    /\ \A h \in Headers : h \in Spellings /\ canonical(h) = h
  BY DEF Spellings, Headers, canonical

LEMMA KeptMore ==
    ASSUME NEW q, NEW p, NEW x \in Asking, q.asked \in Seq(Asking), HeadersKept(q),
           p.asked = Append(q.asked, x), Takes(q, p, x), x[1] \in Kinds => x[2] \in Spellings
    PROVE  HeadersKept(p)
<1> DEFINE n == Len(q.asked)
<1> DEFINE qs == q.asked
<1>0. OneMore(qs, x, p.asked) /\ qs \in Seq(Asking)
  BY AskedMore
<1>1. /\ n \in Nat
      /\ \A h : IsAbout(x, h) => HeaderAsked(p.asked, h) = {Says(x, n + 1)}
      /\ \A h : ~IsAbout(x, h) => HeaderAsked(p.asked, h) = HeaderAsked(q.asked, h)
  BY <1>0 DEF OneMore
<1>2. /\ \A what, k : Called(p.asked, what, k) <=> Called(q.asked, what, k) \/ (x[1] = what /\ x[2] = k)
      /\ \A h : OneWay(p.asked, h) => OneWay(q.asked, h)
      /\ \A h : OneWay(p.asked, h) /\ IsAbout(x, h) =>
            \A what \in Kinds : \A k : canonical(k) = h /\ Called(q.asked, what, k) =>
               k = x[2] /\ {what, x[1]} # {"header", "cookie"}
  <2> HIDE DEF qs
  <2>1. OneCalled(qs, x, p.asked)
    <3>1. Append(qs, x) = p.asked
      BY DEF qs
    <3> QED
      BY <1>0, <3>1, CalledMore
  <2> QED
    BY <2>1 DEF OneCalled, qs
<1>3. /\ q.pending \in [Spellings -> Nat] /\ q.headers \in [Headers -> Nat]
      /\ \A k \in Spellings : q.pending[k] # None => Called(q.asked, "header", k)
      /\ \A h \in Headers : q.headers[h] # None => Called(q.asked, "cookie", h)
      /\ \A h \in Headers : OneWay(q.asked, h) => ValueKept(q, h)
  BY DEF HeadersKept
<1>4. n + 1 \in Nat /\ None \in Nat /\ n + 1 # None
  BY <1>1 DEF None
<1> HIDE DEF n
<1>5. ASSUME NEW h \in Headers, OneWay(p.asked, h), ~IsAbout(x, h),
             \A k \in Spellings : canonical(k) = h => p.pending[k] = q.pending[k],
             p.headers[h] = q.headers[h]
      PROVE  ValueKept(p, h)
  <2>1. ValueKept(q, h) /\ HeaderAsked(p.asked, h) = HeaderAsked(q.asked, h)
    BY <1>1, <1>2, <1>3, <1>5
  <2>2. \A k \in Spellings : canonical(k) = h => (Called(p.asked, "header", k) <=> Called(q.asked, "header", k))
    BY <1>2, <1>5 DEF IsAbout, Kinds
  <2> QED
    BY <1>5, <2>1, <2>2 DEF ValueKept
<1>6. CASE x[1] \notin Kinds
  <2>1. p.pending = q.pending /\ p.headers = q.headers /\ \A h : ~IsAbout(x, h)
    BY <1>6 DEF Takes, Kinds, IsAbout
  <2>2. \A h \in Headers : OneWay(p.asked, h) => ValueKept(p, h)
    BY <1>5, <2>1
  <2> QED
    BY <1>2, <1>3, <2>1, <2>2 DEF HeadersKept
<1>7. CASE x[1] = "header"
  <2> DEFINE k0 == x[2]
  <2>1. k0 \in Spellings /\ p.pending = [q.pending EXCEPT ![k0] = n + 1] /\ p.headers = q.headers
    BY <1>7 DEF Takes, Kinds, n
  <2>2. /\ p.pending \in [Spellings -> Nat] /\ p.pending[k0] = n + 1
        /\ \A k \in Spellings : k # k0 => p.pending[k] = q.pending[k]
    BY <1>3, <1>4, <2>1
  <2>3. \A k \in Spellings : p.pending[k] # None => Called(p.asked, "header", k)
    BY <1>2, <1>3, <1>7, <2>2
  <2>4. \A h \in Headers : p.headers[h] # None => Called(p.asked, "cookie", h)
    BY <1>2, <1>3, <2>1
  <2>5. ASSUME NEW h \in Headers, OneWay(p.asked, h) PROVE ValueKept(p, h)
    <3>1. CASE canonical(k0) = h
      <4>1. IsAbout(x, h) /\ HeaderAsked(p.asked, h) = {n + 1}
        BY <1>1, <1>7, <3>1 DEF IsAbout, Kinds, Says
      <4>2. \A k \in Spellings : canonical(k) = h /\ Called(p.asked, "header", k) => k = k0
        BY <1>2, <2>5, <4>1 DEF Kinds
      <4>3. Called(p.asked, "header", k0)
        BY <1>2, <1>7
      <4> QED
        BY <2>1, <2>2, <3>1, <4>1, <4>2, <4>3 DEF ValueKept
    <3>2. CASE canonical(k0) # h
      <4>1. ~IsAbout(x, h)
        BY <3>2 DEF IsAbout
      <4>2. \A k \in Spellings : canonical(k) = h => p.pending[k] = q.pending[k]
        BY <2>2, <3>2
      <4> QED
        BY <1>5, <2>1, <2>5, <4>1, <4>2
    <3> QED
      BY <3>1, <3>2
  <2> HIDE DEF k0
  <2> QED
    BY <1>3, <2>1, <2>2, <2>3, <2>4, <2>5 DEF HeadersKept
<1>8. CASE x = <<"cookie", "Set-Cookie">>
  <2>1. x[1] = "cookie" /\ x[2] = "Set-Cookie" /\ canonical(x[2]) = "Set-Cookie" /\ "Set-Cookie" \in Headers
    BY <1>8 DEF canonical, Headers
  <2>2. p.pending = q.pending /\ p.headers = [q.headers EXCEPT !["Set-Cookie"] = n + 1]
    BY <2>1 DEF Takes, Kinds, n
  <2>3. /\ p.headers \in [Headers -> Nat] /\ p.headers["Set-Cookie"] = n + 1
        /\ \A h \in Headers : h # "Set-Cookie" => p.headers[h] = q.headers[h]
    BY <1>3, <1>4, <2>1, <2>2
  <2>4. \A k \in Spellings : p.pending[k] # None => Called(p.asked, "header", k)
    BY <1>2, <1>3, <2>2
  <2>5. \A h \in Headers : p.headers[h] # None => Called(p.asked, "cookie", h)
    BY <1>2, <1>3, <2>1, <2>3
  <2>6. ASSUME NEW h \in Headers, OneWay(p.asked, h) PROVE ValueKept(p, h)
    <3>1. CASE h = "Set-Cookie"
      <4>1. IsAbout(x, h) /\ HeaderAsked(p.asked, h) = {n + 1}
        BY <1>1, <2>1, <3>1 DEF IsAbout, Kinds, Says
      <4>2. ASSUME NEW k \in Spellings, canonical(k) = h, Called(p.asked, "header", k) PROVE FALSE
        <5>1. Called(q.asked, "header", k)
          BY <1>2, <2>1, <4>2
        <5>2. {"header", x[1]} # {"header", "cookie"}
          BY <1>2, <2>6, <4>1, <4>2, <5>1 DEF Kinds
        <5> QED
          BY <2>1, <5>2
      <4> QED
        BY <2>3, <3>1, <4>1, <4>2 DEF ValueKept
    <3>2. CASE h # "Set-Cookie"
      <4>1. ~IsAbout(x, h)
        BY <2>1, <3>2 DEF IsAbout
      <4> QED
        BY <1>5, <2>2, <2>3, <2>6, <3>2, <4>1
    <3> QED
      BY <3>1, <3>2
  <2> QED
    BY <1>3, <2>2, <2>3, <2>4, <2>5, <2>6 DEF HeadersKept
<1>9. CASE x[1] = "none"
  <2> DEFINE k0 == x[2]
             h0 == canonical(k0)
  <2>1. /\ k0 \in Spellings /\ h0 \in Headers /\ p.pending = [q.pending EXCEPT ![k0] = None]
        /\ p.headers = [q.headers EXCEPT ![h0] = None]
    BY <1>9, Spelled DEF Takes, Kinds
  <2> HIDE DEF h0
  <2>2. /\ p.pending \in [Spellings -> Nat] /\ p.pending[k0] = None
        /\ \A k \in Spellings : k # k0 => p.pending[k] = q.pending[k]
    BY <1>3, <1>4, <2>1
  <2>3. /\ p.headers \in [Headers -> Nat] /\ p.headers[h0] = None
        /\ \A h \in Headers : h # h0 => p.headers[h] = q.headers[h]
    BY <1>3, <1>4, <2>1
  <2>4. \A k \in Spellings : p.pending[k] # None => Called(p.asked, "header", k)
    BY <1>2, <1>3, <2>2
  <2>5. \A h \in Headers : p.headers[h] # None => Called(p.asked, "cookie", h)
    BY <1>2, <1>3, <2>3
  <2>6. ASSUME NEW h \in Headers, OneWay(p.asked, h) PROVE ValueKept(p, h)
    <3>1. CASE h0 = h
      <4>1. IsAbout(x, h) /\ HeaderAsked(p.asked, h) = {None}
        BY <1>1, <1>9, <3>1 DEF IsAbout, Kinds, h0, Says
      <4>2. \A k \in Spellings : canonical(k) = h /\ Called(p.asked, "header", k) => k = k0
        BY <1>2, <1>9, <2>6, <4>1 DEF Kinds
      <4> QED
        BY <2>2, <2>3, <3>1, <4>1, <4>2 DEF ValueKept
    <3>2. CASE h0 # h
      <4>1. ~IsAbout(x, h)
        BY <3>2 DEF IsAbout, h0
      <4>2. \A k \in Spellings : canonical(k) = h => p.pending[k] = q.pending[k]
        BY <2>2, <3>2 DEF h0
      <4> QED
        BY <1>5, <2>3, <2>6, <3>2, <4>1, <4>2
    <3> QED
      BY <3>1, <3>2
  <2> HIDE DEF k0
  <2> QED
    BY <2>2, <2>3, <2>4, <2>5, <2>6 DEF HeadersKept
<1> QED
  BY <1>6, <1>7, <1>8, <1>9 DEF Takes

(* What w has when the pending headers have gone into it: of a header whose *)
(* calls were of one way, the value that was asked for.                     *)
Shows(q, w, h) == HeaderAsked(q.asked, h) = {w[h]}

LEMMA FlushKeeps ==
    ASSUME NEW q, q.asked \in Seq(Asking), HeadersKept(q), NEW w \in Flushes(q), NEW h \in Headers,
           OneWay(q.asked, h)
    PROVE  Shows(q, w, h)
<1>1. /\ \A k \in Spellings : q.pending[k] # None => Called(q.asked, "header", k)
      /\ q.headers[h] # None => Called(q.asked, "cookie", h)
      /\ ValueKept(q, h)
  BY DEF HeadersKept
<1>2. w[h] \in IF PendingOf(q, h) = {} THEN {q.headers[h]} ELSE PendingOf(q, h)
  BY DEF Flushes
<1>3. \A v \in PendingOf(q, h) : v # None /\ \E k \in Spellings : canonical(k) = h /\ v = q.pending[k]
  BY DEF PendingOf
<1>4. \A k \in Spellings : canonical(k) = h /\ q.pending[k] # None => q.pending[k] \in PendingOf(q, h)
  BY DEF PendingOf
<1>5. ASSUME NEW k \in Spellings, canonical(k) = h, Called(q.asked, "header", k)
      PROVE  HeaderAsked(q.asked, h) = {w[h]}
  <2>1. PICK i \in DOMAIN q.asked : q.asked[i][1] = "header" /\ q.asked[i][2] = k
    BY <1>5 DEF Called
  <2>2. i \in About(q.asked, h)
    BY <1>5, <2>1, Zenon DEF About
  <2>3. ASSUME NEW l \in Spellings, canonical(l) = h, Called(q.asked, "header", l) PROVE l = k
    <3>1. PICK j \in DOMAIN q.asked : q.asked[j][1] = "header" /\ q.asked[j][2] = l
      BY <2>3 DEF Called
    <3>2. j \in About(q.asked, h)
      BY <2>3, <3>1, Zenon DEF About
    <3> QED
      BY <2>1, <2>2, <3>1, <3>2 DEF OneWay
  <2>4. ASSUME Called(q.asked, "cookie", h) PROVE FALSE
    <3>1. PICK j \in DOMAIN q.asked : q.asked[j][1] = "cookie" /\ q.asked[j][2] = h
      BY <2>4 DEF Called
    <3>2. j \in About(q.asked, h)
      BY <3>1, Spelled, Zenon DEF About
    <3>3. {q.asked[i][1], q.asked[j][1]} # {"header", "cookie"}
      BY <2>2, <3>2 DEF OneWay
    <3> QED
      BY <2>1, <3>1, <3>3
  <2>5. HeaderAsked(q.asked, h) = {q.pending[k]}
    BY <1>1, <1>5 DEF ValueKept
  <2>6. \A v \in PendingOf(q, h) : v = q.pending[k]
    BY <1>1, <1>3, <2>3
  <2>7. CASE q.pending[k] = None
    <3>1. PendingOf(q, h) = {}
      BY <1>3, <2>6, <2>7
    <3> QED
      BY <1>1, <1>2, <2>4, <2>5, <2>7, <3>1
  <2>8. CASE q.pending[k] # None
    BY <1>2, <1>4, <1>5, <2>5, <2>6, <2>8
  <2> QED
    BY <2>7, <2>8
<1>6. CASE \A k \in Spellings : canonical(k) = h => ~Called(q.asked, "header", k)
  <2>1. PendingOf(q, h) = {}
    BY <1>1, <1>3, <1>6
  <2> QED
    BY <1>1, <1>2, <1>6, <2>1 DEF ValueKept, Shows
<1> QED
  BY <1>5, <1>6 DEF Shows

(* A call on res before an answer.                                          *)
LEMMA AsksMore ==
    ASSUME NEW q, NEW p, NEW x \in Asking, Carried(q), ~q.sent,
           p.asked = Append(q.asked, x), p.answers = q.answers, p.sent = q.sent, p.status \in Nat,
           Takes(q, p, x), x[1] \in Kinds => x[2] \in Spellings,
           IF x[1] = "status" THEN p.status = x[2] /\ p.status # 0 ELSE p.status = q.status
    PROVE  Carried(p)
<1>1. /\ q.asked \in Seq(Asking) /\ \E S : q.answers \in Seq(S)
      /\ \A i \in DOMAIN q.answers : q.answers[i].by \in {Static, Server}
      /\ HeadersKept(q)
      /\ StatusAsked(q.asked) = IF q.status = 0 THEN {} ELSE {q.status}
  BY DEF Carried
<1>2. /\ p.asked \in Seq(Asking)
      /\ StatusAsked(p.asked) = IF x[1] = "status" THEN {x[2]} ELSE StatusAsked(q.asked)
  <2>1. OneMore(q.asked, x, p.asked)
    BY <1>1, AskedMore
  <2> QED
    BY <2>1 DEF OneMore
<1>3. HeadersKept(p)
  BY <1>1, KeptMore
<1>4. StatusAsked(p.asked) = IF p.status = 0 THEN {} ELSE {p.status}
  BY <1>1, <1>2
<1>5. \E S : p.answers \in Seq(S)
  BY <1>1
<1>6. \A i \in DOMAIN p.answers : p.answers[i].by \in {Static, Server}
  BY <1>1
<1>7. ~p.sent /\ p.sent \in BOOLEAN
  BY DEF Carried
<1> QED
  BY <1>2, <1>3, <1>4, <1>5, <1>6, <1>7 DEF Carried

(* An answer of a function carries what was asked for until then.           *)
LEMMA AnswerGiven ==
    ASSUME NEW q, NEW p, NEW a, NEW how \in Replies, NEW code \in Nat, Carried(q), ~q.sent,
           NEW w \in Flushes(q),
           p.asked = Append(q.asked, <<how, code>>), p.answers = Append(q.answers, a), p.sent = TRUE,
           p.status = q.status, a.headers = IF Sets(how, w) THEN Typed(w) ELSE w,
           a.status = Status(q, how, code)
    PROVE  Carried(p)
<1>1. /\ q.asked \in Seq(Asking) /\ q.status \in Nat
      /\ \A i \in DOMAIN q.answers : q.answers[i].by \in {Static, Server}
      /\ HeadersKept(q)
      /\ StatusAsked(q.asked) = IF q.status = 0 THEN {} ELSE {q.status}
  BY DEF Carried
<1> DEFINE x == <<how, code>>
<1>2. /\ x \in Asking /\ x[1] = how /\ how \notin Kinds \cup {"status"}
  BY DEF Asking, Replies, Kinds
<1>3. /\ p.asked \in Seq(Asking) /\ Last(p.asked) = x
      /\ \A h : HeaderAsked(p.asked, h) = HeaderAsked(q.asked, h)
      /\ \A h : OneWay(p.asked, h) => OneWay(q.asked, h)
      /\ StatusAsked(p.asked) = StatusAsked(q.asked)
  <2> HIDE DEF x
  <2>1. \A h : ~IsAbout(x, h)
    BY <1>2 DEF IsAbout
  <2> DEFINE qs == q.asked
  <2>2. qs \in Seq(Asking) /\ x \in Asking /\ p.asked = Append(qs, x)
    BY <1>1, <1>2 DEF x
  <2>3. OneMore(qs, x, p.asked)
    BY <2>2, AskedMore
  <2> HIDE DEF qs
  <2>4. OneCalled(qs, x, p.asked)
    BY <2>2, CalledMore
  <2> QED
    BY <1>2, <2>1, <2>2, <2>3, <2>4 DEF OneMore, OneCalled, qs
<1>4. PICK S : q.answers \in Seq(S)
  BY DEF Carried
<1> DEFINE T == S \cup {a}
           n == Len(q.answers)
<1>5. q.answers \in Seq(T) /\ a \in T
  BY <1>4
<1> HIDE DEF T
<1>6. /\ p.answers \in Seq(T) /\ n \in Nat /\ Len(p.answers) = n + 1
      /\ p.answers[n + 1] = a /\ \A i \in 1..n : p.answers[i] = q.answers[i]
  BY <1>5, AppendFacts
<1>7. DOMAIN q.answers = 1..n /\ DOMAIN p.answers = 1..n + 1
  BY <1>5, <1>6
<1>8. ASSUME x \in {<<"typed", 0>>, <<"end", 0>>}
      PROVE  a.status \in IF StatusAsked(p.asked) = {} THEN {200} ELSE StatusAsked(p.asked)
  <2>1. how \in {"typed", "end"} /\ code = 0
    BY <1>8
  <2>2. a.status = IF q.status > 0 THEN q.status ELSE 200
    BY <2>1 DEF Status
  <2> DEFINE asked == StatusAsked(p.asked)
  <2>3. asked = IF q.status = 0 THEN {} ELSE {q.status}
    BY <1>1, <1>3
  <2> HIDE DEF asked
  <2>4. CASE q.status = 0
    <3>1. asked = {} /\ a.status = 200
      BY <2>2, <2>3, <2>4
    <3> QED
      BY <3>1 DEF asked
  <2>5. CASE q.status # 0
    <3>1. asked # {} /\ a.status \in asked
      BY <1>1, <2>2, <2>3, <2>5
    <3> QED
      BY <3>1 DEF asked
  <2> QED
    BY <2>4, <2>5
<1>h. HeadersCarried(a, p.asked)
  <2> SUFFICES ASSUME NEW h \in Headers, OneWay(p.asked, h)
               PROVE  ValueCarried(a, p.asked, h)
    BY Zenon DEF HeadersCarried
  <2>1. HeaderAsked(p.asked, h) = {w[h]}
    <3>1. OneWay(q.asked, h) /\ HeaderAsked(p.asked, h) = HeaderAsked(q.asked, h)
      BY <1>3
    <3>2. q.asked \in Seq(Asking) /\ HeadersKept(q)
      BY <1>1
    <3>3. Shows(q, w, h)
      BY <3>1, <3>2, FlushKeeps
    <3> QED
      BY <3>1, <3>3 DEF Shows
  <2>2. Last(p.asked)[1] = how
    BY <1>3
  <2>3. DOMAIN w = Headers
    BY DEF Flushes
  <2>4. TypedBy(how, p.asked, h) <=> h = "Content-Type" /\ how # "end" /\ (how = "redirect" => w[h] = None)
    BY <2>1 DEF TypedBy
  <2>5. Sets(how, w) <=> how # "end" /\ (how = "redirect" => w["Content-Type"] = None)
    BY DEF Sets, Replies
  <2>6. Typed(w)["Content-Type"] = Own /\ (h # "Content-Type" => Typed(w)[h] = w[h])
    BY <2>3 DEF Typed, Headers
  <2>7. CASE TypedBy(how, p.asked, h)
    <3>1. a.headers[h] = Own
      BY <2>4, <2>5, <2>6, <2>7
    <3> QED
      BY <2>2, <2>7, <3>1 DEF ValueCarried
  <2>8. CASE ~TypedBy(how, p.asked, h)
    <3>1. a.headers[h] = w[h]
      BY <2>4, <2>5, <2>6, <2>8
    <3> QED
      BY <2>1, <2>2, <2>8, <3>1 DEF ValueCarried
  <2> QED
    BY <2>7, <2>8
<1>9. AnswersCarry(p)
  <2> SUFFICES ASSUME NEW i \in DOMAIN p.answers, p.answers[i].by \notin {Static, Server}
               PROVE  /\ HeadersCarried(p.answers[i], p.asked)
                      /\ Last(p.asked) \in {<<"typed", 0>>, <<"end", 0>>} =>
                            p.answers[i].status \in IF StatusAsked(p.asked) = {} THEN {200} ELSE StatusAsked(p.asked)
    BY DEF AnswersCarry
  <2>1. i = n + 1
    BY <1>1, <1>6, <1>7
  <2>2. p.answers[i] = a
    BY <1>6, <2>1
  <2> QED
    BY <1>3, <1>8, <1>h, <2>2
<1> QED
  BY <1>1, <1>3, <1>6, <1>9 DEF Carried

(* The calls of a function on res, and what ends it.                        *)
LEMMA CallsCarry ==
    ASSUME HttpInv, RequestsInv, NEW r \in Requests, Return(r) \/ Function(r) \/ sendLate(r)
    PROVE  RequestsInv'
<1> DEFINE q == req[r]
<1>0. DOMAIN q = Fields /\ Carried(q) /\ Guarded(q, routes)
  BY DEF HttpInv, RequestsInv
<1>1. ASSUME NEW code \in Nat \ {0}, setStatus(r, code) PROVE RequestsInv'
  <2> DEFINE x == <<"status", code>>
             p == [Asked(r, "status", code) EXCEPT !.status = code]
  <2>1. /\ req' = [req EXCEPT ![r] = p] /\ UNCHANGED routes /\ ~q.sent
    BY <1>1 DEF setStatus, Asks
  <2>2. /\ p.asked = Append(q.asked, x) /\ p.answers = q.answers /\ p.sent = q.sent
        /\ p.status = code /\ p.headers = q.headers /\ p.pending = q.pending
        /\ SameFunctions(p, q) /\ p.phase = q.phase
    BY <1>0 DEF Asked, Number, Fields, SameFunctions
  <2>3. x \in Asking /\ x[1] = "status" /\ x[2] = code /\ x[1] \notin Kinds
    BY DEF Asking, Kinds
  <2>4. q.status \in Nat
    BY <1>0 DEF Carried
  <2> HIDE DEF p
  <2>t. Takes(q, p, x)
    BY <2>2, <2>3 DEF Takes
  <2> HIDE DEF x
  <2>5. Carried(p)
    BY <1>0, <2>1, <2>2, <2>3, <2>4, <2>t, AsksMore
  <2>6. Guarded(p, routes)
    BY <1>0, <2>2, SameKept
  <2> QED
    BY <2>1, <2>5, <2>6, RequestsStep
<1>2. ASSUME NEW k \in Spellings, setHeader(r, k) PROVE RequestsInv'
  <2> DEFINE x == <<"header", k>>
             p == [Asked(r, "header", k) EXCEPT !.pending[k] = Number(r)]
  <2>1. /\ req' = [req EXCEPT ![r] = p] /\ UNCHANGED routes /\ ~q.sent
    BY <1>2 DEF setHeader, Asks
  <2>2. /\ p.asked = Append(q.asked, x) /\ p.answers = q.answers /\ p.sent = q.sent
        /\ p.status = q.status /\ p.headers = q.headers /\ p.pending = [q.pending EXCEPT ![k] = Len(q.asked) + 1]
        /\ SameFunctions(p, q) /\ p.phase = q.phase
    BY <1>0 DEF Asked, Number, Fields, SameFunctions
  <2>3. x \in Asking /\ x[1] = "header" /\ x[2] = k
    BY DEF Asking, Kinds
  <2>4. q.status \in Nat
    BY <1>0 DEF Carried
  <2> HIDE DEF p
  <2>t. Takes(q, p, x)
    BY <2>2, <2>3 DEF Takes
  <2> HIDE DEF x
  <2>5. Carried(p)
    BY <1>0, <2>1, <2>2, <2>3, <2>4, <2>t, AsksMore
  <2>6. Guarded(p, routes)
    BY <1>0, <2>2, SameKept
  <2> QED
    BY <2>1, <2>5, <2>6, RequestsStep
<1>3. CASE cookie(r)
  <2> DEFINE x == <<"cookie", "Set-Cookie">>
             p == [Asked(r, "cookie", "Set-Cookie") EXCEPT !.headers["Set-Cookie"] = Number(r)]
  <2>1. /\ req' = [req EXCEPT ![r] = p] /\ UNCHANGED routes /\ ~q.sent
    BY <1>3 DEF cookie, Asks
  <2>2. /\ p.asked = Append(q.asked, x) /\ p.answers = q.answers /\ p.sent = q.sent
        /\ p.status = q.status /\ p.pending = q.pending
        /\ p.headers = [q.headers EXCEPT !["Set-Cookie"] = Len(q.asked) + 1]
        /\ SameFunctions(p, q) /\ p.phase = q.phase
    BY <1>0 DEF Asked, Number, Fields, SameFunctions
  <2>3. x \in Asking /\ x[1] = "cookie" /\ x[2] = "Set-Cookie" /\ x[2] \in Spellings
    BY DEF Asking, Kinds, Spellings, Headers
  <2>4. q.status \in Nat
    BY <1>0 DEF Carried
  <2> HIDE DEF p
  <2>t. Takes(q, p, x)
    BY <2>2 DEF Takes
  <2> HIDE DEF x
  <2>5. Carried(p)
    BY <1>0, <2>1, <2>2, <2>3, <2>4, <2>t, AsksMore
  <2>6. Guarded(p, routes)
    BY <1>0, <2>2, SameKept
  <2> QED
    BY <2>1, <2>5, <2>6, RequestsStep
<1>4. ASSUME NEW k \in Spellings, removeHeader(r, k) PROVE RequestsInv'
  <2> DEFINE x == <<"none", k>>
             p == [Asked(r, "none", k) EXCEPT !.pending[k] = None, !.headers[canonical(k)] = None]
  <2>1. /\ req' = [req EXCEPT ![r] = p] /\ UNCHANGED routes /\ ~q.sent
    BY <1>4 DEF removeHeader, Asks
  <2>2. /\ p.asked = Append(q.asked, x) /\ p.answers = q.answers /\ p.sent = q.sent
        /\ p.status = q.status /\ p.pending = [q.pending EXCEPT ![k] = None]
        /\ p.headers = [q.headers EXCEPT ![canonical(k)] = None]
        /\ SameFunctions(p, q) /\ p.phase = q.phase
    BY <1>0 DEF Asked, Number, Fields, SameFunctions
  <2>3. x \in Asking /\ x[1] = "none" /\ x[2] = k
    BY DEF Asking, Kinds
  <2>4. q.status \in Nat
    BY <1>0 DEF Carried
  <2> HIDE DEF p
  <2>t. Takes(q, p, x)
    BY <2>2, <2>3 DEF Takes
  <2> HIDE DEF x
  <2>5. Carried(p)
    BY <1>0, <2>1, <2>2, <2>3, <2>4, <2>t, AsksMore
  <2>6. Guarded(p, routes)
    BY <1>0, <2>2, SameKept
  <2> QED
    BY <2>1, <2>5, <2>6, RequestsStep
<1>5. CASE Spawn(r)
  <2> DEFINE x == <<"spawn", 0>>
             p == [Asked(r, "spawn", 0) EXCEPT !.leaked = TRUE]
  <2>1. /\ req' = [req EXCEPT ![r] = p] /\ UNCHANGED routes /\ ~q.sent
    BY <1>5 DEF Spawn, Asks
  <2>2. /\ p.asked = Append(q.asked, x) /\ p.answers = q.answers /\ p.sent = q.sent
        /\ p.status = q.status /\ p.headers = q.headers /\ p.pending = q.pending
        /\ SameFunctions(p, q) /\ p.phase = q.phase
    BY <1>0 DEF Asked, Number, Fields, SameFunctions
  <2>3. x \in Asking /\ x[1] = "spawn" /\ x[2] = 0 /\ x[1] \notin Kinds
    BY DEF Asking, Kinds
  <2>4. q.status \in Nat
    BY <1>0 DEF Carried
  <2> HIDE DEF p
  <2>t. Takes(q, p, x)
    BY <2>2, <2>3 DEF Takes
  <2> HIDE DEF x
  <2>5. Carried(p)
    BY <1>0, <2>1, <2>2, <2>3, <2>4, <2>t, AsksMore
  <2>6. Guarded(p, routes)
    BY <1>0, <2>2, SameKept
  <2> QED
    BY <2>1, <2>5, <2>6, RequestsStep
<1>6. ASSUME NEW by, NEW how \in Replies, NEW code \in Nat, Sends(r, by, how, code), ~q.sent, UNCHANGED routes
      PROVE  RequestsInv'
  <2>w. PICK w \in Flushes(q) :
          LET written == IF Sets(how, w) THEN Typed(w) ELSE w
          IN  req' = [req EXCEPT ![r] = [Answer(r, by, Status(q, how, code), written) EXCEPT
                  !.sent = TRUE, !.headers = written, !.pending = NoRequest.pending,
                  !.asked = Append(@, <<how, code>>)]]
    BY <1>6 DEF Sends
  <2> DEFINE all == IF Sets(how, w) THEN Typed(w) ELSE w
             stat == Status(q, how, code)
             a == [by |-> by, status |-> stat, headers |-> all]
             p == [Answer(r, by, stat, all) EXCEPT !.sent = TRUE, !.headers = all,
                      !.pending = NoRequest.pending, !.asked = Append(@, <<how, code>>)]
  <2>1. req' = [req EXCEPT ![r] = p]
    BY <2>w
  <2>2. /\ p.asked = Append(q.asked, <<how, code>>) /\ p.answers = Append(q.answers, a)
        /\ p.sent = TRUE /\ p.status = q.status
        /\ SameFunctions(p, q) /\ p.phase = q.phase
    BY <1>0 DEF Answer, Fields, SameFunctions
  <2>3. a.headers = (IF Sets(how, w) THEN Typed(w) ELSE w) /\ a.status = Status(q, how, code)
    OBVIOUS
  <2> HIDE DEF p, a
  <2>4. Carried(p)
    BY <1>0, <1>6, <2>w, <2>2, <2>3, AnswerGiven
  <2>5. Guarded(p, routes)
    BY <1>0, <2>2, SameKept
  <2> QED
    BY <1>6, <2>1, <2>4, <2>5, RequestsStep
<1>7. CASE Return(r)
  <2>1. PICK value \in BOOLEAN :
          req' = [req EXCEPT ![r].value = value,
                             ![r].phase = IF q.phase = "handler" THEN "replies" ELSE "chain"]
    BY <1>7 DEF Return
  <2> DEFINE next == IF q.phase = "handler" THEN "replies" ELSE "chain"
             p == [q EXCEPT !.value = value, !.phase = next]
  <2>2. req' = [req EXCEPT ![r] = p]
    BY <2>1
  <2>3. p.phase = next /\ SameFunctions(p, q) /\ SameAnswers(p, q)
    BY <1>0 DEF Fields, SameFunctions, SameAnswers
  <2>4. UNCHANGED routes /\ (next = "replies" \/ (next = "chain" /\ q.phase = "middleware"))
    BY <1>7 DEF Return, Functions
  <2> HIDE DEF p, next
  <2>5. Carried(p) /\ Guarded(p, routes)
    BY <1>0, <2>3, <2>4, SameKept
  <2> QED
    BY <2>2, <2>4, <2>5, RequestsStep
<1>8. ASSUME NEW how \in Replies, NEW code \in Nat, send(r, how, code) PROVE RequestsInv'
  BY <1>6, <1>8 DEF send
<1>9. CASE sendLate(r)
  BY <1>6, <1>9 DEF sendLate, Replies
<1>10. CASE Function(r)
  <2>1. "typed" \in Replies /\ 400 \in Nat /\ 0 \in Nat /\ 201 \in Nat \ {0}
    BY DEF Replies
  <2> QED
    BY <1>1, <1>2, <1>3, <1>4, <1>5, <1>8, <1>10, <2>1 DEF Function
<1> QED
  BY <1>7, <1>9, <1>10

(* What the server does for a request.                                      *)
LEMMA HandlesCarry ==
    ASSUME HttpInv, RequestsInv, NEW r \in Requests, Handles_(r)
    PROVE  RequestsInv'
<1> DEFINE q == req[r]
<1>0. DOMAIN q = Fields /\ Carried(q) /\ Guarded(q, routes) /\ routes \in Seq(Entries)
  BY DEF HttpInv, RequestsInv
<1>1. CASE Route(r)
  <2> DEFINE p == [q EXCEPT !.phase = "chain", !.known = Len(routes), !.chain = Chain(q), !.handler = First(q)]
  <2>1. req' = [req EXCEPT ![r] = p] /\ UNCHANGED routes /\ q.phase = "arrives"
    BY <1>1 DEF Route
  <2>2. /\ p.phase = "chain" /\ p.known = Len(routes) /\ p.chain = Chain(q) /\ p.handler = First(q)
        /\ p.ran = q.ran /\ p.path = q.path /\ SameAnswers(p, q)
    BY <1>0 DEF Fields, SameAnswers
  <2> HIDE DEF p
  <2>3. /\ p.chain \in Seq(Nat)
        /\ \A i, j \in DOMAIN p.chain : i < j => p.chain[i] < p.chain[j]
        /\ p.handler # Server => \A j \in DOMAIN p.chain : p.chain[j] < p.handler
        /\ \A i \in 1..Len(routes) :
              Guards(routes[i], q) /\ (p.handler = Server \/ i < p.handler) => i \in Range(p.chain)
    BY <1>0, <2>2, ChainFacts
  <2>4. p.handler \in Nat \cup {Server} /\ Len(routes) \in Nat
    BY <1>0, <2>2, FirstFacts
  <2>5. p.ran = <<>> /\ p.ran \in Seq(Nat) /\ DOMAIN p.ran = {} /\ Rising(p.ran)
    BY <1>0, <2>1, <2>2 DEF Guarded, Rising
  <2>6. ASSUME NEW i \in 1..p.known, Due(p, i, routes) PROVE i \in Range(p.chain)
    <3>1. Guards(routes[i], p) /\ (p.handler = Server \/ i < p.handler)
      BY <2>6, Zenon DEF Due
    <3>2. Guards(routes[i], q)
      BY <2>2, <3>1, Zenon DEF Guards
    <3> QED
      BY <2>2, <2>3, <3>1, <3>2
  <2>7. Chained(p, routes)
    BY <2>3, <2>5, <2>6 DEF Chained
  <2>8. Guarded(p, routes)
    BY <2>2, <2>3, <2>4, <2>5, <2>7 DEF Guarded
  <2>9. Carried(p)
    BY <1>0, <2>2, SameKept
  <2> QED
    BY <2>1, <2>8, <2>9, RequestsStep
<1>2. CASE Middleware(r)
  <2> DEFINE i == Head(q.chain)
  <2>0. q.phase = "chain" /\ ~q.sent /\ q.chain # <<>> /\ UNCHANGED routes
    BY <1>2 DEF Middleware
  <2>1. CASE req' = [req EXCEPT ![r] = [Enter(r, i, "middleware") EXCEPT !.chain = Tail(q.chain)]]
    <3> DEFINE p == [Enter(r, i, "middleware") EXCEPT !.chain = Tail(q.chain)]
    <3>1. /\ p.phase = "middleware" /\ p.ran = Append(q.ran, i) /\ p.chain = Tail(q.chain)
          /\ p.path = q.path /\ p.handler = q.handler /\ p.known = q.known /\ SameAnswers(p, q)
      BY <1>0 DEF Enter, Fields, SameAnswers
    <3> HIDE DEF p
    <3>2. Guarded(p, routes)
      BY <1>0, <2>0, <3>1, ChainMoves
    <3>3. Carried(p)
      BY <1>0, <3>1, SameKept
    <3> QED
      BY <2>0, <2>1, <3>2, <3>3, RequestsStep DEF p
  <2>2. CASE req' = [req EXCEPT ![r] = [Answer(r, Static, 200, Typed(q.headers)) EXCEPT !.phase = "done"]]
    <3> DEFINE a == [by |-> Static, status |-> 200, headers |-> Typed(q.headers)]
               p == [Answer(r, Static, 200, Typed(q.headers)) EXCEPT !.phase = "done"]
    <3>1. /\ p.phase = "done" /\ SameFunctions(p, q)
          /\ p.asked = q.asked /\ p.answers = Append(q.answers, a) /\ p.status = q.status
          /\ p.sent = q.sent /\ p.headers = q.headers /\ p.pending = q.pending
      BY <1>0 DEF Answer, Fields, SameFunctions
    <3>2. a.by = Static
      OBVIOUS
    <3> HIDE DEF p, a
    <3>3. Carried(p)
      BY <1>0, <2>0, <3>1, <3>2, AnswerAdded
    <3>4. Guarded(p, routes)
      BY <1>0, <3>1, SameKept
    <3> QED
      BY <2>0, <2>2, <3>3, <3>4, RequestsStep DEF p
  <2>3. CASE req' = [req EXCEPT ![r].chain = Tail(q.chain)] /\ routes[i].calls = "files"
    <3> DEFINE p == [q EXCEPT !.chain = Tail(q.chain)]
    <3>1. /\ p.phase = "chain" /\ p.ran = q.ran /\ p.chain = Tail(q.chain)
          /\ p.path = q.path /\ p.handler = q.handler /\ p.known = q.known /\ SameAnswers(p, q)
      BY <1>0, <2>0 DEF Fields, SameAnswers
    <3>2. req' = [req EXCEPT ![r] = p]
      BY <2>3
    <3>3. routes[i].calls # "function"
      BY <2>3
    <3> HIDE DEF p
    <3>4. Guarded(p, routes)
      BY <1>0, <2>0, <3>1, <3>3, ChainMoves
    <3>5. Carried(p)
      BY <1>0, <3>1, SameKept
    <3> QED
      BY <2>0, <3>2, <3>4, <3>5, RequestsStep
  <2> QED
    BY <1>2, <2>1, <2>2, <2>3 DEF Middleware
<1>3. CASE Stop(r)
  <2> DEFINE p == [q EXCEPT !.phase = "done"]
  <2>1. req' = [req EXCEPT ![r] = p] /\ UNCHANGED routes
    BY <1>3 DEF Stop
  <2>2. p.phase = "done" /\ SameFunctions(p, q) /\ SameAnswers(p, q)
    BY <1>0 DEF Fields, SameFunctions, SameAnswers
  <2> HIDE DEF p
  <2>3. Carried(p) /\ Guarded(p, routes)
    BY <1>0, <2>2, SameKept
  <2> QED
    BY <2>1, <2>3, RequestsStep
<1>4. CASE Handler(r)
  <2>0. q.phase = "chain" /\ q.chain = <<>> /\ UNCHANGED routes
    BY <1>4 DEF Handler
  <2>1. ASSUME NEW i, req' = [req EXCEPT ![r] = Enter(r, i, "handler")],
               i = Default \/ (i # Server /\ i = q.handler)
        PROVE  RequestsInv'
    <3> DEFINE p == Enter(r, i, "handler")
    <3>1. /\ p.phase = "handler" /\ p.ran = Append(q.ran, i) /\ p.chain = q.chain
          /\ p.path = q.path /\ p.handler = q.handler /\ p.known = q.known /\ SameAnswers(p, q)
      BY <1>0 DEF Enter, Fields, SameAnswers
    <3> HIDE DEF p
    <3>2. Guarded(p, routes)
      BY <1>0, <2>0, <2>1, <3>1, HandlerRuns
    <3>3. Carried(p)
      BY <1>0, <3>1, SameKept
    <3> QED
      BY <2>0, <2>1, <3>2, <3>3, RequestsStep DEF p
  <2>2. CASE req' = [req EXCEPT ![r] = [q EXCEPT !.phase = "replies"]]
    <3> DEFINE p == [q EXCEPT !.phase = "replies"]
    <3>1. p.phase = "replies" /\ SameFunctions(p, q) /\ SameAnswers(p, q)
      BY <1>0 DEF Fields, SameFunctions, SameAnswers
    <3> HIDE DEF p
    <3>2. Carried(p) /\ Guarded(p, routes)
      BY <1>0, <3>1, SameKept
    <3> QED
      BY <2>0, <2>2, <3>2, RequestsStep DEF p
  <2> QED
    BY <1>4, <2>1, <2>2 DEF Handler
<1>5. CASE Reply(r)
  <2>0. UNCHANGED routes
    BY <1>5 DEF Reply
  <2>1. CASE q.sent
    <3> DEFINE p == [q EXCEPT !.phase = "done"]
    <3>1. req' = [req EXCEPT ![r] = p]
      BY <1>5, <2>1 DEF Reply
    <3>2. p.phase = "done" /\ SameFunctions(p, q) /\ SameAnswers(p, q)
      BY <1>0 DEF Fields, SameFunctions, SameAnswers
    <3> HIDE DEF p
    <3>3. Carried(p) /\ Guarded(p, routes)
      BY <1>0, <3>2, SameKept
    <3> QED
      BY <2>0, <3>1, <3>3, RequestsStep
  <2>2. CASE ~q.sent
    <3> DEFINE code == IF q.value THEN 200 ELSE 404
               a == [by |-> Server, status |-> code, headers |-> Typed(q.headers)]
               p == [Answer(r, Server, code, Typed(q.headers)) EXCEPT !.phase = "done"]
    <3>1. req' = [req EXCEPT ![r] = p]
      BY <1>5, <2>2 DEF Reply
    <3>2. /\ p.phase = "done" /\ SameFunctions(p, q)
          /\ p.asked = q.asked /\ p.answers = Append(q.answers, a) /\ p.status = q.status
          /\ p.sent = q.sent /\ p.headers = q.headers /\ p.pending = q.pending
      BY <1>0 DEF Answer, Fields, SameFunctions
    <3>3. a.by = Server
      OBVIOUS
    <3> HIDE DEF p, a
    <3>4. Carried(p)
      BY <1>0, <2>2, <3>2, <3>3, AnswerAdded
    <3>5. Guarded(p, routes)
      BY <1>0, <3>2, SameKept
    <3> QED
      BY <2>0, <3>1, <3>4, <3>5, RequestsStep
  <2> QED
    BY <2>1, <2>2
<1> QED
  BY <1>1, <1>2, <1>3, <1>4, <1>5 DEF Handles_

LEMMA RequestsInitially == HttpInit => RequestsInv
<1> SUFFICES ASSUME HttpInit PROVE RequestsInv
  OBVIOUS
<1> DEFINE q == NoRequest
<1>1. routes = <<>> /\ req = [r \in Requests |-> q] /\ routes \in Seq(Entries)
  BY DEF HttpInit
<1>2. /\ q.phase = "none" /\ q.chain = <<>> /\ q.handler = Server /\ q.sent = FALSE /\ q.status = 0
      /\ q.answers = <<>> /\ q.ran = <<>> /\ q.known = 0 /\ q.asked = <<>>
      /\ q.pending = [k \in Spellings |-> None] /\ q.headers = [h \in Headers |-> None]
  BY DEF NoRequest
<1> HIDE DEF q
<1>3. <<>> \in Seq(Nat) /\ <<>> \in Seq(Asking) /\ DOMAIN <<>> = {} /\ Len(<<>>) = 0
  OBVIOUS
<1>4. /\ \A h : HeaderAsked(<<>>, h) = {None}
      /\ \A what, k : ~Called(<<>>, what, k)
  <2>1. \A h : About(<<>>, h) = {}
    BY <1>3 DEF About
  <2> QED
    BY <1>3, <2>1 DEF HeaderAsked, Called
<1>5. StatusAsked(<<>>) = {}
  <2>1. LastOf({i \in DOMAIN <<>> : <<>>[i][1] = "status"}) = {}
    BY <1>3 DEF LastOf
  <2> QED
    BY <2>1 DEF StatusAsked
<1>6. Carried(q)
  <2>1. \E S : q.answers \in Seq(S)
    BY <1>2, <1>3
  <2>2. \A i \in DOMAIN q.answers : q.answers[i].by \in {Static, Server}
    BY <1>2, <1>3
  <2>3. q.asked \in Seq(Asking) /\ q.status \in Nat /\ q.sent \in BOOLEAN /\ ~q.sent
    <3>1. q.asked \in Seq(Asking)
      BY <1>2, <1>3, Zenon
    <3>2. q.status \in Nat
      BY <1>2
    <3>3. q.sent \in BOOLEAN /\ ~q.sent
      BY <1>2, Zenon
    <3> QED
      BY <3>1, <3>2, <3>3
  <2>4. HeadersKept(q)
    <3>1. q.pending \in [Spellings -> Nat] /\ q.headers \in [Headers -> Nat]
      BY <1>2 DEF None
    <3>2. (\A k \in Spellings : q.pending[k] = None) /\ (\A h \in Headers : q.headers[h] = None)
      BY <1>2
    <3>3. (\A h : HeaderAsked(q.asked, h) = {None}) /\ (\A what, k : ~Called(q.asked, what, k))
      BY <1>2, <1>4, Zenon
    <3>4. \A h \in Headers : ValueKept(q, h)
      BY <3>2, <3>3 DEF ValueKept
    <3> QED
      BY <3>1, <3>2, <3>4 DEF HeadersKept
  <2>5. StatusAsked(q.asked) = IF q.status = 0 THEN {} ELSE {q.status}
    BY <1>2, <1>5, Zenon
  <2>6. q.sent => AnswersCarry(q)
    BY <2>3
  <2> QED
    BY <2>1, <2>2, <2>3, <2>4, <2>5, <2>6 DEF Carried
<1>7. Guarded(q, routes)
  BY <1>1, <1>2, <1>3 DEF Guarded, Rising
<1> QED
  BY <1>1, <1>6, <1>7 DEF RequestsInv

LEMMA RequestsKept ==
    ASSUME HttpInv, RequestsInv, [HttpNext]_httpVars
    PROVE  RequestsInv'
<1>1. CASE UNCHANGED <<routes, req>>
  <2>1. routes' = routes /\ req' = req
    BY <1>1
  <2>2. ASSUME NEW r \in Requests PROVE (Carried(req[r]))' /\ (Guarded(req[r], routes))'
    <3>1. Carried(req[r]) /\ Guarded(req[r], routes)
      BY DEF RequestsInv
    <3>2. (Carried(req[r]))'
      BY <2>1, <3>1 DEF Carried, AnswersCarry
    <3>3. (Guarded(req[r], routes))'
      BY <2>1, <3>1, Zenon DEF Guarded, Chained, DueRan, Due, Rising, Guards, matchPrefix
    <3> QED
      BY <3>2, <3>3
  <2> QED
    BY <2>1, <2>2 DEF RequestsInv
<1>2. ASSUME NEW e \in Entries, Register(e) PROVE RequestsInv'
  <2>1. routes' = Append(routes, e) /\ req' = req /\ routes \in Seq(Entries)
    BY <1>2 DEF Register, RequestsInv
  <2>2. /\ routes' \in Seq(Entries) /\ Len(routes') = Len(routes) + 1 /\ Len(routes) \in Nat
        /\ \A i \in 1..Len(routes) : routes'[i] = routes[i]
    BY <2>1, AppendFacts
  <2>3. ASSUME NEW r \in Requests PROVE Guarded(req[r], routes')
    <3> DEFINE q == req[r]
    <3>1. Guarded(q, routes)
      BY DEF RequestsInv
    <3> DEFINE known == q.known
    <3>2. known \in 0..Len(routes)
      BY <3>1, Zenon DEF Guarded
    <3> HIDE DEF known
    <3>8. known \in 0..Len(routes')
      BY <2>2, <3>2
    <3>3. \A i \in 1..known : routes'[i] = routes[i]
      BY <2>2, <3>2
    <3> USE DEF known
    <3>4. ASSUME NEW i \in 1..q.known PROVE Due(q, i, routes') <=> Due(q, i, routes)
      BY <3>3, Zenon DEF Due
    <3>5. Chained(q, routes) => Chained(q, routes')
      BY <3>4, Zenon DEF Chained
    <3>6. DueRan(q, routes) => DueRan(q, routes')
      BY <3>4, Zenon DEF DueRan
    <3> HIDE DEF q
    <3>7. Guarded(q, routes')
      BY <3>1, <3>8, <3>5, <3>6 DEF Guarded, known
    <3> QED
      BY <3>7 DEF q
  <2>4. ASSUME NEW r \in Requests PROVE (Carried(req[r]))' /\ (Guarded(req[r], routes))'
    <3>1. (Carried(req[r]))' <=> Carried(req[r])
      BY <2>1 DEF Carried, AnswersCarry
    <3>2. (Guarded(req[r], routes))' <=> Guarded(req[r], routes')
      BY <2>1, Zenon DEF Guarded, Chained, DueRan, Due, Rising, Guards, matchPrefix
    <3> QED
      BY <2>3, <3>1, <3>2 DEF RequestsInv
  <2> QED
    BY <2>2, <2>4 DEF RequestsInv
<1>3. ASSUME NEW r \in Requests, NEW method, NEW path, Arrive(r, method, path) PROVE RequestsInv'
  <2> DEFINE q == req[r]
             p == [q EXCEPT !.phase = "arrives", !.method = method, !.path = path]
  <2>1. req' = [req EXCEPT ![r] = p] /\ UNCHANGED routes /\ q.phase = "none"
    BY <1>3 DEF Arrive
  <2>2. DOMAIN q = Fields /\ Carried(q) /\ Guarded(q, routes)
    BY DEF HttpInv, RequestsInv
  <2>3. /\ p.phase = "arrives" /\ p.ran = q.ran /\ p.chain = q.chain /\ p.handler = q.handler
        /\ p.known = q.known /\ SameAnswers(p, q)
    BY <2>2 DEF Fields, SameAnswers
  <2> HIDE DEF p
  <2>4. Guarded(p, routes)
    BY <2>1, <2>2, <2>3 DEF Guarded
  <2>5. Carried(p)
    BY <2>2, <2>3, SameKept
  <2> QED
    BY <2>1, <2>4, <2>5, RequestsStep
<1>4. CASE listen \/ ServerSteps \/ ScriptEnds \/ Exit \/ UNCHANGED httpVars
  <2>1. UNCHANGED <<routes, req>>
    BY <1>4 DEF listen, ServerSteps, Drained, Timeout, ScriptEnds, Exit, close, httpVars
  <2> QED
    BY <1>1, <2>1
<1> QED
  BY <1>2, <1>3, <1>4, HandlesCarry, CallsCarry DEF HttpNext

-----------------------------------------------------------------------------
(* Both servers. *)

ServersInv == HttpInv /\ RequestsInv /\ WsInv /\ use \in Uses

THEOREM ServersKeep == ServersSpec => []ServersInv
<1>1. ServersInit => ServersInv
  BY HttpInitially, RequestsInitially, WsInitially DEF ServersInit, ServersInv
<1>2. ServersInv /\ [ServersNext]_vars => ServersInv'
  <2> SUFFICES ASSUME ServersInv, [ServersNext]_vars PROVE ServersInv'
    OBVIOUS
  <2>0. HttpInv /\ RequestsInv /\ WsInv /\ use \in Uses
    BY DEF ServersInv
  <2>1. CASE UNCHANGED vars
    <3>1. UNCHANGED httpVars /\ UNCHANGED wsVars /\ use' = use
      BY <2>1 DEF vars
    <3> QED
      BY <2>0, <3>1, HttpStep, RequestsKept, WsStep DEF ServersInv
  <2>2. CASE HttpNext /\ UNCHANGED wsVars /\ UNCHANGED use
    BY <2>0, <2>2, HttpStep, RequestsKept, WsStep DEF ServersInv
  <2>3. CASE WsNext /\ UNCHANGED httpVars /\ UNCHANGED use
    BY <2>0, <2>3, HttpStep, RequestsKept, WsStep DEF ServersInv
  <2>4. CASE HttpOfBoth /\ UNCHANGED wsVars /\ UNCHANGED use
    <3>1. HttpNext
      <4>1. ASSUME NEW r \in Requests, Attends(r) PROVE Return(r) \/ Function(r)
        BY <4>1 DEF Attends, Function, Replies
      <4> QED
        BY <2>4, <4>1 DEF HttpOfBoth, HttpNext, ExitBoth, ServerSteps, Closers
    <3> QED
      BY <2>0, <2>4, <3>1, HttpStep, RequestsKept, WsStep DEF ServersInv
  <2>5. CASE use = "both" /\ WsOfBoth /\ UNCHANGED httpVars /\ UNCHANGED use
    <3>1. Requests \subseteq Scripts
      BY <2>0, <2>5, ServersAssumption
    <3>2. WsNext
      BY <2>5, <3>1 DEF WsOfBoth, WsNext
    <3> QED
      BY <2>0, <2>5, <3>2, HttpStep, RequestsKept, WsStep DEF ServersInv
  <2> QED
    BY <2>1, <2>2, <2>3, <2>4, <2>5 DEF ServersNext
<1> QED
  BY <1>1, <1>2, PTL DEF ServersSpec

(* Every request is answered once, by the function that was called last or  *)
(* by the server, unless one of its functions handed res to a goroutine     *)
(* (http.go:530-577): for any requests, routes and functions.               *)
THEOREM OneAnswerOnly == ServersSpec => []AnsweredOnce
<1>1. ServersInv => AnsweredOnce
  <2> SUFFICES ASSUME ServersInv, NEW r \in Requests, ~req[r].leaked
               PROVE  /\ Len(req[r].answers) <= 1
                      /\ req[r].phase = "done" => req[r].answers # <<>>
                      /\ \A i \in DOMAIN req[r].answers :
                            req[r].answers[i].by \notin {Static, Server} =>
                                req[r].answers[i].by = Last(req[r].ran)
    BY DEF AnsweredOnce
  <2>1. AnswersOf(req[r])
    BY DEF ServersInv, HttpInv
  <2>2. CASE req[r].answers = <<>>
    BY <2>1, <2>2 DEF AnswersOf, OneAnswer
  <2>3. CASE OneAnswer(req[r])
    <3>1. PICK a : req[r].answers = <<a>> /\ (a.by \in {Static, Server} \/ a.by = Last(req[r].ran))
      BY <2>3 DEF OneAnswer
    <3>2. Len(<<a>>) = 1 /\ <<a>> # <<>> /\ \A i \in DOMAIN <<a>> : <<a>>[i] = a
      OBVIOUS
    <3> QED
      BY <3>1, <3>2
  <2> QED
    BY <2>1, <2>2, <2>3 DEF AnswersOf
<1> QED
  BY <1>1, ServersKeep, PTL

(* The answer of a function carries the status as the functions asked for   *)
(* it last, and each header whose calls were of one way, but for the type   *)
(* of content, which is that of the answer (http.go:132-364), also when a   *)
(* goroutine it started gives it: for any functions and calls on res.       *)
THEOREM AnswersAsAsked == ServersSpec => []AnswerCarries
<1>1. ServersInv => AnswerCarries
  <2> SUFFICES ASSUME ServersInv, NEW r \in Requests, NEW i \in DOMAIN req[r].answers,
                      req[r].answers[i].by \notin {Static, Server}
               PROVE  /\ HeadersCarried(req[r].answers[i], req[r].asked)
                      /\ Last(req[r].asked) \in {<<"typed", 0>>, <<"end", 0>>} =>
                            req[r].answers[i].status \in
                                IF StatusAsked(req[r].asked) = {} THEN {200} ELSE StatusAsked(req[r].asked)
    BY Zenon DEF AnswerCarries, HeadersCarried, ValueCarried, TypedBy
  <2>1. Carried(req[r])
    BY DEF ServersInv, RequestsInv
  <2>2. AnswersCarry(req[r])
    BY <2>1 DEF Carried
  <2> QED
    BY <2>2 DEF AnswersCarry
<1> QED
  BY <1>1, ServersKeep, PTL

(* No handler runs before a function of use that guards its route, and      *)
(* those run in the order they were added, whatever routes are added while  *)
(* the request is served (http.go:497-515): for any routes and requests.    *)
THEOREM GuardsFirst == ServersSpec => []GuardsRun
<1>1. ServersInv => GuardsRun
  <2> SUFFICES ASSUME ServersInv, NEW r \in Requests
               PROVE  /\ Rising(req[r].ran)
                      /\ req[r].phase = "handler" => DueRan(req[r], routes)
    BY Zenon DEF GuardsRun, Rising, DueRan, Due
  <2>1. Guarded(req[r], routes)
    BY DEF ServersInv, RequestsInv
  <2> QED
    BY <2>1 DEF Guarded
<1> QED
  BY <1>1, ServersKeep, PTL

(* A close of the script lets every request end that does not take longer   *)
(* than it waits (http.go:589-594), whichever timers, goroutines and        *)
(* requests close the server before, meanwhile or after.                    *)
THEOREM NoRequestCut == ServersSpec => []NoneCut
<1>1. ServersInv => NoneCut
  BY DEF ServersInv, HttpInv, ServerStates, NoneCut
<1> QED
  BY <1>1, ServersKeep, PTL

(* The list of clients holds the connections there are, each once           *)
(* (ws.go:206-219): for any connections, goroutines and callbacks.          *)
THEOREM ClientsTrue == ServersSpec => []ClientsFollow
<1>1. ServersInv => ClientsFollow
  BY DEF ServersInv, WsInv
<1> QED
  BY <1>1, ServersKeep, PTL

(* No connection carries a message twice or anything after its close frame  *)
(* (ws.go:24-56): for any messages, senders and pipes.                      *)
THEOREM OrderOfFrames == ServersSpec => []FramesInOrder
<1>1. ServersInv => FramesInOrder
  BY DEF ServersInv, WsInv
<1> QED
  BY <1>1, ServersKeep, PTL
=============================================================================
