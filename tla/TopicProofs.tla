----------------------------- MODULE TopicProofs ----------------------------
(***************************************************************************)
(* A topic against what it promises, for any publishers, subscriptions and *)
(* number of messages: the safety of its close and of its delivery.        *)
(***************************************************************************)
EXTENDS Topic, SequenceTheorems, TLAPS

-----------------------------------------------------------------------------
(* The inductive invariant *)

\* Only what is made is closed; the closing goroutine is done exactly when the loop has
\* been told; the channel is closed only after that.
CloseOrder ==
    \A s \in Sub :
        /\ closer[s] # "none" => owner[s] \in {"closing", "closed"}
        /\ closer[s] = "done" <=> loop[s] \in {"told", "returned"}
        /\ owner[s] = "closed" => closer[s] = "done"
        /\ s \in closed => owner[s] \in {"closing", "closed"}

\* A subscription that is not made has nothing; one that is read has its queue in the
\* topic and its loop at work.  A publisher at work has published.
MadeOK ==
    /\ \A s \in Sub : owner[s] = "none" =>
          s \notin subs /\ loop[s] = "none" /\ queue[s] = <<>>
    /\ \A s \in Sub : owner[s] = "reading" =>
          s \in subs \ closed /\ loop[s] \in {"select", "drain", "send"}
    /\ \A p \in Publisher : pushing[p] # {} => sent[p] > 0

\* The messages on their way are, of each publisher and in order, those after the last
\* one taken, up to the last one pushed.
InOrder(q, last, pushed) ==
    /\ \A p \in Publisher : last[p] <= pushed[p]
    /\ \A i \in DOMAIN q : q[i].n > last[q[i].from] /\ q[i].n <= pushed[q[i].from]
    /\ \A i, j \in DOMAIN q : i < j /\ q[i].from = q[j].from => q[i].n < q[j].n
    /\ \A p \in Publisher, n \in Nat :
          n > last[p] /\ n <= pushed[p] => \E i \in DOMAIN q : q[i] = [from |-> p, n |-> n]

Pushed(s) == [p \in Publisher |-> IF s \in pushing[p] THEN sent[p] - 1 ELSE sent[p]]
FlightOK ==
    \A s \in Sub : owner[s] = "reading" => InOrder(held[s] \o queue[s], taken[s], Pushed(s))

IInv == TypeOK /\ CloseOrder /\ MadeOK /\ FlightOK

-----------------------------------------------------------------------------
(* Queues of messages *)

LEMMA InOrderEmpty ==
  ASSUME NEW last \in [Publisher -> Nat]
  PROVE  InOrder(<<>>, last, last)
BY DEF InOrder

\* The next message of a publisher goes to the end.
LEMMA InOrderAppend ==
  ASSUME NEW q \in Seq(Message), NEW last \in [Publisher -> Nat],
         NEW pushed \in [Publisher -> Nat], NEW more \in [Publisher -> Nat],
         NEW p \in Publisher, NEW m \in Message, m.from = p, m.n = pushed[p] + 1,
         more = [pushed EXCEPT ![p] = @ + 1],
         InOrder(q, last, pushed)
  PROVE  InOrder(Append(q, m), last, more)
<1> DEFINE r == Append(q, m)
           l == Len(q)
<1>1. /\ l \in Nat /\ DOMAIN q = 1..l /\ DOMAIN r = 1..(l + 1)
      /\ \A i \in 1..l : r[i] = q[i]
      /\ r[l + 1] = m
  BY AppendProperties, LenProperties
<1>2. \A i \in 1..l : q[i] \in Message /\ q[i].from \in Publisher /\ q[i].n \in Nat
  <2>1. \A i \in 1..l : q[i] \in Message  BY ElementOfSeq
  <2>2. \A x \in Message : x.from \in Publisher /\ x.n \in Nat  BY DEF Message
  <2> QED  BY <2>1, <2>2
<1>3. /\ more[p] = pushed[p] + 1 /\ \A x \in Publisher : pushed[x] <= more[x]
      /\ \A x \in Publisher \ {p} : more[x] = pushed[x]
  OBVIOUS
<1> HIDE DEF r, l
<1>4. \A x \in Publisher : last[x] <= more[x]
  <2> SUFFICES ASSUME NEW x \in Publisher  PROVE last[x] <= more[x]
    OBVIOUS
  <2> DEFINE a == last[x]
             b == pushed[x]
             d == more[x]
  <2>1. a \in Nat /\ b \in Nat /\ d \in Nat  OBVIOUS
  <2>2. a <= b  BY DEF InOrder
  <2>3. b <= d  BY <1>3
  <2> HIDE DEF a, b, d
  <2>4. a <= d  BY <2>1, <2>2, <2>3
  <2> QED  BY <2>4 DEF a, d
<1>5. \A i \in DOMAIN r : i \in 1..l \/ i = l + 1  BY <1>1
<1>6. \A i \in 1..l : q[i].n > last[q[i].from] /\ q[i].n <= pushed[q[i].from]
  BY <1>1 DEF InOrder
<1>7. \A i \in DOMAIN r : r[i].n > last[r[i].from] /\ r[i].n <= more[r[i].from]
  <2>1. m.n > last[m.from] /\ m.n <= more[m.from]  BY <1>3 DEF InOrder
  <2>2. \A i \in 1..l : q[i].n > last[q[i].from] /\ q[i].n <= more[q[i].from]
    BY <1>2, <1>3, <1>6
  <2> QED  BY <1>1, <1>5, <2>1, <2>2
<1>8. \A i, j \in DOMAIN r : i < j /\ r[i].from = r[j].from => r[i].n < r[j].n
  <2> SUFFICES ASSUME NEW i \in DOMAIN r, NEW j \in DOMAIN r, i < j, r[i].from = r[j].from
               PROVE  r[i].n < r[j].n
    OBVIOUS
  <2>1. i \in 1..l  BY <1>1
  <2>2. CASE j \in 1..l  BY <1>1, <2>1, <2>2 DEF InOrder
  <2>3. CASE j = l + 1
    <3>1. q[i].from = p  BY <1>1, <2>1, <2>3
    <3>2. q[i].n <= pushed[p] /\ q[i].n \in Nat  BY <1>2, <1>6, <2>1, <3>1
    <3> QED  BY <1>1, <2>1, <2>3, <3>2
  <2> QED  BY <1>5, <2>2, <2>3
<1>9. ASSUME NEW x \in Publisher, NEW n \in Nat, n > last[x], n <= more[x]
      PROVE  \E i \in DOMAIN r : r[i] = [from |-> x, n |-> n]
  <2>1. CASE n <= pushed[x]
    <3>1. PICK i \in DOMAIN q : q[i] = [from |-> x, n |-> n]  BY <1>9, <2>1 DEF InOrder
    <3>2. i \in DOMAIN r /\ r[i] = q[i]  BY <1>1
    <3> QED  BY <3>1, <3>2
  <2>2. CASE n > pushed[x]
    <3>1. x = p  BY <1>3, <1>9, <2>2
    <3>2. n = pushed[p] + 1  BY <1>3, <1>9, <2>2, <3>1
    <3>3. m = [from |-> x, n |-> n]  BY <3>1, <3>2 DEF Message
    <3>4. l + 1 \in DOMAIN r /\ r[l + 1] = m  BY <1>1
    <3> QED  BY <3>3, <3>4
  <2> QED  BY <1>9, <2>1, <2>2
<1> QED  BY <1>4, <1>7, <1>8, <1>9 DEF InOrder, r

\* What is at the front is the message after the last one taken of its publisher.
LEMMA InOrderTail ==
  ASSUME NEW q \in Seq(Message), q # <<>>, NEW last \in [Publisher -> Nat],
         NEW pushed \in [Publisher -> Nat], InOrder(q, last, pushed)
  PROVE  LET m == Head(q) IN
         /\ m \in Message /\ m.n = last[m.from] + 1 /\ m.n <= pushed[m.from]
         /\ InOrder(Tail(q), [last EXCEPT ![m.from] = m.n], pushed)
<1> DEFINE m == Head(q)
           p == m.from
           r == Tail(q)
           l == Len(q)
           after == [last EXCEPT ![p] = m.n]
<1>1. /\ l \in Nat \ {0} /\ DOMAIN q = 1..l /\ DOMAIN r = 1..(l - 1)
      /\ \A i \in 1..(l - 1) : r[i] = q[i + 1]
      /\ m = q[1] /\ m \in Message
  BY HeadTailProperties, LenProperties, EmptySeq
<1>2. \A i \in 1..l : q[i] \in Message /\ q[i].from \in Publisher /\ q[i].n \in Nat
  <2>1. \A i \in 1..l : q[i] \in Message  BY ElementOfSeq
  <2>2. \A x \in Message : x.from \in Publisher /\ x.n \in Nat  BY DEF Message
  <2> QED  BY <2>1, <2>2
<1>3. p \in Publisher /\ m.n \in Nat  BY <1>1 DEF Message
<1> HIDE DEF m, r, l
<1>4. 1 \in 1..l /\ m.n > last[p] /\ m.n <= pushed[p]
  <2>1. 1 \in DOMAIN q /\ 1 \in 1..l  BY <1>1
  <2>2. q[1].n > last[q[1].from] /\ q[1].n <= pushed[q[1].from]  BY <2>1 DEF InOrder
  <2> QED  BY <1>1, <2>1, <2>2
<1>5. m.n = last[p] + 1
  <2>1. last[p] + 1 \in Nat /\ last[p] + 1 > last[p] /\ last[p] + 1 <= pushed[p]
    BY <1>3, <1>4
  <2>2. PICK i \in DOMAIN q : q[i] = [from |-> p, n |-> last[p] + 1]
    BY <1>3, <2>1 DEF InOrder
  <2>3. CASE i = 1  BY <1>1, <2>2, <2>3
  <2>4. CASE i # 1
    <3>1. 1 < i /\ q[1].from = q[i].from  BY <1>1, <2>2, <2>4
    <3>2. q[1].n < q[i].n
      <4>1. 1 \in DOMAIN q  BY <1>1
      <4> QED  BY <2>2, <3>1, <4>1 DEF InOrder
    <3>3. m.n < last[p] + 1  BY <1>1, <2>2, <3>2
    <3> QED  BY <1>3, <1>4, <3>3
  <2> QED  BY <2>3, <2>4
<1>6. /\ after[p] = m.n /\ \A x \in Publisher \ {p} : after[x] = last[x]
  BY <1>3
<1> HIDE DEF p, after
<1>7. \A x \in Publisher : after[x] <= pushed[x]  BY <1>4, <1>6 DEF InOrder
<1>8. ASSUME NEW i \in DOMAIN r
      PROVE  r[i].n > after[r[i].from] /\ r[i].n <= pushed[r[i].from]
  <2>1. i + 1 \in 1..l /\ r[i] = q[i + 1] /\ 1 < i + 1  BY <1>1
  <2>2. q[i + 1].n > last[q[i + 1].from] /\ q[i + 1].n <= pushed[q[i + 1].from]
    BY <1>1, <2>1 DEF InOrder
  <2>3. CASE q[i + 1].from = p
    <3>1. q[1].n < q[i + 1].n
      <4>1. q[1].from = q[i + 1].from  BY <1>1, <2>3 DEF p
      <4> QED  BY <1>1, <1>4, <2>1, <4>1 DEF InOrder
    <3> QED  BY <1>1, <1>2, <1>3, <1>6, <2>1, <2>2, <2>3, <3>1
  <2>4. CASE q[i + 1].from # p  BY <1>2, <1>6, <2>1, <2>2, <2>4
  <2> QED  BY <2>3, <2>4
<1>9. \A i, j \in DOMAIN r : i < j /\ r[i].from = r[j].from => r[i].n < r[j].n
  <2> SUFFICES ASSUME NEW i \in DOMAIN r, NEW j \in DOMAIN r, i < j, r[i].from = r[j].from
               PROVE  r[i].n < r[j].n
    OBVIOUS
  <2>1. /\ i + 1 \in DOMAIN q /\ j + 1 \in DOMAIN q /\ i + 1 < j + 1
        /\ r[i] = q[i + 1] /\ r[j] = q[j + 1]
    BY <1>1
  <2> QED  BY <2>1 DEF InOrder
<1>10. ASSUME NEW x \in Publisher, NEW n \in Nat, n > after[x], n <= pushed[x]
       PROVE  \E i \in DOMAIN r : r[i] = [from |-> x, n |-> n]
  <2>1. n > last[x] /\ (x = p => n # m.n)
    <3>1. CASE x = p  BY <1>3, <1>5, <1>6, <1>10, <3>1
    <3>2. CASE x # p  BY <1>6, <1>10, <3>2
    <3> QED  BY <3>1, <3>2
  <2>2. PICK i \in DOMAIN q : q[i] = [from |-> x, n |-> n]  BY <1>10, <2>1 DEF InOrder
  <2>3. i # 1
    <3>1. SUFFICES ASSUME i = 1  PROVE FALSE
      OBVIOUS
    <3>2. m = [from |-> x, n |-> n]  BY <1>1, <2>2, <3>1
    <3> QED  BY <2>1, <3>2 DEF p
  <2>4. i - 1 \in DOMAIN r /\ r[i - 1] = q[i]  BY <1>1, <2>3
  <2> QED  BY <2>2, <2>4
<1>11. InOrder(r, after, pushed)  BY <1>7, <1>8, <1>9, <1>10 DEF InOrder
<1> QED  BY <1>1, <1>4, <1>5, <1>11 DEF m, p, r, after

-----------------------------------------------------------------------------
(* What a subscription has on its way *)

\* A message that is appended to the queue is appended to all that is on its way.
LEMMA ConcatAppend ==
  ASSUME NEW S, NEW h \in Seq(S), NEW q \in Seq(S), NEW m \in S
  PROVE  h \o Append(q, m) = Append(h \o q, m)
<1>1. <<m>> \in Seq(S)  OBVIOUS
<1>2. Append(q, m) = q \o <<m>> /\ Append(h \o q, m) = (h \o q) \o <<m>>
  BY AppendIsConcat, ConcatProperties
<1> QED  BY <1>1, <1>2, ConcatAssociative

\* The front of the queue moves ahead of it.
LEMMA ConcatHead ==
  ASSUME NEW S, NEW q \in Seq(S), q # <<>>
  PROVE  /\ <<Head(q)>> \o Tail(q) = q
         /\ \A m \in S : Head(<<m>> \o q) = m /\ Tail(<<m>> \o q) = q /\ <<m>> \o q # <<>>
<1> QED  OBVIOUS

LEMMA FlightTyped ==
  ASSUME TypeOK, MadeOK, NEW s \in Sub
  PROVE  /\ held[s] \in Seq(Message) /\ queue[s] \in Seq(Message)
         /\ held[s] \o queue[s] \in Seq(Message)
         /\ taken[s] \in [Publisher -> Nat]
         /\ Pushed(s) \in [Publisher -> Nat]
         /\ loop[s] # "send" => held[s] \o queue[s] = queue[s]
<1>1. held[s] \in Seq(Message) /\ queue[s] \in Seq(Message) /\ taken[s] \in [Publisher -> Nat]
  BY DEF TypeOK
<1>2. held[s] \o queue[s] \in Seq(Message)  BY <1>1, ConcatProperties
<1>3. Pushed(s) \in [Publisher -> Nat]
  <2>1. \A p \in Publisher : sent[p] \in Nat /\ (s \in pushing[p] => sent[p] > 0)
    BY DEF TypeOK, MadeOK
  <2> QED  BY <2>1 DEF Pushed
<1>4. ASSUME loop[s] # "send"  PROVE held[s] \o queue[s] = queue[s]
  <2>1. Len(held[s]) = 0  BY <1>4 DEF TypeOK
  <2>2. held[s] = <<>>  BY <1>1, <2>1, EmptySeq
  <2> QED  BY <1>1, <2>2, ConcatEmptySeq
<1> QED  BY <1>1, <1>2, <1>3, <1>4

\* Nothing about the messages on their way changes but at one subscription.
LEMMA FlightKept ==
  ASSUME FlightOK, NEW s,
         \A x \in Sub \ {s} : /\ owner'[x] = owner[x]
                              /\ held'[x] \o queue'[x] = held[x] \o queue[x]
                              /\ taken'[x] = taken[x] /\ Pushed(x)' = Pushed(x),
         owner'[s] = "reading" => InOrder(held'[s] \o queue'[s], taken'[s], Pushed(s)')
  PROVE  FlightOK'
BY DEF FlightOK

LEMMA InitInv == Init => IInv
<1> SUFFICES ASSUME Init  PROVE IInv
  OBVIOUS
<1> USE DEF Init
<1>1. TypeOK
  <2>1. \A s \in Sub : Len(held[s]) = 0
    <3>1. Len(<<>>) = 0  OBVIOUS
    <3> QED  BY <3>1
  <2>2. \A p \in Publisher : sent[p] <= MaxSent[p]
    <3> SUFFICES ASSUME NEW p \in Publisher  PROVE sent[p] <= MaxSent[p]
      OBVIOUS
    <3> DEFINE most == MaxSent[p]
    <3>1. sent[p] = 0  OBVIOUS
    <3>2. most \in Nat  BY TopicAssumption
    <3> HIDE DEF Init, most
    <3>3. sent[p] <= most  BY <3>1, <3>2
    <3> QED  BY <3>3 DEF most
  <2> QED  BY <2>1, <2>2 DEF TypeOK, LoopPlaces, OwnerPlaces, CloserPlaces
<1>2. CloseOrder /\ MadeOK  BY DEF CloseOrder, MadeOK
<1>3. FlightOK  BY DEF FlightOK
<1> QED  BY <1>1, <1>2, <1>3 DEF IInv

-----------------------------------------------------------------------------
(* The topic's steps *)

LEMMA StartPubOK ==
  ASSUME IInv, NEW p \in Publisher, StartPub(p)
  PROVE  IInv' /\ D!Publish(p)
<1> USE DEF IInv
<1>1. /\ pushing[p] = {} /\ sent[p] < MaxSent[p]
      /\ sent' = [sent EXCEPT ![p] = @ + 1]
      /\ pushing' = [pushing EXCEPT ![p] = subs]
      /\ UNCHANGED <<taken, subs, queue, closed, held, loop, owner, closer>>
  BY DEF StartPub
<1>2. /\ sent \in [Publisher -> Nat] /\ MaxSent \in [Publisher -> Nat]
      /\ pushing \in [Publisher -> SUBSET subs]
      /\ \A x \in Publisher : sent[x] <= MaxSent[x]
  BY TopicAssumption DEF TypeOK
<1>3. /\ sent' \in [Publisher -> Nat] /\ pushing' \in [Publisher -> SUBSET subs']
      /\ sent'[p] = sent[p] + 1 /\ pushing'[p] = subs
      /\ \A x \in Publisher \ {p} : sent'[x] = sent[x] /\ pushing'[x] = pushing[x]
  BY <1>1, <1>2
<1>4. \A x \in Publisher : sent'[x] <= MaxSent[x]  BY <1>1, <1>2, <1>3
<1>5. TypeOK'  BY <1>1, <1>3, <1>4 DEF TypeOK
<1>6. CloseOrder'  BY <1>1 DEF CloseOrder
<1>7. MadeOK'  BY <1>1, <1>2, <1>3 DEF MadeOK
<1>8. ASSUME NEW s \in Sub, owner[s] = "reading"  PROVE Pushed(s)' = Pushed(s)
  <2>1. s \in subs  BY <1>8 DEF MadeOK
  <2>2. \A x \in Publisher :
           (IF s \in pushing'[x] THEN sent'[x] - 1 ELSE sent'[x])
             = (IF s \in pushing[x] THEN sent[x] - 1 ELSE sent[x])
    BY <1>1, <1>2, <1>3, <2>1
  <2> QED  BY <2>2 DEF Pushed
<1>9. FlightOK'  BY <1>1, <1>8 DEF FlightOK
<1>10. D!Publish(p)  BY <1>1 DEF D!Publish
<1> QED  BY <1>5, <1>6, <1>7, <1>9, <1>10

LEMMA PushOK ==
  ASSUME IInv, NEW p \in Publisher, NEW s \in Sub, Push(p, s)
  PROVE  IInv'
<1> DEFINE m == [from |-> p, n |-> sent[p]]
<1> USE DEF IInv
<1>1. /\ s \in pushing[p] /\ pushing' = [pushing EXCEPT ![p] = @ \ {s}]
      /\ Enqueue(s, m)
      /\ UNCHANGED <<sent, taken, subs, closed, held, loop, owner, closer>>
  BY DEF Push
<1>2. /\ queue \in [Sub -> Seq(Message)] /\ queue[s] \in Seq(Message) /\ m \in Message
      /\ sent \in [Publisher -> Nat] /\ pushing \in [Publisher -> SUBSET subs]
  BY DEF TypeOK, Message
<1>3. /\ queue' \in [Sub -> Seq(Message)]
      /\ queue'[s] = IF s \in closed THEN queue[s] ELSE Append(queue[s], m)
      /\ \A x \in Sub \ {s} : queue'[x] = queue[x]
  <2>1. Append(queue[s], m) \in Seq(Message)  BY <1>2, AppendProperties
  <2> HIDE DEF m
  <2>2. CASE s \in closed  BY <1>1, <1>2, <2>2 DEF Enqueue
  <2>3. CASE s \notin closed
    <3>1. queue' = [queue EXCEPT ![s] = Append(@, m)]  BY <1>1, <2>3 DEF Enqueue
    <3> QED  BY <1>2, <2>1, <2>3, <3>1
  <2> QED  BY <2>2, <2>3
<1>4. /\ pushing' \in [Publisher -> SUBSET subs] /\ pushing'[p] = pushing[p] \ {s}
      /\ \A x \in Publisher \ {p} : pushing'[x] = pushing[x]
  BY <1>1, <1>2
<1> HIDE DEF m
<1>5. TypeOK'
  <2>1. \A x \in Sub : x \in closed => queue'[x] = <<>>  BY <1>3 DEF TypeOK
  <2> QED  BY <1>1, <1>3, <1>4, <2>1 DEF TypeOK
<1>6. CloseOrder'  BY <1>1 DEF CloseOrder
<1>7. MadeOK'
  <2>1. \A x \in Publisher : pushing'[x] # {} => pushing[x] # {}  BY <1>4
  <2>2. s \in subs  BY <1>1, <1>2
  <2> QED  BY <1>1, <1>3, <2>1, <2>2 DEF MadeOK
<1>8. FlightOK'
  <2>1. \A x \in Sub \ {s} : Pushed(x)' = Pushed(x)
    <3>1. \A x \in Sub \ {s}, y \in Publisher : x \in pushing'[y] <=> x \in pushing[y]
      BY <1>4
    <3> QED  BY <1>1, <3>1 DEF Pushed
  <2>2. ASSUME owner[s] = "reading"
        PROVE  InOrder(held'[s] \o queue'[s], taken'[s], Pushed(s)')
    <3> DEFINE q == held[s] \o queue[s]
    <3>1. s \notin closed /\ InOrder(q, taken[s], Pushed(s))
      BY <2>2 DEF MadeOK, FlightOK
    <3>2. /\ held[s] \in Seq(Message) /\ q \in Seq(Message)
          /\ taken[s] \in [Publisher -> Nat] /\ Pushed(s) \in [Publisher -> Nat]
      BY FlightTyped
    <3>3. held'[s] \o queue'[s] = Append(q, m)
      <4>1. held[s] \o Append(queue[s], m) = Append(held[s] \o queue[s], m)
        <5> DEFINE hs == held[s]
                   qs == queue[s]
        <5>1. hs \in Seq(Message) /\ qs \in Seq(Message) /\ m \in Message  BY <1>2, <3>2
        <5> HIDE DEF hs, qs
        <5>2. hs \o Append(qs, m) = Append(hs \o qs, m)  BY <5>1, ConcatAppend
        <5> QED  BY <5>2 DEF hs, qs
      <4>2. held'[s] = held[s] /\ queue'[s] = Append(queue[s], m)  BY <1>1, <1>3, <3>1
      <4> QED  BY <4>1, <4>2
    <3>4. sent[p] > 0 /\ sent[p] \in Nat  BY <1>1, <1>2 DEF MadeOK
    <3>5. /\ Pushed(s)[p] = sent[p] - 1 /\ Pushed(s)'[p] = sent[p]
          /\ \A x \in Publisher \ {p} : Pushed(s)'[x] = Pushed(s)[x]
      BY <1>1, <1>4 DEF Pushed
    <3>6. Pushed(s)' = [x \in Publisher |-> Pushed(s)'[x]]  BY DEF Pushed
    <3>7. Pushed(s)' = [Pushed(s) EXCEPT ![p] = @ + 1]
      <4> DEFINE before == Pushed(s)
                 after == Pushed(s)'
      <4>1. /\ before[p] = sent[p] - 1 /\ after[p] = sent[p]
            /\ \A x \in Publisher \ {p} : after[x] = before[x]
            /\ after = [x \in Publisher |-> after[x]]
            /\ before \in [Publisher -> Nat]
        BY <3>2, <3>5, <3>6
      <4> HIDE DEF before, after
      <4>2. after[p] = before[p] + 1  BY <3>4, <4>1
      <4>3. after = [before EXCEPT ![p] = @ + 1]  BY <4>1, <4>2
      <4> QED  BY <4>3 DEF before, after
    <3>8. m.from = p /\ m.n = Pushed(s)[p] + 1  BY <3>4, <3>5 DEF m
    <3>9. Pushed(s)' \in [Publisher -> Nat]
      <4>1. \A x \in Publisher : Pushed(s)'[x] \in Nat  BY <3>2, <3>4, <3>5
      <4> QED  BY <3>6, <4>1
    <3> HIDE DEF q
    <3>10. InOrder(Append(q, m), taken[s], Pushed(s)')
      BY <1>2, <3>1, <3>2, <3>7, <3>8, <3>9, InOrderAppend
    <3> QED  BY <1>1, <3>3, <3>10
  <2>3. ASSUME NEW x \in Sub \ {s}
        PROVE  /\ owner'[x] = owner[x] /\ held'[x] \o queue'[x] = held[x] \o queue[x]
               /\ taken'[x] = taken[x] /\ Pushed(x)' = Pushed(x)
    BY <1>1, <1>3, <2>1
  <2>4. owner'[s] = owner[s]  BY <1>1
  <2> QED  BY <2>2, <2>3, <2>4, FlightKept
<1> QED  BY <1>5, <1>6, <1>7, <1>8

LEMMA PushedKept ==
  ASSUME UNCHANGED <<sent, pushing>>, NEW s
  PROVE  Pushed(s)' = Pushed(s)
BY DEF Pushed

\* A step inside the subscriptions that are not read, or that moves what is on its way
\* from the queue to the loop, is no step of the delivery.
LEMMA QuietOK ==
  ASSUME FlightOK, UNCHANGED <<sent, taken, pushing>>,
         \A s \in Sub : owner'[s] = "reading" <=> owner[s] = "reading",
         \A s \in Sub : owner[s] = "reading" =>
            held'[s] \o queue'[s] = held[s] \o queue[s]
  PROVE  FlightOK' /\ UNCHANGED D!vars
<1>1. FlightOK'
  <2> SUFFICES ASSUME NEW s \in Sub, owner'[s] = "reading"
               PROVE  InOrder(held'[s] \o queue'[s], taken'[s], Pushed(s)')
    BY DEF FlightOK
  <2>1. Pushed(s)' = Pushed(s)  BY PushedKept
  <2>2. InOrder(held[s] \o queue[s], taken[s], Pushed(s))  BY DEF FlightOK
  <2> QED  BY <2>1, <2>2
<1>2. UNCHANGED D!vars  BY DEF D!vars
<1> QED  BY <1>1, <1>2

LEMMA SubscribeOK ==
  ASSUME IInv, NEW s \in Sub, Subscribe(s)
  PROVE  IInv' /\ D!Subscribe(s)
<1> USE DEF IInv
<1>1. /\ owner[s] = "none" /\ \A p \in Publisher : pushing[p] = {}
      /\ subs' = subs \cup {s}
      /\ taken' = [taken EXCEPT ![s] = sent]
      /\ loop' = [loop EXCEPT ![s] = "select"]
      /\ owner' = [owner EXCEPT ![s] = "reading"]
      /\ UNCHANGED <<sent, pushing, queue, closed, held, closer>>
  BY DEF Subscribe, Exclusive
<1>2. /\ sent \in [Publisher -> Nat] /\ taken \in [Sub -> [Publisher -> Nat]]
      /\ loop \in [Sub -> LoopPlaces] /\ owner \in [Sub -> OwnerPlaces]
      /\ closer \in [Sub -> CloserPlaces] /\ pushing \in [Publisher -> SUBSET subs]
  BY DEF TypeOK
<1>3. /\ taken' \in [Sub -> [Publisher -> Nat]] /\ taken'[s] = sent
      /\ loop' \in [Sub -> LoopPlaces] /\ loop'[s] = "select"
      /\ owner' \in [Sub -> OwnerPlaces] /\ owner'[s] = "reading"
      /\ \A x \in Sub \ {s} :
            taken'[x] = taken[x] /\ loop'[x] = loop[x] /\ owner'[x] = owner[x]
  BY <1>1, <1>2 DEF LoopPlaces, OwnerPlaces
<1>4. s \notin subs /\ loop[s] = "none" /\ queue[s] = <<>> /\ Len(held[s]) = 0
  BY <1>1 DEF MadeOK, TypeOK
<1>5. closer[s] = "none" /\ s \notin closed  BY <1>1 DEF CloseOrder
<1>6. TypeOK'
  <2>1. \A x \in Sub : Len(held'[x]) = IF loop'[x] = "send" THEN 1 ELSE 0
    BY <1>1, <1>3, <1>4 DEF TypeOK
  <2>2. pushing' \in [Publisher -> SUBSET subs']  BY <1>1, <1>2
  <2> QED  BY <1>1, <1>3, <2>1, <2>2 DEF TypeOK
<1>7. CloseOrder'  BY <1>1, <1>3, <1>4, <1>5 DEF CloseOrder
<1>8. MadeOK'  BY <1>1, <1>3, <1>5 DEF MadeOK
<1>9. FlightOK'
  <2>1. Pushed(s)' = sent  BY <1>1, <1>2 DEF Pushed
  <2>2. held[s] \o queue[s] = <<>>
    <3>1. held[s] \o queue[s] = queue[s]  BY <1>4, FlightTyped
    <3> QED  BY <1>4, <3>1
  <2>3. InOrder(held'[s] \o queue'[s], taken'[s], Pushed(s)')
    BY <1>1, <1>2, <1>3, <2>1, <2>2, InOrderEmpty
  <2>4. \A x \in Sub \ {s} : Pushed(x)' = Pushed(x)  BY <1>1, PushedKept
  <2>5. ASSUME NEW x \in Sub \ {s}
        PROVE  /\ owner'[x] = owner[x] /\ held'[x] \o queue'[x] = held[x] \o queue[x]
               /\ taken'[x] = taken[x] /\ Pushed(x)' = Pushed(x)
    BY <1>1, <1>3, <2>4
  <2> QED  BY <2>3, <2>5, FlightKept
<1>10. D!Subscribe(s)
  <2>1. {x \in Sub : owner'[x] = "reading"} = {x \in Sub : owner[x] = "reading"} \cup {s}
    BY <1>1, <1>3
  <2> QED  BY <1>1, <2>1 DEF D!Subscribe
<1> QED  BY <1>6, <1>7, <1>8, <1>9, <1>10

LEMMA GcOK ==
  ASSUME IInv, Gc
  PROVE  IInv' /\ UNCHANGED D!vars
<1> USE DEF IInv
<1>1. /\ \A p \in Publisher : pushing[p] = {}
      /\ subs' = subs \ closed
      /\ UNCHANGED <<sent, taken, pushing, queue, closed, held, loop, owner, closer>>
  BY DEF Gc, Exclusive, Collectable
<1>2. TypeOK'
  <2>1. pushing' \in [Publisher -> SUBSET subs']  BY <1>1 DEF TypeOK
  <2> QED  BY <1>1, <2>1 DEF TypeOK
<1>3. CloseOrder' /\ MadeOK'  BY <1>1 DEF CloseOrder, MadeOK
<1> QED  BY <1>1, <1>2, <1>3, QuietOK

-----------------------------------------------------------------------------
(* The loop's steps *)

LEMMA LoopDefaultOK ==
  ASSUME IInv, NEW s \in Sub, LoopDefault(s)
  PROVE  IInv' /\ UNCHANGED D!vars
<1> USE DEF IInv
<1>1. /\ loop[s] = "select" /\ loop' = [loop EXCEPT ![s] = "drain"]
      /\ UNCHANGED <<sent, taken, pushing, subs, queue, closed, held, owner, closer>>
  BY DEF LoopDefault
<1>2. /\ loop' \in [Sub -> LoopPlaces] /\ loop'[s] = "drain"
      /\ \A x \in Sub \ {s} : loop'[x] = loop[x]
  BY <1>1 DEF TypeOK, LoopPlaces
<1>3. TypeOK'
  <2>1. \A x \in Sub : Len(held'[x]) = IF loop'[x] = "send" THEN 1 ELSE 0
    BY <1>1, <1>2 DEF TypeOK
  <2> QED  BY <1>1, <1>2, <2>1 DEF TypeOK
<1>4. CloseOrder' /\ MadeOK'  BY <1>1, <1>2 DEF CloseOrder, MadeOK
<1> QED  BY <1>1, <1>3, <1>4, QuietOK

LEMMA LoopPopOK ==
  ASSUME IInv, NEW s \in Sub, LoopPop(s)
  PROVE  IInv' /\ UNCHANGED D!vars
<1> USE DEF IInv
<1>1. /\ loop[s] = "drain"
      /\ UNCHANGED <<sent, taken, pushing, subs, closed, owner, closer>>
  BY DEF LoopPop
<1>2. /\ queue \in [Sub -> Seq(Message)] /\ held \in [Sub -> Seq(Message)]
      /\ queue[s] \in Seq(Message) /\ held[s] \in Seq(Message) /\ Len(held[s]) = 0
      /\ loop \in [Sub -> LoopPlaces]
  BY <1>1 DEF TypeOK
<1>3. CASE queue[s] = <<>>
  <2>1. loop' = [loop EXCEPT ![s] = "select"] /\ UNCHANGED <<queue, held>>
    BY <1>3 DEF LoopPop
  <2>2. /\ loop' \in [Sub -> LoopPlaces] /\ loop'[s] = "select"
        /\ \A x \in Sub \ {s} : loop'[x] = loop[x]
    BY <1>2, <2>1 DEF LoopPlaces
  <2>3. TypeOK'
    <3>1. \A x \in Sub : Len(held'[x]) = IF loop'[x] = "send" THEN 1 ELSE 0
      BY <1>1, <1>2, <2>1, <2>2 DEF TypeOK
    <3> QED  BY <1>1, <2>1, <2>2, <3>1 DEF TypeOK
  <2>4. CloseOrder' /\ MadeOK'  BY <1>1, <2>1, <2>2 DEF CloseOrder, MadeOK
  <2> QED  BY <1>1, <2>1, <2>3, <2>4, QuietOK
<1>4. CASE queue[s] # <<>>
  <2> DEFINE h == Head(queue[s])
             r == Tail(queue[s])
  <2>1. /\ held' = [held EXCEPT ![s] = <<h>>] /\ queue' = [queue EXCEPT ![s] = r]
        /\ loop' = [loop EXCEPT ![s] = "send"]
    BY <1>4 DEF LoopPop
  <2>2. h \in Message /\ r \in Seq(Message)  BY <1>2, <1>4, HeadTailProperties
  <2>3. <<h>> \o r = queue[s]  BY <1>2, <1>4, ConcatHead
  <2> HIDE DEF h, r
  <2>4. <<h>> \in Seq(Message) /\ Len(<<h>>) = 1  BY <2>2
  <2>5. /\ loop' \in [Sub -> LoopPlaces] /\ loop'[s] = "send"
        /\ held' \in [Sub -> Seq(Message)] /\ held'[s] = <<h>>
        /\ queue' \in [Sub -> Seq(Message)] /\ queue'[s] = r
        /\ \A x \in Sub \ {s} :
              loop'[x] = loop[x] /\ held'[x] = held[x] /\ queue'[x] = queue[x]
    BY <1>2, <2>1, <2>2, <2>4 DEF LoopPlaces
  <2>6. s \notin closed  BY <1>4 DEF TypeOK
  <2>7. TypeOK'
    <3>1. \A x \in Sub : Len(held'[x]) = IF loop'[x] = "send" THEN 1 ELSE 0
      BY <2>4, <2>5 DEF TypeOK
    <3>2. \A x \in Sub : x \in closed' => queue'[x] = <<>>
      BY <1>1, <2>5, <2>6 DEF TypeOK
    <3> QED  BY <1>1, <2>5, <3>1, <3>2 DEF TypeOK
  <2>8. CloseOrder'  BY <1>1, <2>5 DEF CloseOrder
  <2>9. MadeOK'  BY <1>1, <2>5 DEF MadeOK
  <2>10. \A x \in Sub : held'[x] \o queue'[x] = held[x] \o queue[x]
    <3>1. held[s] \o queue[s] = queue[s]  BY <1>1, FlightTyped
    <3> QED  BY <2>3, <2>5, <3>1
  <2> QED  BY <1>1, <2>7, <2>8, <2>9, <2>10, QuietOK
<1> QED  BY <1>3, <1>4

LEMMA LoopToldOK ==
  ASSUME IInv, NEW s \in Sub, LoopTold(s)
  PROVE  IInv' /\ UNCHANGED D!vars
<1> USE DEF IInv
<1>1. /\ loop[s] = "select" /\ closer[s] = "sending"
      /\ loop' = [loop EXCEPT ![s] = "told"]
      /\ closer' = [closer EXCEPT ![s] = "done"]
      /\ UNCHANGED <<sent, taken, pushing, subs, queue, closed, held, owner>>
  BY DEF LoopTold
<1>2. /\ loop' \in [Sub -> LoopPlaces] /\ loop'[s] = "told"
      /\ closer' \in [Sub -> CloserPlaces] /\ closer'[s] = "done"
      /\ \A x \in Sub \ {s} : loop'[x] = loop[x] /\ closer'[x] = closer[x]
  BY <1>1 DEF TypeOK, LoopPlaces, CloserPlaces
<1>3. TypeOK'
  <2>1. \A x \in Sub : Len(held'[x]) = IF loop'[x] = "send" THEN 1 ELSE 0
    BY <1>1, <1>2 DEF TypeOK
  <2> QED  BY <1>1, <1>2, <2>1 DEF TypeOK
<1>4. owner[s] \in {"closing", "closed"}  BY <1>1 DEF CloseOrder
<1>5. CloseOrder'  BY <1>1, <1>2, <1>4 DEF CloseOrder
<1>6. MadeOK'  BY <1>1, <1>2, <1>4 DEF MadeOK
<1> QED  BY <1>1, <1>3, <1>5, <1>6, QuietOK

\* Only a queue that its owner no longer reads is closed.
LEMMA CloseQueueOK ==
  ASSUME TypeOK, NEW s \in Sub, CloseQueue(s)
  PROVE  /\ closed' \subseteq Sub /\ queue' \in [Sub -> Seq(Message)]
         /\ queue'[s] = <<>> /\ closed' = closed \cup {s}
         /\ \A x \in Sub \ {s} : queue'[x] = queue[x]
         /\ \A x \in closed' : queue'[x] = <<>>
<1>1. closed' = closed \cup {s} /\ queue' = [queue EXCEPT ![s] = <<>>]  BY DEF CloseQueue
<1>2. <<>> \in Seq(Message)  OBVIOUS
<1> QED  BY <1>1, <1>2 DEF TypeOK

LEMMA LoopReturnOK ==
  ASSUME IInv, NEW s \in Sub, LoopReturn(s)
  PROVE  IInv' /\ UNCHANGED D!vars
<1> USE DEF IInv
<1>1. /\ loop[s] = "told" /\ loop' = [loop EXCEPT ![s] = "returned"]
      /\ CloseQueue(s)
      /\ UNCHANGED <<sent, taken, pushing, subs, held, owner, closer>>
  BY DEF LoopReturn
<1>2. /\ loop' \in [Sub -> LoopPlaces] /\ loop'[s] = "returned"
      /\ \A x \in Sub \ {s} : loop'[x] = loop[x]
  BY <1>1 DEF TypeOK, LoopPlaces
<1>3. /\ closed' \subseteq Sub /\ queue' \in [Sub -> Seq(Message)]
      /\ queue'[s] = <<>> /\ closed' = closed \cup {s}
      /\ \A x \in Sub \ {s} : queue'[x] = queue[x]
      /\ \A x \in closed' : queue'[x] = <<>>
  BY <1>1, CloseQueueOK
<1>4. owner[s] \in {"closing", "closed"}  BY <1>1 DEF CloseOrder
<1>5. TypeOK'
  <2>1. \A x \in Sub : Len(held'[x]) = IF loop'[x] = "send" THEN 1 ELSE 0
    BY <1>1, <1>2 DEF TypeOK
  <2> QED  BY <1>1, <1>2, <1>3, <2>1 DEF TypeOK
<1>6. CloseOrder'  BY <1>1, <1>2, <1>3, <1>4 DEF CloseOrder
<1>7. MadeOK'  BY <1>1, <1>2, <1>3, <1>4 DEF MadeOK
<1> QED  BY <1>1, <1>3, <1>4, <1>5, <1>6, <1>7, QuietOK

-----------------------------------------------------------------------------
(* The owner's steps *)

LEMMA ReceiveOK ==
  ASSUME IInv, NEW s \in Sub, Receive(s)
  PROVE  IInv' /\ \E p \in Publisher : D!Take(s, p)
<1> DEFINE m == held[s][1]
           q == held[s] \o queue[s]
           last == taken[s]
           after == [last EXCEPT ![m.from] = m.n]
<1> USE DEF IInv
<1>1. /\ loop[s] = "send" /\ owner[s] = "reading"
      /\ loop' = [loop EXCEPT ![s] = "drain"] /\ held' = [held EXCEPT ![s] = <<>>]
      /\ UNCHANGED <<sent, pushing, subs, queue, closed, owner, closer>>
  BY DEF Receive, Sent
<1>2. taken' = [taken EXCEPT ![s][m.from] = m.n]  BY DEF Receive
<1>3. /\ sent \in [Publisher -> Nat] /\ taken \in [Sub -> [Publisher -> Nat]]
      /\ held \in [Sub -> Seq(Message)] /\ held[s] \in Seq(Message) /\ Len(held[s]) = 1
      /\ queue[s] \in Seq(Message) /\ q \in Seq(Message)
      /\ last \in [Publisher -> Nat] /\ Pushed(s) \in [Publisher -> Nat]
  BY <1>1, FlightTyped DEF TypeOK
<1>4. held[s] = <<m>> /\ m \in Message
  <2> DEFINE h == held[s]
  <2>1. h \in Seq(Message) /\ Len(h) = 1  BY <1>3
  <2> HIDE DEF h
  <2>2. h = <<h[1]>> /\ h[1] \in Message  BY <2>1
  <2> QED  BY <2>2 DEF h
<1>5. m.from \in Publisher /\ m.n \in Nat  BY <1>4 DEF Message
<1>6. Head(q) = m /\ Tail(q) = queue[s] /\ q # <<>>
  <2> DEFINE n == m
             qs == queue[s]
  <2>1. n \in Message /\ qs \in Seq(Message)  BY <1>3, <1>4
  <2>2. q = <<n>> \o qs  BY <1>4
  <2> HIDE DEF n, qs, q
  <2>3. Head(<<n>> \o qs) = n /\ Tail(<<n>> \o qs) = qs /\ <<n>> \o qs # <<>>
    BY <2>1
  <2> QED  BY <2>2, <2>3 DEF n, qs
<1>7. InOrder(q, last, Pushed(s))  BY <1>1 DEF FlightOK
<1>8. /\ m.n = last[m.from] + 1 /\ m.n <= Pushed(s)[m.from]
      /\ InOrder(queue[s], after, Pushed(s))
  <2> HIDE DEF m, q, last
  <2> QED  BY <1>3, <1>6, <1>7, InOrderTail
<1>9. /\ after \in [Publisher -> Nat] /\ after[m.from] = m.n
      /\ taken' = [taken EXCEPT ![s] = after]
  <2>1. after \in [Publisher -> Nat] /\ after[m.from] = m.n  BY <1>3, <1>5
  <2>2. taken' = [taken EXCEPT ![s] = after]  BY <1>2, <1>3
  <2> QED  BY <2>1, <2>2
<1> HIDE DEF m, q, last, after
<1>10. /\ taken' \in [Sub -> [Publisher -> Nat]] /\ taken'[s] = after
       /\ loop' \in [Sub -> LoopPlaces] /\ loop'[s] = "drain"
       /\ held' \in [Sub -> Seq(Message)] /\ held'[s] = <<>>
       /\ \A x \in Sub \ {s} :
             taken'[x] = taken[x] /\ loop'[x] = loop[x] /\ held'[x] = held[x]
  BY <1>1, <1>3, <1>9 DEF TypeOK, LoopPlaces
<1>11. TypeOK'
  <2>1. Len(<<>>) = 0  OBVIOUS
  <2>2. \A x \in Sub : Len(held'[x]) = IF loop'[x] = "send" THEN 1 ELSE 0
    BY <1>10, <2>1 DEF TypeOK
  <2> QED  BY <1>1, <1>10, <2>2 DEF TypeOK
<1>12. CloseOrder'  BY <1>1, <1>10 DEF CloseOrder
<1>13. MadeOK'  BY <1>1, <1>10 DEF MadeOK
<1>14. FlightOK'
  <2>1. Pushed(s)' = Pushed(s) /\ \A x \in Sub \ {s} : Pushed(x)' = Pushed(x)
    BY <1>1, PushedKept
  <2>2. held'[s] \o queue'[s] = queue[s]  BY <1>1, <1>3, <1>10, ConcatEmptySeq
  <2>3. InOrder(held'[s] \o queue'[s], taken'[s], Pushed(s)')
    BY <1>8, <1>10, <2>1, <2>2
  <2>4. ASSUME NEW x \in Sub \ {s}
        PROVE  /\ owner'[x] = owner[x] /\ held'[x] \o queue'[x] = held[x] \o queue[x]
               /\ taken'[x] = taken[x] /\ Pushed(x)' = Pushed(x)
    BY <1>1, <1>10, <2>1
  <2> QED  BY <2>3, <2>4, FlightKept
<1>15. D!Take(s, m.from)
  <2> DEFINE p == m.from
             was == last[p]
             pub == sent[p]
             psd == Pushed(s)[p]
  <2>1. was \in Nat /\ pub \in Nat /\ psd \in Nat /\ m.n = was + 1 /\ m.n <= psd
    BY <1>3, <1>5, <1>8
  <2>2. psd <= pub
    <3>1. psd = IF s \in pushing[p] THEN pub - 1 ELSE pub  BY <1>5 DEF Pushed
    <3> HIDE DEF psd, pub
    <3> QED  BY <2>1, <3>1
  <2> HIDE DEF psd, pub, was
  <2>3. was < pub  BY <2>1, <2>2
  <2>4. taken[s][p] < sent[p]  BY <2>3 DEF was, pub, last
  <2>5. after = [last EXCEPT ![p] = was + 1]  BY <2>1 DEF after
  <2>6. taken' = [taken EXCEPT ![s][p] = @ + 1]
    BY <1>3, <1>9, <2>5 DEF last, was
  <2> QED  BY <1>1, <2>4, <2>6 DEF D!Take
<1> QED  BY <1>5, <1>11, <1>12, <1>13, <1>14, <1>15

LEMMA StartCloseOK ==
  ASSUME IInv, NEW s \in Sub, StartClose(s)
  PROVE  IInv' /\ D!Close(s)
<1> USE DEF IInv
<1>1. /\ owner[s] = "reading"
      /\ owner' = [owner EXCEPT ![s] = "closing"]
      /\ closer' = [closer EXCEPT ![s] = "started"]
      /\ UNCHANGED <<sent, taken, pushing, subs, queue, closed, held, loop>>
  BY DEF StartClose
<1>2. /\ owner' \in [Sub -> OwnerPlaces] /\ owner'[s] = "closing"
      /\ closer' \in [Sub -> CloserPlaces] /\ closer'[s] = "started"
      /\ \A x \in Sub \ {s} : owner'[x] = owner[x] /\ closer'[x] = closer[x]
  BY <1>1 DEF TypeOK, OwnerPlaces, CloserPlaces
<1>3. TypeOK'  BY <1>1, <1>2 DEF TypeOK
<1>4. loop[s] \in {"select", "drain", "send"}  BY <1>1 DEF MadeOK
<1>5. CloseOrder'  BY <1>1, <1>2, <1>4 DEF CloseOrder
<1>6. MadeOK'  BY <1>1, <1>2 DEF MadeOK
<1>7. FlightOK'
  <2> SUFFICES ASSUME NEW x \in Sub, owner'[x] = "reading"
               PROVE  InOrder(held'[x] \o queue'[x], taken'[x], Pushed(x)')
    BY DEF FlightOK
  <2>1. owner[x] = "reading"  BY <1>2
  <2>2. Pushed(x)' = Pushed(x)  BY <1>1, PushedKept
  <2> QED  BY <1>1, <2>1, <2>2 DEF FlightOK
<1>8. D!Close(s)
  <2>1. {x \in Sub : owner'[x] = "reading"} = {x \in Sub : owner[x] = "reading"} \ {s}
    BY <1>2
  <2> QED  BY <1>1, <2>1 DEF D!Close
<1> QED  BY <1>3, <1>5, <1>6, <1>7, <1>8

LEMMA CloserSendsOK ==
  ASSUME IInv, NEW s \in Sub, CloserSends(s)
  PROVE  IInv' /\ UNCHANGED D!vars
<1> USE DEF IInv
<1>1. /\ closer[s] = "started" /\ closer' = [closer EXCEPT ![s] = "sending"]
      /\ UNCHANGED <<sent, taken, pushing, subs, queue, closed, held, loop, owner>>
  BY DEF CloserSends
<1>2. /\ closer' \in [Sub -> CloserPlaces] /\ closer'[s] = "sending"
      /\ \A x \in Sub \ {s} : closer'[x] = closer[x]
  BY <1>1 DEF TypeOK, CloserPlaces
<1>3. TypeOK'  BY <1>1, <1>2 DEF TypeOK
<1>4. CloseOrder'  BY <1>1, <1>2 DEF CloseOrder
<1>5. MadeOK'  BY <1>1 DEF MadeOK
<1> QED  BY <1>1, <1>3, <1>4, <1>5, QuietOK

LEMMA DiscardOK ==
  ASSUME IInv, NEW s \in Sub, Discard(s)
  PROVE  IInv' /\ UNCHANGED D!vars
<1> USE DEF IInv
<1>1. /\ loop[s] = "send" /\ owner[s] = "closing"
      /\ loop' = [loop EXCEPT ![s] = "drain"] /\ held' = [held EXCEPT ![s] = <<>>]
      /\ UNCHANGED <<sent, taken, pushing, subs, queue, closed, owner, closer>>
  BY DEF Discard, Sent
<1>2. <<>> \in Seq(Message) /\ Len(<<>>) = 0  OBVIOUS
<1>3. /\ loop' \in [Sub -> LoopPlaces] /\ loop'[s] = "drain"
      /\ held' \in [Sub -> Seq(Message)] /\ held'[s] = <<>>
      /\ \A x \in Sub \ {s} : loop'[x] = loop[x] /\ held'[x] = held[x]
  BY <1>1, <1>2 DEF TypeOK, LoopPlaces
<1>4. TypeOK'
  <2>1. \A x \in Sub : Len(held'[x]) = IF loop'[x] = "send" THEN 1 ELSE 0
    BY <1>2, <1>3 DEF TypeOK
  <2> QED  BY <1>1, <1>3, <2>1 DEF TypeOK
<1>5. CloseOrder'  BY <1>1, <1>3 DEF CloseOrder
<1>6. MadeOK'  BY <1>1, <1>3 DEF MadeOK
<1>7. \A x \in Sub : owner[x] = "reading" => held'[x] \o queue'[x] = held[x] \o queue[x]
  BY <1>1, <1>3
<1> QED  BY <1>1, <1>4, <1>5, <1>6, <1>7, QuietOK

LEMMA EndCloseOK ==
  ASSUME IInv, NEW s \in Sub, EndClose(s)
  PROVE  IInv' /\ UNCHANGED D!vars
<1> USE DEF IInv
<1>1. /\ owner[s] = "closing" /\ closer[s] = "done"
      /\ owner' = [owner EXCEPT ![s] = "closed"]
      /\ CloseQueue(s)
      /\ UNCHANGED <<sent, taken, pushing, subs, held, loop, closer>>
  BY DEF EndClose, MayCloseChannel
<1>2. /\ owner' \in [Sub -> OwnerPlaces] /\ owner'[s] = "closed"
      /\ \A x \in Sub \ {s} : owner'[x] = owner[x]
  BY <1>1 DEF TypeOK, OwnerPlaces
<1>3. /\ closed' \subseteq Sub /\ queue' \in [Sub -> Seq(Message)]
      /\ queue'[s] = <<>> /\ closed' = closed \cup {s}
      /\ \A x \in Sub \ {s} : queue'[x] = queue[x]
      /\ \A x \in closed' : queue'[x] = <<>>
  BY <1>1, CloseQueueOK
<1>4. TypeOK'  BY <1>1, <1>2, <1>3 DEF TypeOK
<1>5. CloseOrder'  BY <1>1, <1>2, <1>3 DEF CloseOrder
<1>6. MadeOK'  BY <1>1, <1>2, <1>3 DEF MadeOK
<1>7. \A x \in Sub : owner'[x] = "reading" <=> owner[x] = "reading"  BY <1>1, <1>2
<1>8. FlightOK' /\ UNCHANGED D!vars
  <2>1. UNCHANGED <<sent, taken, pushing>>  BY <1>1
  <2>2. \A x \in Sub : owner[x] = "reading" =>
           held'[x] \o queue'[x] = held[x] \o queue[x]
    BY <1>1, <1>3
  <2> QED  BY <1>7, <2>1, <2>2, QuietOK
<1> QED  BY <1>4, <1>5, <1>6, <1>8

-----------------------------------------------------------------------------
(* The theorems *)

LEMMA StutterOK ==
  ASSUME IInv, UNCHANGED vars
  PROVE  IInv' /\ UNCHANGED D!vars
<1> USE DEF IInv, vars
<1>1. TypeOK' /\ CloseOrder' /\ MadeOK'  BY DEF TypeOK, CloseOrder, MadeOK
<1> QED  BY <1>1, QuietOK

LEMMA StepOK == IInv /\ [Next]_vars => IInv' /\ [D!Next]_(D!vars)
<1> SUFFICES ASSUME IInv, [Next]_vars  PROVE IInv' /\ [D!Next]_(D!vars)
  OBVIOUS
<1>1. ASSUME NEW p \in Publisher, StartPub(p)  PROVE IInv' /\ D!Next
  BY <1>1, StartPubOK DEF D!Next
<1>2. ASSUME NEW p \in Publisher, NEW s \in Sub, Push(p, s)
      PROVE  IInv' /\ UNCHANGED D!vars
  <2>1. UNCHANGED D!vars  BY <1>2 DEF Push, D!vars
  <2> QED  BY <1>2, <2>1, PushOK
<1>3. ASSUME NEW s \in Sub, Subscribe(s)  PROVE IInv' /\ D!Next
  BY <1>3, SubscribeOK DEF D!Next
<1>4. ASSUME NEW s \in Sub, Receive(s)  PROVE IInv' /\ D!Next
  BY <1>4, ReceiveOK DEF D!Next
<1>5. ASSUME NEW s \in Sub, StartClose(s)  PROVE IInv' /\ D!Next
  BY <1>5, StartCloseOK DEF D!Next
<1>6. ASSUME NEW s \in Sub, LoopStep(s)  PROVE IInv' /\ UNCHANGED D!vars
  <2>1. CASE LoopDefault(s)  BY <1>6, <2>1, LoopDefaultOK
  <2>2. CASE LoopPop(s)  BY <1>6, <2>2, LoopPopOK
  <2>3. CASE LoopTold(s)  BY <1>6, <2>3, LoopToldOK
  <2>4. CASE LoopReturn(s)  BY <1>6, <2>4, LoopReturnOK
  <2> QED  BY <1>6, <2>1, <2>2, <2>3, <2>4 DEF LoopStep
<1>7. ASSUME NEW s \in Sub, CloseStep(s)  PROVE IInv' /\ UNCHANGED D!vars
  BY <1>7, CloserSendsOK, DiscardOK, EndCloseOK DEF CloseStep
<1>8. CASE Gc  BY <1>8, GcOK
<1>9. CASE UNCHANGED vars  BY <1>9, StutterOK
<1> QED  BY <1>1, <1>2, <1>3, <1>4, <1>5, <1>6, <1>7, <1>8, <1>9 DEF Next

LEMMA Inductive == Spec => []IInv
<1>1. IInv /\ [Next]_vars => IInv'  BY StepOK
<1> QED  BY <1>1, InitInv, PTL DEF Spec

\* Every variable of the topic stays in its type; a closed queue stays empty, and the
\* loop of a subscription holds a message exactly while it is sending (topic.go, SubCh.loop).
THEOREM TypeCorrect == Spec => []TypeOK
<1>1. IInv => TypeOK  BY DEF IInv
<1> QED  BY <1>1, Inductive, PTL

\* No loop ever sends on a channel that Close has closed (SubCh.Close, SubCh.loop).
THEOREM NeverSendsOnClosedChannel == Spec => []NoSendOnClosedChannel
<1>1. IInv => NoSendOnClosedChannel
  BY DEF IInv, CloseOrder, NoSendOnClosedChannel
<1> QED  BY <1>1, Inductive, PTL

\* A topic is a Delivery: what comes out of a subscription is, for each publisher, every
\* message published while the subscription is open, once and in order, whatever the
\* publishers, the loop, gc and Close do in between (Topic.Pub, SyncQueue, SubCh).
THEOREM DeliveryImplemented == Spec => ImplementsDelivery
<1>1. Init => D!Init
  <2>1. Init => {s \in Sub : owner[s] = "reading"} = {}  BY DEF Init
  <2> QED  BY <2>1 DEF Init, D!Init
<1>2. IInv /\ [Next]_vars => [D!Next]_(D!vars)  BY StepOK
<1> QED  BY <1>1, <1>2, Inductive, PTL DEF Spec, ImplementsDelivery, D!Spec

=============================================================================
