----------------------------- MODULE SyncProofs -----------------------------
(***************************************************************************)
(* Two honest ends agree on every message of a sync, for any two nodes and *)
(* any chains, whatever else the nodes store meanwhile; and what a sync    *)
(* hands over can be stored, for chains of balanced trees in which nothing *)
(* depends on a tx of its own block or on a lower tree.                    *)
(***************************************************************************)
EXTENDS SyncProperties, EntitiesProofs, SequenceTheorems

-----------------------------------------------------------------------------
(* The inductive invariant: where the two ends are together *)

\* What a node has is complete and was verified; what it announced it has.
NodesOK ==
    \A p \in Peer :
        /\ Closed(known[p]) /\ Zero \in known[p]
        /\ \A b \in (Block \ {Zero}) \cap known[p] : BlockOf[b].headerOk
        /\ ToSet(validated[p]) \subseteq known[p]

\* No part of a walk is left from an earlier sync.
Fresh(p) == loc[p].needed = <<>> /\ loc[p].got = 0

Resting == \A p \in Peer : pc[p] = "idle" /\ inbox[p] = <<>>

\* What an end that has read the other's head wrote.
Answered(p) == Answer(IF pc[p] = "cancelled" THEN "cancel" ELSE "continue")

\* An end that offers a sync knows that the other's work differs.
HeardWork(p) ==
    /\ loc[p].theirWork = WorkOf[curHead[Other(p)]]
    /\ loc[p].theirWork # WorkOf[curHead[p]]

\* An end has to read the other's head or, if it has, the answer.
Greets(p) ==
    LET q == Other(p) IN
    /\ Fresh(p)
    /\ \/ pc[p] = "hello"
       \/ pc[p] = "cancelled"
       \/ pc[p] = "offered" /\ HeardWork(p)
    /\ inbox[p] =
         IF pc[p] = "hello"
         THEN IF pc[q] = "hello" THEN <<Hello(q)>> ELSE <<Hello(q), Answered(q)>>
         ELSE IF pc[q] = "hello" THEN <<>> ELSE <<Answered(q)>>

Greeting == \A p \in Peer : Greets(p)

\* One end has cancelled or read a cancel; the other will.
Leaving(p) ==
    LET q == Other(p) IN
    /\ pc[p] = "idle" /\ inbox[p] = <<>>
    /\ \/ pc[q] = "offered" /\ inbox[q] = <<Answer("cancel")>>
       \/ pc[q] = "cancelled" /\ \E a \in {"cancel", "continue"} : inbox[q] = <<Answer(a)>>

\* s has more work than the other end, which is what the roles follow from.
Ahead(s) == WorkOf[curHead[Other(s)]] < WorkOf[curHead[s]]

Deciding(s) ==
    LET r == Other(s) IN
    /\ Ahead(s) /\ Fresh(s) /\ Fresh(r)
    /\ \/ /\ pc[s] = "offered" /\ HeardWork(s) /\ pc[r] = "recvRole"
          /\ inbox[s] = <<Answer("continue"), Role("recv")>> /\ inbox[r] = <<>>
       \/ /\ pc[s] = "sendRole" /\ pc[r] = "offered" /\ HeardWork(r)
          /\ inbox[s] = <<>> /\ inbox[r] = <<Answer("continue"), Role("send")>>
       \/ /\ pc[s] = "sendRole" /\ pc[r] = "recvRole"
          /\ inbox[s] = <<Role("recv")>> /\ inbox[r] = <<Role("send")>>
       \/ /\ pc[s] = "sendRole" /\ pc[r] = "recvWalk"
          /\ inbox[s] = <<Role("recv")>> /\ inbox[r] = <<>>

\* The blocks bs lead from h down to at and are in S, and no block is there twice, so
\* their works add up.
Path(h, bs, at, S) ==
    /\ at \in S
    /\ \A i \in DOMAIN bs : bs[i] \in S /\ at \in Ancestors[BlockOf[bs[i]].prev]
    /\ \A i \in 1..(Len(bs) - 1) : BlockOf[bs[i]].prev = bs[i + 1]
    /\ bs # <<>> => BlockOf[bs[Len(bs)]].prev = at
    /\ WorkOf[h] = WorkOf[at] + WorkSum(ToSet(bs))

\* The sender has noted the blocks from its head to where it is.
PathOK(s) == Path(curHead[s], loc[s].needed, loc[s].lcaId, known[s])

SameNeeded(s) == loc[Other(s)].needed = loc[s].needed

Walking(s) ==
    LET r == Other(s)
        at == loc[s].lcaId
        bs == loc[s].needed
    IN
    /\ pc[s] = "sendWalk" /\ PathOK(s)
    /\ \/ /\ pc[r] = "recvRole" /\ Ahead(s) /\ Fresh(r) /\ bs = <<>>
          /\ inbox[s] = <<>> /\ inbox[r] = <<Role("send"), Id(at)>>
       \/ /\ pc[r] = "recvWalk" /\ Ahead(s) /\ SameNeeded(s) /\ loc[r].got = 0
          /\ inbox[s] = <<>> /\ inbox[r] = <<Id(at)>>
       \/ /\ pc[r] = "recvWalk" /\ Ahead(s) /\ loc[r].got = 0
          /\ at # Zero /\ loc[r].needed = Append(bs, at)
          /\ inbox[s] = <<Bool(FALSE)>> /\ inbox[r] = <<>>
       \/ /\ pc[r] = "recvBlocks" /\ Ahead(s) /\ SameNeeded(s) /\ loc[r].got = 0
          /\ bs # <<>> /\ loc[r].lcaId = at
          /\ inbox[s] = <<Bool(TRUE)>> /\ inbox[r] = <<>>
       \/ /\ pc[r] = "idle" /\ bs = <<>>
          /\ inbox[s] = <<Bool(TRUE)>> /\ inbox[r] = <<>>

\* The needed blocks from the one after got on.
BlocksFrom(bs, got) == [i \in 1..(Len(bs) - got) |-> BlockMsg(bs[got + i])]

SendingBlocks(s) ==
    LET r == Other(s)
        bs == loc[s].needed
    IN
    /\ pc[s] = "verdict" /\ pc[r] = "recvBlocks"
    /\ PathOK(s) /\ Ahead(s) /\ SameNeeded(s)
    /\ loc[r].got < Len(bs) /\ loc[r].lcaId = loc[s].lcaId
    /\ inbox[s] = <<>> /\ inbox[r] = BlocksFrom(bs, loc[r].got)

\* The sender has all that the receiver has queued or asked for.
SendingEntities(s) ==
    LET r == Other(s) IN
    /\ loc[r].needed # <<>>
    /\ ToSet(loc[r].idQueue) \subseteq known[s]
    /\ pc[r] = "recvEntity" => loc[r].asked \in known[s] \ Block
    /\ \/ /\ pc[s] = "verdict" /\ pc[r] = "request"
          /\ inbox[s] = <<Bool(TRUE)>> /\ inbox[r] = <<>>
       \/ /\ pc[s] = "verdict" /\ pc[r] = "recvEntity"
          /\ inbox[s] = <<Bool(TRUE), Id(loc[r].asked)>> /\ inbox[r] = <<>>
       \/ /\ pc[s] = "serve" /\ pc[r] = "request"
          /\ inbox[s] = <<>> /\ inbox[r] = <<>>
       \/ /\ pc[s] = "serve" /\ pc[r] = "recvEntity"
          /\ inbox[s] = <<Id(loc[r].asked)>> /\ inbox[r] = <<>>
       \/ /\ pc[s] = "serve" /\ pc[r] = "recvEntity"
          /\ inbox[s] = <<>> /\ inbox[r] = <<EntityMsg(loc[r].asked)>>

\* The receiver has returned; the sender has to read the end of the requests.
Ending(s) ==
    LET r == Other(s) IN
    /\ pc[r] = "idle" /\ inbox[r] = <<>>
    /\ \/ pc[s] = "verdict" /\ inbox[s] = <<Bool(TRUE), Id(Zero), Complete>>
       \/ pc[s] = "serve" /\ inbox[s] = <<Id(Zero), Complete>>
       \/ pc[s] = "complete" /\ inbox[s] = <<Complete>>

Together ==
    \/ Resting \/ Greeting
    \/ \E p \in Peer :
          \/ Leaving(p) \/ Deciding(p) \/ Walking(p)
          \/ SendingBlocks(p) \/ SendingEntities(p) \/ Ending(p)

IInv == TypeOK /\ NodesOK /\ (\A p \in Peer : pc[p] = "idle" => Fresh(p)) /\ Together

-----------------------------------------------------------------------------
(* Queues *)

LEMMA QueueFacts ==
  ASSUME NEW a, NEW b, NEW c
  PROVE  /\ <<a>> # <<>> /\ Head(<<a>>) = a /\ Tail(<<a>>) = <<>>
         /\ <<a, b>> # <<>> /\ Head(<<a, b>>) = a /\ Tail(<<a, b>>) = <<b>>
         /\ <<a, b, c>> # <<>> /\ Head(<<a, b, c>>) = a /\ Tail(<<a, b, c>>) = <<b, c>>
<1>1. <<a>> # <<>> /\ Head(<<a>>) = a /\ Tail(<<a>>) = <<>>  OBVIOUS
<1>2. <<a, b>> # <<>> /\ Head(<<a, b>>) = a /\ Tail(<<a, b>>) = <<b>>  OBVIOUS
<1>3. <<a, b, c>> # <<>> /\ Head(<<a, b, c>>) = a /\ Tail(<<a, b, c>>) = <<b, c>>  OBVIOUS
<1> QED  BY <1>1, <1>2, <1>3

LEMMA JoinFacts ==
  ASSUME NEW a, NEW b, NEW c
  PROVE  /\ <<>> \o <<a>> = <<a>> /\ <<>> \o <<a, b>> = <<a, b>>
         /\ <<a>> \o <<b>> = <<a, b>> /\ <<a>> \o <<b, c>> = <<a, b, c>>
         /\ <<>> \o <<>> = <<>> /\ <<a>> \o <<>> = <<a>> /\ <<a, b>> \o <<>> = <<a, b>>
<1>1. <<>> \o <<a>> = <<a>> /\ <<>> \o <<a, b>> = <<a, b>>  OBVIOUS
<1>2. <<a>> \o <<b>> = <<a, b>>
  <2> DEFINE s == <<a>> \o <<b>>
  <2>1. s \in Seq({a, b}) /\ Len(s) = 2 /\ s[1] = a /\ s[2] = b  OBVIOUS
  <2> HIDE DEF s
  <2>2. s = <<a, b>>  BY <2>1
  <2> QED  BY <2>2 DEF s
<1>4. <<a>> \o <<b, c>> = <<a, b, c>>
  <2> DEFINE s == <<a>> \o <<b, c>>
  <2>1. s \in Seq({a, b, c}) /\ Len(s) = 3 /\ s[1] = a /\ s[2] = b /\ s[3] = c  OBVIOUS
  <2> HIDE DEF s
  <2>2. s = <<a, b, c>>  BY <2>1
  <2> QED  BY <2>2 DEF s
<1>3. <<>> \o <<>> = <<>> /\ <<a>> \o <<>> = <<a>> /\ <<a, b>> \o <<>> = <<a, b>> OBVIOUS
<1> QED  BY <1>1, <1>2, <1>3, <1>4

LEMMA OtherFacts ==
  ASSUME NEW p \in Peer
  PROVE  /\ Other(p) \in Peer /\ Other(p) # p /\ Other(Other(p)) = p
         /\ \A q \in Peer : q = p \/ q = Other(p)
BY SyncAssumption DEF Other, Peer

LEMMA ConsumeFacts ==
  ASSUME inbox \in [Peer -> Seq(Message)], NEW p \in Peer, inbox[p] # <<>>,
         NEW replies \in Seq(Message), Consume(p, replies)
  PROVE  /\ inbox' \in [Peer -> Seq(Message)]
         /\ inbox'[p] = Tail(inbox[p])
         /\ inbox'[Other(p)] = inbox[Other(p)] \o replies
<1> DEFINE q == Other(p)
<1>1. q \in Peer /\ q # p  BY OtherFacts
<1>2. Tail(inbox[p]) \in Seq(Message) /\ inbox[q] \o replies \in Seq(Message)
  BY <1>1
<1>3. inbox' = [[inbox EXCEPT ![p] = Tail(inbox[p])] EXCEPT ![q] = inbox[q] \o replies]
  BY <1>1 DEF Consume
<1> HIDE DEF q
<1>4. /\ inbox' \in [Peer -> Seq(Message)]
      /\ inbox'[p] = Tail(inbox[p]) /\ inbox'[q] = inbox[q] \o replies
  BY <1>1, <1>2, <1>3
<1> QED  BY <1>4 DEF q

\* A sum of works one block at a time.
LEMMA WorkSums ==
  /\ WorkSum({}) = 0
  /\ \A S \in SUBSET (Block \ {Zero}) :
        /\ WorkSum(S) \in Nat
        /\ \A b \in (Block \ {Zero}) \ S : WorkSum(S \cup {b}) = WorkSum(S) + BlockOf[b].work
<1> DEFINE f(S) == [b \in S |-> BlockOf[b].work]
<1>1. \A S : WorkSum(S) = SumFunctionOnSet(f(S), S)  BY DEF WorkSum, SumFunction
<1>2. WorkSum({}) = 0  BY <1>1, SumEmpty
<1>3. ASSUME NEW S \in SUBSET (Block \ {Zero})
      PROVE  IsFiniteSet(S) /\ \A b \in S : f(S)[b] \in Nat
  <2>1. IsFiniteSet(S)  BY FS_Subset, EntitiesAssumption
  <2> QED  BY <2>1, BlockFacts
<1>4. ASSUME NEW S \in SUBSET (Block \ {Zero}), NEW b \in (Block \ {Zero}) \ S
      PROVE  WorkSum(S \cup {b}) = WorkSum(S) + BlockOf[b].work
  <2> DEFINE U == S \cup {b}
             g == f(U)
             h == f(S)
  <2>1. U \in SUBSET (Block \ {Zero}) /\ U \ {b} = S /\ b \in U  OBVIOUS
  <2>2. IsFiniteSet(U) /\ \A x \in U : g[x] \in Nat  BY <1>3, <2>1
  <2>3. IsFiniteSet(S) /\ \A x \in S : h[x] \in Nat  BY <1>3
  <2>4. g[b] = BlockOf[b].work /\ \A x \in S : g[x] = h[x]  BY <2>1
  <2> HIDE DEF g, h, f, U
  <2>5. SumFunctionOnSet(g, U) = g[b] + SumFunctionOnSet(g, S)  BY <2>1, <2>2, SumStep
  <2>6. SumFunctionOnSet(h, S) = SumFunctionOnSet(g, S)  BY <2>3, <2>4, SumSame
  <2>7. SumFunctionOnSet(h, S) \in Nat /\ BlockOf[b].work \in Nat
    BY <2>3, SumNat, BlockFacts
  <2> QED  BY <1>1, <2>4, <2>5, <2>6, <2>7 DEF U, g, h
<1>5. ASSUME NEW S \in SUBSET (Block \ {Zero})  PROVE WorkSum(S) \in Nat
  <2> DEFINE h == f(S)
  <2>1. IsFiniteSet(S) /\ \A x \in S : h[x] \in Nat  BY <1>3
  <2>2. WorkSum(S) = SumFunctionOnSet(h, S)  BY <1>1
  <2> HIDE DEF h
  <2> QED  BY <2>1, <2>2, SumNat
<1> QED  BY <1>2, <1>4, <1>5

LEMMA WorkTyped == \A b \in Block : WorkOf[b] \in Nat
<1> SUFFICES ASSUME NEW b \in Block  PROVE WorkOf[b] \in Nat
  OBVIOUS
<1>1. Ancestors[b] \ {Zero} \in SUBSET (Block \ {Zero})  BY DEF Ancestors
<1> QED  BY <1>1, WorkSums DEF WorkOf

\* Where an end is tells which of the stages both are in.
LEMMA StageOf ==
  ASSUME Together, NEW p \in Peer
  PROVE  LET q == Other(p) IN
         /\ pc[p] # "panicked"
         /\ pc[p] = "idle" /\ pc[q] = "idle" => Resting
         /\ pc[p] = "hello" => Greeting
         /\ pc[p] = "cancelled" => Greeting \/ Leaving(q)
         /\ pc[p] = "offered" => Greeting \/ Leaving(q) \/ Deciding(p) \/ Deciding(q)
         /\ pc[p] = "sendRole" => Deciding(p)
         /\ pc[p] = "sendWalk" => Walking(p)
         /\ pc[p] = "verdict" => SendingBlocks(p) \/ SendingEntities(p) \/ Ending(p)
         /\ pc[p] = "serve" => SendingEntities(p) \/ Ending(p)
         /\ pc[p] = "complete" => Ending(p)
         /\ pc[p] \in {"recvRole", "recvWalk"} => Deciding(q) \/ Walking(q)
         /\ pc[p] = "recvBlocks" => Walking(q) \/ SendingBlocks(q)
         /\ pc[p] \in {"request", "recvEntity"} => SendingEntities(q)
<1> DEFINE q == Other(p)
<1>1. q \in Peer /\ Other(q) = p /\ \A x \in Peer : x = p \/ x = q  BY OtherFacts
<1>2. Resting => pc[p] = "idle" /\ pc[q] = "idle"  BY <1>1 DEF Resting
<1>3. Greeting => pc[p] \in {"hello", "cancelled", "offered"}  BY DEF Greeting, Greets
<1>4. /\ Leaving(p) => pc[p] = "idle" /\ pc[q] # "idle"
      /\ Leaving(q) => pc[p] \in {"offered", "cancelled"}
  BY <1>1 DEF Leaving
<1>5. /\ Deciding(p) => pc[p] \in {"offered", "sendRole"}
      /\ Deciding(q) => pc[p] \in {"recvRole", "offered", "recvWalk"}
  BY <1>1 DEF Deciding
<1>6. /\ Walking(p) => pc[p] = "sendWalk"
      /\ Walking(q) =>
           pc[p] \in {"recvRole", "recvWalk", "recvBlocks", "idle"} /\ pc[q] # "idle"
  BY <1>1 DEF Walking
<1>7. /\ SendingBlocks(p) => pc[p] = "verdict"
      /\ SendingBlocks(q) => pc[p] = "recvBlocks"
  BY <1>1 DEF SendingBlocks
<1>8. /\ SendingEntities(p) => pc[p] \in {"verdict", "serve"}
      /\ SendingEntities(q) => pc[p] \in {"request", "recvEntity"}
  BY <1>1 DEF SendingEntities
<1>9. /\ Ending(p) => pc[p] \in {"verdict", "serve", "complete"}
      /\ Ending(q) => pc[p] = "idle" /\ pc[q] # "idle"
  BY <1>1 DEF Ending
<1>10. \/ Resting \/ Greeting
       \/ Leaving(p) \/ Deciding(p) \/ Walking(p)
       \/ SendingBlocks(p) \/ SendingEntities(p) \/ Ending(p)
       \/ Leaving(q) \/ Deciding(q) \/ Walking(q)
       \/ SendingBlocks(q) \/ SendingEntities(q) \/ Ending(q)
  BY <1>1 DEF Together
<1> HIDE DEF q
<1>11. /\ pc[p] # "panicked"
       /\ pc[p] = "idle" /\ pc[q] = "idle" => Resting
       /\ pc[p] = "hello" => Greeting
       /\ pc[p] = "cancelled" => Greeting \/ Leaving(q)
       /\ pc[p] = "offered" => Greeting \/ Leaving(q) \/ Deciding(p) \/ Deciding(q)
       /\ pc[p] = "sendRole" => Deciding(p)
       /\ pc[p] = "sendWalk" => Walking(p)
  BY <1>2, <1>3, <1>4, <1>5, <1>6, <1>7, <1>8, <1>9, <1>10
<1>12. /\ pc[p] = "verdict" => SendingBlocks(p) \/ SendingEntities(p) \/ Ending(p)
       /\ pc[p] = "serve" => SendingEntities(p) \/ Ending(p)
       /\ pc[p] = "complete" => Ending(p)
       /\ pc[p] \in {"recvRole", "recvWalk"} => Deciding(q) \/ Walking(q)
       /\ pc[p] = "recvBlocks" => Walking(q) \/ SendingBlocks(q)
       /\ pc[p] \in {"request", "recvEntity"} => SendingEntities(q)
  BY <1>2, <1>3, <1>4, <1>5, <1>6, <1>7, <1>8, <1>9, <1>10
<1> QED  BY <1>11, <1>12 DEF q

\* What fits, place by place.
LEMMA FitsFacts ==
  ASSUME NEW p \in Peer, NEW m
  PROVE  /\ pc[p] = "hello" => (Fits(p, m) <=> m.kind = "hello")
         /\ pc[p] \in {"cancelled", "offered"} => (Fits(p, m) <=> m.kind = "answer")
         /\ pc[p] = "sendRole" => (Fits(p, m) <=> m.kind = "role" /\ m.role = "recv")
         /\ pc[p] = "recvRole" => (Fits(p, m) <=> m.kind = "role" /\ m.role = "send")
         /\ pc[p] \in {"sendWalk", "verdict"} => (Fits(p, m) <=> m.kind = "bool")
         /\ pc[p] \in {"serve", "recvWalk"} => (Fits(p, m) <=> m.kind = "id")
         /\ pc[p] = "complete" => (Fits(p, m) <=> m.kind = "complete")
         /\ pc[p] = "recvBlocks" =>
              (Fits(p, m) <=> m.kind = "block" /\ m.id = loc[p].needed[loc[p].got + 1])
         /\ pc[p] = "recvEntity" => (Fits(p, m) <=> m.kind = "entity" /\ m.id = loc[p].asked)
<1>1. /\ pc[p] = "hello" => (Fits(p, m) <=> m.kind = "hello")
      /\ pc[p] \in {"cancelled", "offered"} => (Fits(p, m) <=> m.kind = "answer")
      /\ pc[p] = "sendRole" => (Fits(p, m) <=> m.kind = "role" /\ m.role = "recv")
      /\ pc[p] = "recvRole" => (Fits(p, m) <=> m.kind = "role" /\ m.role = "send")
  BY DEF Fits, Expects
<1>2. /\ pc[p] \in {"sendWalk", "verdict"} => (Fits(p, m) <=> m.kind = "bool")
      /\ pc[p] \in {"serve", "recvWalk"} => (Fits(p, m) <=> m.kind = "id")
      /\ pc[p] = "complete" => (Fits(p, m) <=> m.kind = "complete")
  BY DEF Fits, Expects
<1>3. /\ pc[p] = "recvBlocks" =>
          (Fits(p, m) <=> m.kind = "block" /\ m.id = loc[p].needed[loc[p].got + 1])
      /\ pc[p] = "recvEntity" => (Fits(p, m) <=> m.kind = "entity" /\ m.id = loc[p].asked)
  BY DEF Fits, Expects
<1> QED  BY <1>1, <1>2, <1>3

\* A frame that fits is read by the handler of its place.
LEMMA ReadFacts ==
  ASSUME NEW p \in Peer, Read(p)
  PROVE  LET m == Head(inbox[p]) IN
         /\ inbox[p] # <<>>
         /\ UNCHANGED <<nodeVars, validated, curHead>>
         /\ Fits(p, m) =>
              /\ pc[p] = "hello" => ReadHello(p, m)
              /\ pc[p] = "cancelled" => ReadAnswerCancelled(p, m)
              /\ pc[p] = "offered" => ReadAnswer(p, m)
              /\ pc[p] = "sendRole" => ReadRoleToSend(p, m)
              /\ pc[p] = "sendWalk" => ReadWalkReply(p, m)
              /\ pc[p] = "verdict" => ReadVerdict(p, m)
              /\ pc[p] = "serve" => ReadRequest(p, m)
              /\ pc[p] = "complete" => ReadComplete(p, m)
              /\ pc[p] = "recvRole" => ReadRoleToReceive(p, m)
              /\ pc[p] = "recvWalk" => ReadWalkId(p, m)
              /\ pc[p] = "recvBlocks" => ReadBlock(p, m)
              /\ pc[p] = "recvEntity" => ReadEntity(p, m)
BY DEF Read

LEMMA MessageTyped ==
  /\ <<>> \in Seq(Message)
  /\ \A a \in {"continue", "cancel"} : Answer(a) \in Message
  /\ \A r \in {"send", "recv"} : Role(r) \in Message
  /\ \A b \in BOOLEAN : Bool(b) \in Message
  /\ \A id \in Entity : Id(id) \in Message
  /\ \A b \in Block \ {Zero} : BlockMsg(b) \in Message
  /\ \A id \in Tx \cup Merkle : EntityMsg(id) \in Message
  /\ Complete \in Message
  /\ \A m1, m2 \in Message : <<m1>> \in Seq(Message) /\ <<m1, m2>> \in Seq(Message)
<1>1. /\ <<>> \in Seq(Message)
      /\ \A m1, m2 \in Message : <<m1>> \in Seq(Message) /\ <<m1, m2>> \in Seq(Message)
  OBVIOUS
<1>2. /\ \A a \in {"continue", "cancel"} : Answer(a) \in Message
      /\ \A r \in {"send", "recv"} : Role(r) \in Message
  BY DEF Message, Answer, Role
<1>3. /\ \A b \in BOOLEAN : Bool(b) \in Message
      /\ \A id \in Entity : Id(id) \in Message
      /\ \A b \in Block \ {Zero} : BlockMsg(b) \in Message
  BY DEF Message, Bool, Id, BlockMsg
<1>4. /\ \A id \in Tx \cup Merkle : EntityMsg(id) \in Message
      /\ Complete \in Message
  BY DEF Message, EntityMsg, Complete
<1> QED  BY <1>1, <1>2, <1>3, <1>4

Place == {"idle", "request"} \cup DOMAIN Expects

\* What all steps of p's handler that read have in common.
Goes(p, place, l, replies) ==
    /\ Consume(p, replies) /\ GoTo(p, place, l)
    /\ cmd' \in {cmd, [cmd EXCEPT ![p] = "none"]}
    /\ UNCHANGED <<nodeVars, validated, curHead>>

LEMMA PlaceFacts ==
  {"idle", "request", "hello", "cancelled", "offered", "sendRole", "sendWalk", "verdict",
   "serve", "complete", "recvRole", "recvWalk", "recvBlocks", "recvEntity"} \subseteq Place
BY DEF Place, Expects

LEMMA LocalsFacts ==
  /\ NoLocals \in Locals /\ NoLocals.needed = <<>> /\ NoLocals.got = 0
BY EntitiesAssumption DEF NoLocals, Locals

\* What such a step does to the two ends; all that is left to show is where they now are.
LEMMA GoesFacts ==
  ASSUME IInv, NEW p \in Peer, inbox[p] # <<>>,
         NEW place \in Place, NEW l \in Locals, NEW replies \in Seq(Message),
         l.got <= Len(l.needed), place = "idle" => l = NoLocals,
         Goes(p, place, l, replies)
  PROVE  LET q == Other(p) IN
         /\ pc'[p] = place /\ pc'[q] = pc[q]
         /\ loc'[p] = l /\ loc'[q] = loc[q]
         /\ inbox'[p] = Tail(inbox[p]) /\ inbox'[q] = inbox[q] \o replies
         /\ curHead' = curHead /\ known' = known
         /\ Together' => IInv'
<1> DEFINE q == Other(p)
<1>1. q \in Peer /\ q # p /\ \A x \in Peer : x = p \/ x = q  BY OtherFacts
<1>2. TypeOK /\ NodesOK /\ \A x \in Peer : pc[x] = "idle" => Fresh(x)  BY DEF IInv
<1>3. /\ inbox' \in [Peer -> Seq(Message)]
      /\ inbox'[p] = Tail(inbox[p]) /\ inbox'[q] = inbox[q] \o replies
  BY <1>2, ConsumeFacts DEF Goes, TypeOK
<1>4. pc' = [pc EXCEPT ![p] = place] /\ loc' = [loc EXCEPT ![p] = l]
  BY DEF Goes, GoTo
<1>5. cmd' \in [Peer -> Commands]  BY <1>2 DEF Goes, TypeOK, Commands
<1>6. UNCHANGED <<known, head, handed, others, validated, curHead>>  BY DEF Goes, nodeVars
<1> HIDE DEF q
<1>7. /\ pc'[p] = place /\ pc'[q] = pc[q]
      /\ loc'[p] = l /\ loc'[q] = loc[q]
  BY <1>1, <1>2, <1>4 DEF TypeOK
<1>8. pc' \in [Peer -> {"idle", "request", "panicked"} \cup DOMAIN Expects]
  BY <1>2, <1>4 DEF TypeOK, Place
<1>9. loc' \in [Peer -> Locals]  BY <1>2, <1>4 DEF TypeOK
<1>10. \A x \in Peer : loc'[x].got <= Len(loc'[x].needed)
  BY <1>1, <1>2, <1>7 DEF TypeOK
<1>11. TypeOK'  BY <1>2, <1>3, <1>5, <1>6, <1>8, <1>9, <1>10 DEF TypeOK
<1>12. NodesOK'  BY <1>2, <1>6 DEF NodesOK
<1>13. \A x \in Peer : (pc[x] = "idle" => Fresh(x))'
  BY <1>1, <1>2, <1>7, LocalsFacts DEF Fresh
<1> QED  BY <1>3, <1>6, <1>7, <1>11, <1>12, <1>13 DEF IInv, q

\* The handler returns after it has read the last message, and writes nothing.
LEMMA ReturnFacts ==
  ASSUME IInv, NEW p \in Peer, inbox[p] # <<>>, Tail(inbox[p]) = <<>>,
         Goes(p, "idle", NoLocals, <<>>)
  PROVE  LET q == Other(p) IN
         /\ pc'[p] = "idle" /\ pc'[q] = pc[q] /\ loc'[q] = loc[q]
         /\ inbox'[p] = <<>> /\ inbox'[q] = inbox[q]
         /\ curHead' = curHead /\ known' = known
         /\ Together' => IInv'
         /\ pc[q] = "idle" /\ inbox[q] = <<>> => IInv'
<1> DEFINE q == Other(p)
           replies == <<>>
<1>1. q \in Peer /\ \A x \in Peer : x = p \/ x = q  BY OtherFacts
<1>2. replies \in Seq(Message) /\ Goes(p, "idle", NoLocals, replies) /\ "idle" \in Place
  BY MessageTyped, PlaceFacts
<1>4. inbox[q] \in Seq(Message)  BY <1>1 DEF IInv, TypeOK
<1>5. inbox[q] \o replies = inbox[q]  BY <1>4
<1>6. NoLocals \in Locals /\ NoLocals.got <= Len(NoLocals.needed)
  BY LocalsFacts
<1> HIDE DEF q, replies
<1>7. /\ pc'[p] = "idle" /\ pc'[q] = pc[q] /\ loc'[q] = loc[q]
      /\ inbox'[p] = Tail(inbox[p]) /\ inbox'[q] = inbox[q] \o replies
      /\ curHead' = curHead /\ known' = known
      /\ Together' => IInv'
  BY <1>2, <1>6, GoesFacts DEF q
<1>8. pc[q] = "idle" /\ inbox[q] = <<>> => Resting'
  BY <1>1, <1>5, <1>7 DEF Resting
<1> QED  BY <1>5, <1>7, <1>8 DEF q, Together

\* The step writes one message, or none.
LEMMA GoesOne ==
  ASSUME IInv, NEW p \in Peer, inbox[p] # <<>>,
         NEW place \in Place, NEW l \in Locals, NEW m \in Message,
         l.got <= Len(l.needed), place = "idle" => l = NoLocals,
         Goes(p, place, l, <<m>>)
  PROVE  LET q == Other(p) IN
         /\ pc'[p] = place /\ pc'[q] = pc[q]
         /\ loc'[p] = l /\ loc'[q] = loc[q]
         /\ inbox'[p] = Tail(inbox[p])
         /\ inbox[q] = <<>> => inbox'[q] = <<m>>
         /\ \A n : inbox[q] = <<n>> => inbox'[q] = <<n, m>>
         /\ curHead' = curHead /\ known' = known
         /\ Together' => IInv'
<1> DEFINE q == Other(p)
           replies == <<m>>
<1>1. replies \in Seq(Message) /\ Goes(p, place, l, replies)  BY MessageTyped
<1>2. /\ <<>> \o replies = <<m>>
      /\ \A n : <<n>> \o replies = <<n, m>>
  BY JoinFacts
<1> HIDE DEF replies, q
<1>3. /\ pc'[p] = place /\ pc'[q] = pc[q]
      /\ loc'[p] = l /\ loc'[q] = loc[q]
      /\ inbox'[p] = Tail(inbox[p]) /\ inbox'[q] = inbox[q] \o replies
      /\ curHead' = curHead /\ known' = known
      /\ Together' => IInv'
  BY <1>1, GoesFacts DEF q
<1>4. /\ inbox[q] = <<>> => inbox'[q] = <<m>>
      /\ \A n : inbox[q] = <<n>> => inbox'[q] = <<n, m>>
  BY <1>2, <1>3
<1> QED  BY <1>3, <1>4 DEF q

LEMMA GoesSilent ==
  ASSUME IInv, NEW p \in Peer, inbox[p] # <<>>,
         NEW place \in Place, NEW l \in Locals,
         l.got <= Len(l.needed), place = "idle" => l = NoLocals,
         Goes(p, place, l, <<>>)
  PROVE  LET q == Other(p) IN
         /\ pc'[p] = place /\ pc'[q] = pc[q]
         /\ loc'[p] = l /\ loc'[q] = loc[q]
         /\ inbox'[p] = Tail(inbox[p]) /\ inbox'[q] = inbox[q]
         /\ curHead' = curHead /\ known' = known
         /\ Together' => IInv'
<1> DEFINE q == Other(p)
           replies == <<>>
<1>1. replies \in Seq(Message) /\ Goes(p, place, l, replies)  BY MessageTyped
<1>2. inbox[q] \in Seq(Message)  BY OtherFacts DEF IInv, TypeOK
<1>3. inbox[q] \o replies = inbox[q]  BY <1>2
<1> HIDE DEF replies, q
<1>4. /\ pc'[p] = place /\ pc'[q] = pc[q]
      /\ loc'[p] = l /\ loc'[q] = loc[q]
      /\ inbox'[p] = Tail(inbox[p]) /\ inbox'[q] = inbox[q] \o replies
      /\ curHead' = curHead /\ known' = known
      /\ Together' => IInv'
  BY <1>1, GoesFacts DEF q
<1> QED  BY <1>3, <1>4 DEF q

-----------------------------------------------------------------------------
(* Comparing works *)

LEMMA GreetsFacts ==
  ASSUME NEW p \in Peer, Greeting
  PROVE  LET q == Other(p) IN
         /\ pc[p] = "hello" =>
              /\ Head(inbox[p]) = Hello(q)
              /\ pc[q] = "hello" => inbox[p] = <<Hello(q)>> /\ Tail(inbox[p]) = <<>>
              /\ pc[q] # "hello" =>
                   inbox[p] = <<Hello(q), Answered(q)>> /\ Tail(inbox[p]) = <<Answered(q)>>
         /\ pc[p] # "hello" =>
              /\ pc[q] = "hello" => inbox[p] = <<>>
              /\ pc[q] # "hello" => inbox[p] = <<Answered(q)>>
<1> DEFINE q == Other(p)
           a == Hello(q)
           b == Answered(q)
<1>1. Greets(p)  BY DEF Greeting
<1>2. /\ pc[p] = "hello" /\ pc[q] = "hello" => inbox[p] = <<a>>
      /\ pc[p] = "hello" /\ pc[q] # "hello" => inbox[p] = <<a, b>>
      /\ pc[p] # "hello" /\ pc[q] = "hello" => inbox[p] = <<>>
      /\ pc[p] # "hello" /\ pc[q] # "hello" => inbox[p] = <<b>>
  BY <1>1 DEF Greets
<1> HIDE DEF a, b, q
<1>3. /\ Head(<<a>>) = a /\ Tail(<<a>>) = <<>>
      /\ Head(<<a, b>>) = a /\ Tail(<<a, b>>) = <<b>>
  BY QueueFacts
<1>4. /\ pc[p] = "hello" =>
          /\ Head(inbox[p]) = a
          /\ pc[q] = "hello" => inbox[p] = <<a>> /\ Tail(inbox[p]) = <<>>
          /\ pc[q] # "hello" => inbox[p] = <<a, b>> /\ Tail(inbox[p]) = <<b>>
      /\ pc[p] # "hello" =>
          /\ pc[q] = "hello" => inbox[p] = <<>>
          /\ pc[q] # "hello" => inbox[p] = <<b>>
  BY <1>2, <1>3
<1> QED  BY <1>4 DEF a, b, q

\* p has read the other's head and gives its answer.
LEMMA AnswersOK ==
  ASSUME IInv, NEW p \in Peer, pc[p] = "hello", inbox[p] # <<>>,
         NEW place \in {"cancelled", "offered"}, NEW l \in Locals,
         l.needed = <<>>, l.got = 0,
         place = "offered" =>
             l.theirWork = WorkOf[curHead[Other(p)]] /\ l.theirWork # WorkOf[curHead[p]],
         NEW answer, answer = Answer(IF place = "cancelled" THEN "cancel" ELSE "continue"),
         Goes(p, place, l, <<answer>>)
  PROVE  IInv'
<1> DEFINE q == Other(p)
           replies == <<answer>>
<1>1. q \in Peer /\ q # p /\ Other(q) = p /\ \A x \in Peer : x = p \/ x = q  BY OtherFacts
<1>2. Greeting  BY StageOf DEF IInv
<1>3. replies \in Seq(Message) /\ Goes(p, place, l, replies)  BY MessageTyped
<1>4. l.got <= Len(l.needed) /\ place # "idle" /\ place \in Place  BY PlaceFacts
<1> HIDE DEF q, replies
<1>5. /\ pc'[p] = place /\ pc'[q] = pc[q]
      /\ loc'[p] = l /\ loc'[q] = loc[q]
      /\ inbox'[p] = Tail(inbox[p]) /\ inbox'[q] = inbox[q] \o replies
      /\ curHead' = curHead
      /\ Together' => IInv'
  BY <1>3, <1>4, GoesFacts DEF q
<1>6. Answered(p)' = answer /\ Answered(q)' = Answered(q)  BY <1>5 DEF Answered
<1>7. Hello(p)' = Hello(p) /\ Hello(q)' = Hello(q)  BY <1>5 DEF Hello
<1>8. Greets(p)'
  <2>1. Fresh(p)'  BY <1>5 DEF Fresh
  <2>2. place = "offered" => HeardWork(p)'  BY <1>5 DEF HeardWork, q
  <2>3. inbox'[p] = IF pc[q] = "hello" THEN <<>> ELSE <<Answered(q)>>
    BY <1>2, <1>5, GreetsFacts DEF q
  <2> QED  BY <1>5, <1>6, <2>1, <2>2, <2>3 DEF Greets, q
<1>9. Greets(q)'
  <2>1. Greets(q)  BY <1>1, <1>2 DEF Greeting
  <2>2. Fresh(q)' /\ (HeardWork(q) => HeardWork(q)')
    BY <1>1, <1>5, <2>1 DEF Fresh, HeardWork, Greets
  <2>3. inbox[q] = IF pc[q] = "hello" THEN <<Hello(p)>> ELSE <<>>
    BY <1>1, <2>1 DEF Greets
  <2>4. inbox'[q] = IF pc[q] = "hello" THEN <<Hello(p), answer>> ELSE <<answer>>
    BY <1>5, <2>3, JoinFacts DEF replies
  <2>5. pc'[p] # "hello"  BY <1>5
  <2>6. \/ pc'[q] = "hello"
        \/ pc'[q] = "cancelled"
        \/ pc'[q] = "offered" /\ HeardWork(q)'
    BY <1>5, <2>1, <2>2 DEF Greets
  <2>7. inbox'[q] = IF pc'[q] = "hello" THEN <<Hello(p)', Answered(p)'>> ELSE <<Answered(p)'>>
    BY <1>5, <1>6, <1>7, <2>4
  <2> QED  BY <1>1, <2>2, <2>5, <2>6, <2>7 DEF Greets
<1> QED  BY <1>1, <1>5, <1>8, <1>9 DEF Together, Greeting

LEMMA ReadHelloOK ==
  ASSUME IInv, NEW p \in Peer, Read(p), pc[p] = "hello"
  PROVE  IInv'
<1> DEFINE q == Other(p)
           m == Head(inbox[p])
<1>1. q \in Peer /\ Other(q) = p  BY OtherFacts
<1>2. Greeting /\ TypeOK  BY StageOf DEF IInv
<1>3. Fresh(p) /\ loc[p] \in Locals  BY <1>2 DEF Greeting, Greets, TypeOK
<1>4. m.kind = "hello" /\ m.work = WorkOf[curHead[q]] /\ m.work \in Nat
  <2>1. m = Hello(q)  BY <1>2, GreetsFacts
  <2>2. WorkOf[curHead[q]] \in Nat  BY <1>1, <1>2, WorkTyped DEF TypeOK
  <2> QED  BY <2>1, <2>2 DEF Hello
<1>5. inbox[p] # <<>> /\ ReadHello(p, m) /\ UNCHANGED <<nodeVars, validated, curHead>>
  BY <1>4, FitsFacts, ReadFacts
<1> HIDE DEF m, q
<1>6. CASE Cancels(p, m)
  <2>1. Goes(p, "cancelled", loc[p], <<Answer("cancel")>>)
    BY <1>5, <1>6 DEF ReadHello, Goes, Continue
  <2> QED  BY <1>3, <1>5, <2>1, AnswersOK DEF Fresh
<1>7. CASE ~Cancels(p, m)
  <2> DEFINE l == [loc[p] EXCEPT !.theirWork = m.work]
  <2>1. l \in Locals /\ l.needed = <<>> /\ l.got = 0 /\ l.theirWork = WorkOf[curHead[q]]
    BY <1>3, <1>4 DEF Locals, Fresh
  <2>2. WorkOf[curHead[q]] # WorkOf[curHead[p]]  BY <1>4, <1>7 DEF Cancels
  <2>3. Goes(p, "offered", l, <<Answer("continue")>>)
    BY <1>5, <1>7 DEF ReadHello, Goes, Continue
  <2> HIDE DEF l
  <2> QED  BY <1>5, <2>1, <2>2, <2>3, AnswersOK DEF q
<1> QED  BY <1>6, <1>7

\* A sync is given up: the other end has its answer to read, or has done so.
LEMMA LeaveOK ==
  ASSUME IInv, NEW p \in Peer, inbox[p] # <<>>, Tail(inbox[p]) = <<>>,
         Goes(p, "idle", NoLocals, <<>>),
         \/ Leaving(Other(p))
         \/ /\ Greeting /\ pc[Other(p)] # "hello"
            /\ pc[p] = "cancelled" \/ (pc[p] = "offered" /\ pc[Other(p)] = "cancelled")
  PROVE  IInv'
<1> DEFINE q == Other(p)
<1>1. q \in Peer /\ Other(q) = p  BY OtherFacts
<1>2. CASE Leaving(q)
  <2>1. pc[q] = "idle" /\ inbox[q] = <<>>  BY <1>2 DEF Leaving
  <2> QED  BY <2>1, ReturnFacts
<1>3. CASE /\ Greeting /\ pc[q] # "hello"
           /\ pc[p] = "cancelled" \/ (pc[p] = "offered" /\ pc[q] = "cancelled")
  <2>1. Greets(q)  BY <1>1, <1>3 DEF Greeting
  <2>2. pc[q] \in {"cancelled", "offered"} /\ inbox[q] = <<Answered(p)>>
    BY <1>1, <1>3, <2>1 DEF Greets
  <2> HIDE DEF q
  <2>3. \/ pc[q] = "offered" /\ inbox[q] = <<Answer("cancel")>>
        \/ pc[q] = "cancelled" /\ \E a \in {"cancel", "continue"} : inbox[q] = <<Answer(a)>>
    BY <1>3, <2>2 DEF Answered
  <2>4. /\ pc'[p] = "idle" /\ pc'[q] = pc[q]
        /\ inbox'[p] = <<>> /\ inbox'[q] = inbox[q]
        /\ Together' => IInv'
    BY ReturnFacts DEF q
  <2>5. Leaving(p)'  BY <2>3, <2>4 DEF Leaving, q
  <2> QED  BY <2>4, <2>5 DEF Together
<1> QED  BY <1>2, <1>3

LEMMA AnswerToRead ==
  ASSUME NEW p \in Peer, inbox[p] # <<>>, Greeting, pc[p] \in {"cancelled", "offered"}
  PROVE  pc[Other(p)] \in {"cancelled", "offered"} /\ inbox[p] = <<Answered(Other(p))>>
<1> DEFINE q == Other(p)
<1>1. q \in Peer  BY OtherFacts
<1> QED  BY <1>1 DEF Greeting, Greets

LEMMA ReadAnswerCancelledOK ==
  ASSUME IInv, NEW p \in Peer, Read(p), pc[p] = "cancelled"
  PROVE  IInv'
<1> DEFINE q == Other(p)
           m == Head(inbox[p])
<1>1. q \in Peer /\ Other(q) = p  BY OtherFacts
<1>2. inbox[p] # <<>>  BY ReadFacts
<1>3. /\ \E a : inbox[p] = <<Answer(a)>>
      /\ Leaving(q) \/ (Greeting /\ pc[q] # "hello")
  <2>1. CASE Greeting  BY <1>2, <2>1, AnswerToRead DEF Answered
  <2>2. CASE Leaving(q)
    BY <1>1, <2>2 DEF Leaving
  <2> QED  BY <2>1, <2>2, StageOf DEF IInv
<1>4. PICK a : inbox[p] = <<Answer(a)>>  BY <1>3
<1>5. m.kind = "answer" /\ Tail(inbox[p]) = <<>>  BY <1>4, QueueFacts DEF Answer
<1>6. ReadAnswerCancelled(p, m) /\ UNCHANGED <<nodeVars, validated, curHead>>
  BY <1>5, FitsFacts, ReadFacts
<1>7. Goes(p, "idle", NoLocals, <<>>)
  BY <1>6 DEF ReadAnswerCancelled, Goes, Return
<1>8. \/ Leaving(Other(p))
      \/ /\ Greeting /\ pc[Other(p)] # "hello"
         /\ pc[p] = "cancelled" \/ (pc[p] = "offered" /\ pc[Other(p)] = "cancelled")
  BY <1>3
<1>9. Tail(inbox[p]) = <<>>  BY <1>5
<1> HIDE DEF m, q
<1> QED  BY <1>2, <1>7, <1>8, <1>9, LeaveOK

\* p, which offered a sync, takes its role.
LEMMA RoleFacts ==
  ASSUME IInv, NEW p \in Peer, inbox[p] # <<>>, pc[p] = "offered", HeardWork(p),
         ReadAnswer(p, Answer("continue")), UNCHANGED <<nodeVars, validated, curHead>>
  PROVE  LET q == Other(p)
             place == IF Ahead(p) THEN "sendRole" ELSE "recvRole"
             role == Role(IF Ahead(p) THEN "send" ELSE "recv")
         IN
         /\ Ahead(p) <=> ~Ahead(q)
         /\ pc'[p] = place /\ pc'[q] = pc[q]
         /\ loc'[p] = loc[p] /\ loc'[q] = loc[q]
         /\ inbox'[p] = Tail(inbox[p]) /\ inbox'[q] = inbox[q] \o <<role>>
         /\ curHead' = curHead
         /\ Together' => IInv'
<1> DEFINE q == Other(p)
           place == IF Ahead(p) THEN "sendRole" ELSE "recvRole"
           role == Role(IF Ahead(p) THEN "send" ELSE "recv")
           replies == <<role>>
<1>1. q \in Peer /\ Other(q) = p  BY OtherFacts
<1>2. TypeOK  BY DEF IInv
<1>3. WorkOf[curHead[p]] \in Nat /\ WorkOf[curHead[q]] \in Nat
  BY <1>1, <1>2, WorkTyped DEF TypeOK
<1>4. Ahead(p) <=> ~Ahead(q)  BY <1>1, <1>3 DEF Ahead, HeardWork
<1>5. loc[p].theirWork < WorkOf[curHead[p]] <=> Ahead(p)  BY DEF Ahead, HeardWork
<1>6. Goes(p, place, loc[p], replies)
  BY <1>5 DEF ReadAnswer, Answer, Goes, Continue
<1>7. place \in Place /\ place # "idle"  BY PlaceFacts
<1>8. replies \in Seq(Message)  BY MessageTyped
<1>9. loc[p] \in Locals /\ loc[p].got <= Len(loc[p].needed)  BY <1>2 DEF TypeOK
<1> HIDE DEF q, replies, role, place
<1>10. /\ pc'[p] = place /\ pc'[q] = pc[q]
       /\ loc'[p] = loc[p] /\ loc'[q] = loc[q]
       /\ inbox'[p] = Tail(inbox[p]) /\ inbox'[q] = inbox[q] \o replies
       /\ curHead' = curHead
       /\ Together' => IInv'
  BY <1>6, <1>7, <1>8, <1>9, GoesFacts DEF q
<1>11. replies = <<role>>  BY DEF replies
<1> QED  BY <1>4, <1>10, <1>11 DEF q, role, place

\* Both have offered a sync: p takes its role, and the other end will take the other one.
LEMMA FirstRole ==
  ASSUME IInv, NEW p \in Peer, Greeting, pc[p] = "offered", pc[Other(p)] = "offered",
         ReadAnswer(p, Answer("continue")), UNCHANGED <<nodeVars, validated, curHead>>
  PROVE  IInv'
<1> DEFINE q == Other(p)
           role == Role(IF Ahead(p) THEN "send" ELSE "recv")
<1>1. q \in Peer /\ Other(q) = p  BY OtherFacts
<1>2. Greets(p) /\ Greets(q)  BY <1>1 DEF Greeting
<1>3. /\ HeardWork(p) /\ HeardWork(q) /\ Fresh(p) /\ Fresh(q)
      /\ inbox[p] = <<Answer("continue")>> /\ inbox[q] = <<Answer("continue")>>
  BY <1>1, <1>2 DEF Greets, Answered
<1>4. inbox[p] # <<>> /\ Tail(inbox[p]) = <<>>  BY <1>3, QueueFacts
<1> HIDE DEF q, role
<1>5. /\ Ahead(p) <=> ~Ahead(q)
      /\ pc'[p] = IF Ahead(p) THEN "sendRole" ELSE "recvRole"
      /\ pc'[q] = pc[q]
      /\ loc'[p] = loc[p] /\ loc'[q] = loc[q]
      /\ inbox'[p] = <<>> /\ inbox'[q] = inbox[q] \o <<role>>
      /\ curHead' = curHead
      /\ Together' => IInv'
  BY <1>3, <1>4, RoleFacts DEF q, role
<1>6. inbox'[q] = <<Answer("continue"), role>>  BY <1>3, <1>5, JoinFacts
<1>7. /\ (Fresh(p) /\ Fresh(q) /\ HeardWork(q))'
      /\ Ahead(p) => Ahead(p)'
      /\ Ahead(q) => Ahead(q)'
  BY <1>1, <1>3, <1>5 DEF Fresh, HeardWork, Ahead
<1>8. CASE Ahead(p)
  <2>1. role = Role("send")  BY <1>8 DEF role
  <2>2. Deciding(p)'
    BY <1>5, <1>6, <1>7, <1>8, <2>1 DEF Deciding, q
  <2> QED  BY <1>5, <2>2 DEF Together
<1>9. CASE Ahead(q)
  <2>1. role = Role("recv") /\ pc'[p] = "recvRole"  BY <1>5, <1>9 DEF role
  <2>2. pc'[q] = "offered"  BY <1>5 DEF q
  <2>3. inbox'[q] = <<Answer("continue"), Role("recv")>>  BY <1>6, <2>1
  <2>4. Deciding(q)'
    BY <1>1, <1>5, <1>7, <1>9, <2>1, <2>2, <2>3 DEF Deciding
  <2> QED  BY <1>1, <1>5, <2>4 DEF Together
<1> QED  BY <1>5, <1>8, <1>9

\* The other end has taken its role already.
LEMMA SecondRole ==
  ASSUME IInv, NEW p \in Peer, pc[p] = "offered",
         Deciding(p) \/ Deciding(Other(p)),
         ReadAnswer(p, Answer("continue")), UNCHANGED <<nodeVars, validated, curHead>>
  PROVE  IInv'
<1> DEFINE q == Other(p)
<1>1. q \in Peer /\ Other(q) = p  BY OtherFacts
<1>2. CASE Deciding(p)
  <2>1. /\ HeardWork(p) /\ Ahead(p) /\ Fresh(p) /\ Fresh(q) /\ pc[q] = "recvRole"
        /\ inbox[p] = <<Answer("continue"), Role("recv")>> /\ inbox[q] = <<>>
    BY <1>1, <1>2 DEF Deciding
  <2>2. inbox[p] # <<>> /\ Tail(inbox[p]) = <<Role("recv")>>  BY <2>1, QueueFacts
  <2> HIDE DEF q
  <2>3. /\ pc'[p] = "sendRole" /\ pc'[q] = pc[q]
        /\ loc'[p] = loc[p] /\ loc'[q] = loc[q]
        /\ inbox'[p] = <<Role("recv")>> /\ inbox'[q] = inbox[q] \o <<Role("send")>>
        /\ curHead' = curHead
        /\ Together' => IInv'
    BY <2>1, <2>2, RoleFacts DEF q
  <2>4. inbox'[q] = <<Role("send")>>  BY <2>1, <2>3, JoinFacts
  <2>5. (Fresh(p) /\ Fresh(q) /\ Ahead(p))'  BY <2>1, <2>3 DEF Fresh, Ahead
  <2>6. Deciding(p)'  BY <2>1, <2>3, <2>4, <2>5 DEF Deciding, q
  <2> QED  BY <2>3, <2>6 DEF Together
<1>3. CASE Deciding(q)
  <2>1. /\ HeardWork(p) /\ Ahead(q) /\ Fresh(p) /\ Fresh(q) /\ pc[q] = "sendRole"
        /\ inbox[p] = <<Answer("continue"), Role("send")>> /\ inbox[q] = <<>>
    BY <1>1, <1>3 DEF Deciding
  <2>2. inbox[p] # <<>> /\ Tail(inbox[p]) = <<Role("send")>>  BY <2>1, QueueFacts
  <2> HIDE DEF q
  <2>3. /\ pc'[p] = "recvRole" /\ pc'[q] = pc[q]
        /\ loc'[p] = loc[p] /\ loc'[q] = loc[q]
        /\ inbox'[p] = <<Role("send")>> /\ inbox'[q] = inbox[q] \o <<Role("recv")>>
        /\ curHead' = curHead
        /\ Together' => IInv'
    BY <2>1, <2>2, RoleFacts DEF q
  <2>4. inbox'[q] = <<Role("recv")>>  BY <2>1, <2>3, JoinFacts
  <2>5. (Fresh(p) /\ Fresh(q) /\ Ahead(q))'  BY <1>1, <2>1, <2>3 DEF Fresh, Ahead
  <2>6. Deciding(q)'  BY <1>1, <2>1, <2>3, <2>4, <2>5 DEF Deciding
  <2> QED  BY <1>1, <2>3, <2>6 DEF Together
<1> QED  BY <1>2, <1>3

LEMMA ReadAnswerOK ==
  ASSUME IInv, NEW p \in Peer, Read(p), pc[p] = "offered"
  PROVE  IInv'
<1> DEFINE q == Other(p)
           m == Head(inbox[p])
<1>1. q \in Peer /\ Other(q) = p  BY OtherFacts
<1>2. inbox[p] # <<>> /\ UNCHANGED <<nodeVars, validated, curHead>>  BY ReadFacts
<1>3. ASSUME m = Answer("cancel"), Tail(inbox[p]) = <<>>,
             Leaving(q) \/ (Greeting /\ pc[q] = "cancelled")
      PROVE  IInv'
  <2>1. m.kind = "answer" /\ m.answer = "cancel"  BY <1>3 DEF Answer
  <2>2. ReadAnswer(p, m)  BY <2>1, FitsFacts, ReadFacts
  <2>3. Goes(p, "idle", NoLocals, <<>>)
    BY <1>2, <2>1, <2>2 DEF ReadAnswer, Goes, Return
  <2> QED  BY <1>2, <1>3, <2>3, LeaveOK
<1>4. ASSUME m = Answer("continue")  PROVE ReadAnswer(p, Answer("continue"))
  <2>1. m.kind = "answer"  BY <1>4 DEF Answer
  <2> QED  BY <1>4, <2>1, FitsFacts, ReadFacts
<1>5. CASE Leaving(q)
  <2>1. inbox[p] = <<Answer("cancel")>>  BY <1>1, <1>5 DEF Leaving
  <2>2. m = Answer("cancel") /\ Tail(inbox[p]) = <<>>  BY <2>1, QueueFacts
  <2> QED  BY <1>3, <1>5, <2>2
<1>6. CASE Greeting
  <2>1. pc[q] \in {"cancelled", "offered"} /\ inbox[p] = <<Answered(q)>>
    BY <1>2, <1>6, AnswerToRead
  <2>2. m = Answered(q) /\ Tail(inbox[p]) = <<>>  BY <2>1, QueueFacts
  <2>3. CASE pc[q] = "cancelled"
    <3>1. m = Answer("cancel")  BY <2>2, <2>3 DEF Answered
    <3> QED  BY <1>3, <1>6, <2>2, <2>3, <3>1
  <2>4. CASE pc[q] = "offered"
    <3>1. m = Answer("continue")  BY <2>2, <2>4 DEF Answered
    <3> QED  BY <1>2, <1>4, <1>6, <2>4, <3>1, FirstRole
  <2> QED  BY <2>1, <2>3, <2>4
<1>7. CASE Deciding(p) \/ Deciding(q)
  <2>1. m = Answer("continue")
    <3>1. \E r : inbox[p] = <<Answer("continue"), r>>
      BY <1>1, <1>7 DEF Deciding
    <3> QED  BY <3>1, QueueFacts
  <2> QED  BY <1>2, <1>4, <1>7, <2>1, SecondRole
<1> QED  BY <1>5, <1>6, <1>7, StageOf DEF IInv

-----------------------------------------------------------------------------
(* Chains of blocks *)

\* The work of a chain, block by block.
LEMMA WorkStep ==
  ASSUME NEW b \in Block \ {Zero}
  PROVE  WorkOf[b] = WorkOf[BlockOf[b].prev] + BlockOf[b].work
<1> DEFINE p == BlockOf[b].prev
           S == Ancestors[p] \ {Zero}
<1>1. p \in Block /\ S \in SUBSET (Block \ {Zero})  BY BlockFacts, AncestorsClosed
<1>2. b \notin S  BY SyncAssumption
<1>3. Ancestors[b] \ {Zero} = S \cup {b}  BY AncestorsStep
<1>4. WorkSum(S \cup {b}) = WorkSum(S) + BlockOf[b].work  BY <1>1, <1>2, WorkSums
<1>5. WorkOf[p] = WorkSum(S)  BY <1>1 DEF WorkOf
<1>6. WorkOf[b] = WorkSum(Ancestors[b] \ {Zero})  BY DEF WorkOf
<1> HIDE DEF S
<1> QED  BY <1>3, <1>4, <1>5, <1>6

\* Where the walk starts.
LEMMA EmptyPath ==
  ASSUME NEW h \in Block, NEW S, h \in S
  PROVE  Path(h, <<>>, h, S)
<1>1. ToSet(<<>>) = {}  BY DEF ToSet
<1>2. WorkOf[h] = WorkOf[h] + WorkSum({})  BY WorkTyped, WorkSums
<1> DEFINE e == <<>>
<1>3. DOMAIN e = {} /\ Len(e) = 0  OBVIOUS
<1>4. 1..(Len(e) - 1) = {}  BY <1>3
<1>5. ToSet(e) = {}  BY <1>1
<1>6. e = <<>>  OBVIOUS
<1> HIDE DEF e
<1>7. Path(h, e, h, S)  BY <1>2, <1>3, <1>4, <1>5, <1>6 DEF Path
<1> QED  BY <1>6, <1>7

\* The walk notes a block and goes to its parent.
LEMMA PathStep ==
  ASSUME NEW h \in Block, NEW bs \in Seq(Block \ {Zero}), NEW at \in Block \ {Zero},
         NEW S \in SUBSET Entity, Closed(S), Path(h, bs, at, S)
  PROVE  Path(h, Append(bs, at), BlockOf[at].prev, S)
<1> DEFINE parent == BlockOf[at].prev
           new == Append(bs, at)
           n == Len(bs)
<1>1. parent \in Block  BY BlockFacts
<1>2. parent \in S  BY EntitiesAssumption, SyncAssumption DEF Path, Closed, Refs
<1>3. /\ n \in Nat /\ Len(new) = n + 1 /\ DOMAIN new = 1..(n + 1) /\ DOMAIN bs = 1..n
      /\ \A i \in 1..n : new[i] = bs[i] /\ bs[i] \in Block \ {Zero}
      /\ new[n + 1] = at /\ new # <<>>
  BY AppendProperties, ElementOfSeq
<1>4. ASSUME NEW i \in 1..n
      PROVE  bs[i] \in S /\ at \in Ancestors[BlockOf[bs[i]].prev] /\ bs[i] # at
             /\ parent \in Ancestors[BlockOf[bs[i]].prev]
  <2>1. bs[i] \in S /\ at \in Ancestors[BlockOf[bs[i]].prev]  BY <1>3 DEF Path
  <2>2. bs[i] # at  BY <2>1, SyncAssumption
  <2>3. BlockOf[bs[i]].prev \in Block  BY <1>3, BlockFacts
  <2> QED  BY <2>1, <2>2, <2>3, AncestorsClosed DEF ClosedUnderParent
<1>5. parent \in Ancestors[BlockOf[at].prev]  BY <1>1, AncestorsClosed
<1>6. ToSet(new) = ToSet(bs) \cup {at}  BY <1>3 DEF ToSet
<1>7. ToSet(bs) \in SUBSET (Block \ {Zero}) /\ at \notin ToSet(bs)  BY <1>3, <1>4 DEF ToSet
<1>8. WorkOf[h] = WorkOf[parent] + WorkSum(ToSet(new))
  <2>1. WorkSum(ToSet(new)) = WorkSum(ToSet(bs)) + BlockOf[at].work
    BY <1>6, <1>7, WorkSums
  <2>2. WorkOf[at] = WorkOf[parent] + BlockOf[at].work  BY WorkStep
  <2>3. WorkOf[h] = WorkOf[at] + WorkSum(ToSet(bs))  BY DEF Path
  <2>4. WorkSum(ToSet(bs)) \in Nat /\ BlockOf[at].work \in Nat /\ WorkOf[parent] \in Nat
    BY <1>1, <1>7, WorkSums, BlockFacts, WorkTyped
  <2> HIDE DEF new, parent
  <2> QED  BY <2>1, <2>2, <2>3, <2>4
<1>9. \A i \in 1..(n + 1) : new[i] \in S /\ parent \in Ancestors[BlockOf[new[i]].prev]
  <2>1. at \in S  BY DEF Path
  <2> HIDE DEF new, parent
  <2>2. SUFFICES ASSUME NEW i \in 1..(n + 1)
                 PROVE  new[i] \in S /\ parent \in Ancestors[BlockOf[new[i]].prev]
    OBVIOUS
  <2>3. CASE i = n + 1  BY <1>3, <1>5, <2>1, <2>3 DEF parent
  <2>4. CASE i # n + 1
    <3>1. i \in 1..n  BY <1>3, <2>4
    <3> QED  BY <1>3, <1>4, <3>1
  <2> QED  BY <2>3, <2>4
<1>10. \A i \in 1..n : BlockOf[new[i]].prev = new[i + 1]
  <2> SUFFICES ASSUME NEW i \in 1..n  PROVE BlockOf[new[i]].prev = new[i + 1]
    OBVIOUS
  <2> HIDE DEF new, parent
  <2>1. CASE i = n
    <3>1. bs # <<>>  BY <1>3, <2>1
    <3>2. BlockOf[bs[n]].prev = at  BY <3>1 DEF Path
    <3> QED  BY <1>3, <2>1, <3>2
  <2>2. CASE i # n
    <3>3. n \in Nat  BY <1>3
    <3> HIDE DEF n
    <3>1. i \in 1..(n - 1) /\ i + 1 \in 1..n  BY <2>2, <3>3
    <3>2. BlockOf[bs[i]].prev = bs[i + 1]  BY <3>1 DEF Path, n
    <3> QED  BY <1>3, <3>1, <3>2
  <2> QED  BY <2>1, <2>2
<1> HIDE DEF new
<1>11. Len(new) - 1 = n  BY <1>3
<1> QED  BY <1>2, <1>3, <1>8, <1>9, <1>10, <1>11 DEF Path, new

-----------------------------------------------------------------------------
(* The roles and the walk *)

LEMMA EndTyped ==
  ASSUME IInv, NEW p \in Peer
  PROVE  /\ loc[p] \in Locals /\ loc[p].needed \in Seq(Block \ {Zero})
         /\ loc[p].lcaId \in Block /\ loc[p].got \in Nat
         /\ loc[p].got <= Len(loc[p].needed)
         /\ curHead[p] \in Block /\ curHead[p] \in known[p]
         /\ known[p] \in SUBSET Entity /\ Closed(known[p]) /\ Zero \in known[p]
BY DEF IInv, TypeOK, NodesOK, Locals

LEMMA ReadRoleToSendOK ==
  ASSUME IInv, NEW p \in Peer, Read(p), pc[p] = "sendRole"
  PROVE  IInv'
<1> DEFINE q == Other(p)
           m == Head(inbox[p])
           h == curHead[p]
           l == [loc[p] EXCEPT !.lcaId = h]
<1>1. q \in Peer /\ Other(q) = p  BY OtherFacts
<1>2. inbox[p] # <<>> /\ UNCHANGED <<nodeVars, validated, curHead>>  BY ReadFacts
<1>3. /\ Ahead(p) /\ Fresh(p) /\ Fresh(q) /\ inbox[p] = <<Role("recv")>>
      /\ \/ pc[q] = "recvRole" /\ inbox[q] = <<Role("send")>>
         \/ pc[q] = "recvWalk" /\ inbox[q] = <<>>
  BY <1>2, StageOf DEF IInv, Deciding
<1>4. m = Role("recv") /\ Tail(inbox[p]) = <<>>  BY <1>3, QueueFacts
<1>5. ReadRoleToSend(p, m)
  <2>1. m.kind = "role" /\ m.role = "recv"  BY <1>4 DEF Role
  <2> QED  BY <2>1, FitsFacts, ReadFacts
<1>6. h \in Block /\ h \in known[p] /\ loc[p] \in Locals  BY EndTyped
<1>7. l \in Locals /\ l.needed = <<>> /\ l.got = 0 /\ l.lcaId = h
  BY <1>3, <1>6 DEF Locals, Fresh
<1>8. Goes(p, "sendWalk", l, <<Id(h)>>)
  BY <1>2, <1>5 DEF ReadRoleToSend, Goes, Continue
<1>9. "sendWalk" \in Place /\ Id(h) \in Message /\ l.got <= Len(l.needed)
  BY <1>6, <1>7, PlaceFacts, MessageTyped DEF Entity
<1> HIDE DEF q, h, l, m
<1>10. /\ pc'[p] = "sendWalk" /\ pc'[q] = pc[q]
       /\ loc'[p] = l /\ loc'[q] = loc[q]
       /\ inbox'[p] = Tail(inbox[p])
       /\ inbox[q] = <<>> => inbox'[q] = <<Id(h)>>
       /\ \A n : inbox[q] = <<n>> => inbox'[q] = <<n, Id(h)>>
       /\ curHead' = curHead /\ known' = known
       /\ Together' => IInv'
  BY <1>2, <1>7, <1>8, <1>9, GoesOne DEF q
<1>11. PathOK(p)'
  <2>1. Path(h, <<>>, h, known[p])  BY <1>6, EmptyPath
  <2> QED  BY <1>7, <1>10, <2>1 DEF PathOK, Path, h
<1>12. Ahead(p)' /\ Fresh(q)' /\ SameNeeded(p)'
  BY <1>3, <1>7, <1>10 DEF Ahead, Fresh, SameNeeded, q
<1>13. \/ pc'[q] = "recvRole" /\ inbox'[q] = <<Role("send"), Id(h)>>
       \/ pc'[q] = "recvWalk" /\ inbox'[q] = <<Id(h)>>
  BY <1>3, <1>10
<1>14. Walking(p)'
  BY <1>4, <1>7, <1>10, <1>11, <1>12, <1>13 DEF Walking, Fresh, q
<1> QED  BY <1>10, <1>14 DEF Together

LEMMA ReadRoleToReceiveOK ==
  ASSUME IInv, NEW p \in Peer, Read(p), pc[p] = "recvRole"
  PROVE  IInv'
<1> DEFINE q == Other(p)
           m == Head(inbox[p])
           h == loc[q].lcaId
<1>1. q \in Peer /\ Other(q) = p  BY OtherFacts
<1>2. inbox[p] # <<>> /\ UNCHANGED <<nodeVars, validated, curHead>>  BY ReadFacts
<1>3. /\ Ahead(q) /\ Fresh(p) /\ loc[q].needed = <<>>
      /\ \/ /\ pc[q] = "sendRole" /\ Fresh(q)
            /\ inbox[p] = <<Role("send")>> /\ inbox[q] = <<Role("recv")>>
         \/ /\ pc[q] = "sendWalk" /\ PathOK(q)
            /\ inbox[p] = <<Role("send"), Id(h)>> /\ inbox[q] = <<>>
  <2>1. CASE Deciding(q)
    BY <1>1, <1>2, <2>1 DEF Deciding, Fresh
  <2>2. CASE Walking(q)
    BY <1>1, <1>2, <2>2 DEF Walking
  <2> QED  BY <2>1, <2>2, StageOf DEF IInv
<1>4. /\ m = Role("send")
      /\ inbox[p] = <<Role("send")>> => Tail(inbox[p]) = <<>>
      /\ inbox[p] = <<Role("send"), Id(h)>> => Tail(inbox[p]) = <<Id(h)>>
  <2> DEFINE a == Role("send")
             b == Id(h)
  <2>1. inbox[p] = <<a>> \/ inbox[p] = <<a, b>>  BY <1>3
  <2>2. m = Head(inbox[p]) /\ a = Role("send") /\ b = Id(h)  OBVIOUS
  <2> HIDE DEF a, b, m
  <2>4. /\ Head(<<a>>) = a /\ Tail(<<a>>) = <<>>
        /\ Head(<<a, b>>) = a /\ Tail(<<a, b>>) = <<b>>
    BY QueueFacts
  <2>3. /\ m = a
        /\ inbox[p] = <<a>> => Tail(inbox[p]) = <<>>
        /\ inbox[p] = <<a, b>> => Tail(inbox[p]) = <<b>>
    BY <2>1, <2>2, <2>4 DEF m
  <2> QED  BY <2>2, <2>3
<1>5. ReadRoleToReceive(p, m)
  <2>1. m.kind = "role" /\ m.role = "send"  BY <1>4 DEF Role
  <2> QED  BY <2>1, FitsFacts, ReadFacts
<1>6. Goes(p, "recvWalk", loc[p], <<>>)
  BY <1>2, <1>5 DEF ReadRoleToReceive, Goes, Continue
<1>7. loc[p] \in Locals /\ loc[p].got <= Len(loc[p].needed) /\ "recvWalk" \in Place
  BY EndTyped, PlaceFacts
<1> HIDE DEF q, h, m
<1>8. /\ pc'[p] = "recvWalk" /\ pc'[q] = pc[q]
      /\ loc'[p] = loc[p] /\ loc'[q] = loc[q]
      /\ inbox'[p] = Tail(inbox[p]) /\ inbox'[q] = inbox[q]
      /\ curHead' = curHead /\ known' = known
      /\ Together' => IInv'
  BY <1>2, <1>6, <1>7, GoesSilent DEF q
<1>9. Ahead(q)' /\ Fresh(p)' /\ SameNeeded(q)'
  BY <1>1, <1>3, <1>8 DEF Ahead, Fresh, SameNeeded
<1>10. CASE pc[q] = "sendRole"
  <2>1. Fresh(q)'  BY <1>3, <1>8, <1>10 DEF Fresh
  <2>2. inbox'[p] = <<>> /\ inbox'[q] = <<Role("recv")>>  BY <1>3, <1>4, <1>8, <1>10
  <2>3. Deciding(q)'  BY <1>1, <1>8, <1>9, <1>10, <2>1, <2>2 DEF Deciding
  <2> QED  BY <1>1, <1>8, <2>3 DEF Together
<1>11. CASE pc[q] = "sendWalk"
  <2>1. inbox'[p] = <<Id(h)>> /\ inbox'[q] = <<>>  BY <1>3, <1>4, <1>8, <1>11
  <2>2. PathOK(q)'  BY <1>3, <1>8, <1>11 DEF PathOK, Path
  <2>3. h = loc'[q].lcaId /\ loc'[p].got = 0  BY <1>8, <1>9 DEF h, Fresh
  <2>4. Walking(q)'  BY <1>1, <1>8, <1>9, <1>11, <2>1, <2>2, <2>3 DEF Walking
  <2> QED  BY <1>1, <1>8, <2>4 DEF Together
<1> QED  BY <1>3, <1>10, <1>11

\* The receiver stops the walk at the first id that it knows.
LEMMA ReadWalkIdOK ==
  ASSUME IInv, NEW p \in Peer, Read(p), pc[p] = "recvWalk"
  PROVE  IInv'
<1> DEFINE q == Other(p)
           m == Head(inbox[p])
           at == loc[q].lcaId
           yes == Bool(TRUE)
           no == Bool(FALSE)
<1>1. q \in Peer /\ Other(q) = p  BY OtherFacts
<1>2. inbox[p] # <<>> /\ UNCHANGED <<nodeVars, validated, curHead>>  BY ReadFacts
<1>3. /\ Ahead(q) /\ SameNeeded(q) /\ loc[p].got = 0
      /\ pc[q] = "sendWalk" /\ PathOK(q)
      /\ inbox[p] = <<Id(at)>> /\ inbox[q] = <<>>
  <2>1. CASE Deciding(q)
    BY <1>1, <1>2, <2>1 DEF Deciding
  <2>2. CASE Walking(q)
    BY <1>1, <1>2, <2>2 DEF Walking
  <2> QED  BY <2>1, <2>2, StageOf DEF IInv
<1>4. m = Id(at) /\ Tail(inbox[p]) = <<>>  BY <1>3, QueueFacts
<1>5. m.kind = "id" /\ m.id = at  BY <1>4 DEF Id
<1>6. ReadWalkId(p, m)  BY <1>5, FitsFacts, ReadFacts
<1>7. at \in Block /\ Zero \in known[p] /\ loc[p] \in Locals
  BY <1>1, EndTyped
<1>8. PathOK(q) /\ loc[p].needed = loc[q].needed  BY <1>1, <1>3 DEF SameNeeded
<1>9. loc[p].needed \in Seq(Block \ {Zero})  BY EndTyped
<1>10. {yes, no} \subseteq Message  BY MessageTyped
<1>11. CASE at \notin known[p]
  <2> DEFINE new == Append(loc[p].needed, at)
             l == [loc[p] EXCEPT !.needed = new]
  <2>1. at # Zero  BY <1>7, <1>11
  <2>2. new \in Seq(Block \ {Zero}) /\ Len(new) \in Nat  BY <1>7, <1>9, <2>1
  <2>3. l \in Locals /\ l.needed = new /\ l.got = 0 /\ l.got <= Len(l.needed)
    <3> HIDE DEF new
    <3>1. l \in Locals /\ l.needed = new /\ l.got = 0
      BY <1>3, <1>7, <2>2 DEF Locals
    <3> HIDE DEF l
    <3> QED  BY <2>2, <3>1
  <2>4. Goes(p, "recvWalk", l, <<no>>)
    BY <1>2, <1>5, <1>6, <1>11 DEF ReadWalkId, Goes, Stay, Continue
  <2>5. "recvWalk" \in Place  BY PlaceFacts
  <2> HIDE DEF q, l, m, at, new, no
  <2>6. /\ pc'[p] = "recvWalk" /\ pc'[q] = pc[q]
        /\ loc'[p] = l /\ loc'[q] = loc[q]
        /\ inbox'[p] = Tail(inbox[p])
        /\ inbox[q] = <<>> => inbox'[q] = <<no>>
        /\ curHead' = curHead /\ known' = known
        /\ Together' => IInv'
    BY <1>2, <1>10, <2>3, <2>4, <2>5, GoesOne DEF q
  <2>7. /\ inbox'[p] = <<>> /\ inbox'[q] = <<no>>
        /\ loc'[p].got = 0 /\ loc'[q].lcaId = at
        /\ loc'[p].needed = Append(loc'[q].needed, at)
    BY <1>3, <1>4, <1>8, <2>3, <2>6 DEF new, at
  <2>8. PathOK(q)' /\ Ahead(q)'  BY <1>1, <1>3, <2>6 DEF PathOK, Path, Ahead
  <2>9. Walking(q)'
    BY <1>1, <1>3, <2>1, <2>6, <2>7, <2>8 DEF Walking, no
  <2> QED  BY <1>1, <2>6, <2>9 DEF Together
<1>12. CASE at \in known[p] /\ loc[p].needed = <<>>
  <2>1. Goes(p, "idle", NoLocals, <<yes>>)
    BY <1>2, <1>5, <1>6, <1>12 DEF ReadWalkId, Goes, Fail
  <2>2. "idle" \in Place /\ NoLocals \in Locals /\ NoLocals.got <= Len(NoLocals.needed)
    BY PlaceFacts, LocalsFacts
  <2> HIDE DEF q, m, at, yes
  <2>3. /\ pc'[p] = "idle" /\ pc'[q] = pc[q]
        /\ loc'[q] = loc[q]
        /\ inbox'[p] = Tail(inbox[p])
        /\ inbox[q] = <<>> => inbox'[q] = <<yes>>
        /\ curHead' = curHead /\ known' = known
        /\ Together' => IInv'
    BY <1>2, <1>10, <2>1, <2>2, GoesOne DEF q
  <2>4. PathOK(q)'  BY <1>1, <1>3, <2>3 DEF PathOK, Path
  <2>5. Walking(q)'
    BY <1>1, <1>3, <1>4, <1>8, <1>12, <2>3, <2>4 DEF Walking, yes
  <2> QED  BY <1>1, <2>3, <2>5 DEF Together
<1>13. CASE at \in known[p] /\ loc[p].needed # <<>>
  <2> DEFINE l == [loc[p] EXCEPT !.lcaId = at]
  <2>1. /\ l \in Locals /\ l.needed = loc[p].needed /\ l.lcaId = at
        /\ l.got = 0 /\ l.got <= Len(l.needed)
    <3>1. /\ l \in Locals /\ l.needed = loc[p].needed /\ l.lcaId = at
          /\ l.got = 0
      BY <1>3, <1>7 DEF Locals
    <3>2. Len(loc[p].needed) \in Nat  BY <1>9
    <3> HIDE DEF l
    <3> QED  BY <3>1, <3>2
  <2>2. Goes(p, "recvBlocks", l, <<yes>>)
    BY <1>2, <1>5, <1>6, <1>13 DEF ReadWalkId, Goes, Continue
  <2>3. "recvBlocks" \in Place  BY PlaceFacts
  <2> HIDE DEF q, l, m, at, yes
  <2>4. /\ pc'[p] = "recvBlocks" /\ pc'[q] = pc[q]
        /\ loc'[p] = l /\ loc'[q] = loc[q]
        /\ inbox'[p] = Tail(inbox[p])
        /\ inbox[q] = <<>> => inbox'[q] = <<yes>>
        /\ curHead' = curHead /\ known' = known
        /\ Together' => IInv'
    BY <1>2, <1>10, <2>1, <2>2, <2>3, GoesOne DEF q
  <2>5. PathOK(q)' /\ Ahead(q)' /\ SameNeeded(q)'
    BY <1>1, <1>3, <1>8, <2>1, <2>4 DEF PathOK, Path, Ahead, SameNeeded
  <2>6. loc'[q].lcaId = at /\ loc'[q].needed # <<>>  BY <1>8, <1>13, <2>4 DEF at
  <2>7. Walking(q)'
    BY <1>1, <1>3, <1>4, <2>1, <2>4, <2>5, <2>6 DEF Walking, yes
  <2> QED  BY <1>1, <2>4, <2>7 DEF Together
<1> QED  BY <1>11, <1>12, <1>13

\* The messages with the needed blocks, as they are read.
LEMMA BlocksFromFacts ==
  ASSUME NEW bs \in Seq(Block \ {Zero}), NEW got \in Nat
  PROVE  /\ BlocksFrom(bs, got) \in Seq(Message)
         /\ got < Len(bs) =>
              /\ BlocksFrom(bs, got) # <<>>
              /\ Head(BlocksFrom(bs, got)) = BlockMsg(bs[got + 1])
              /\ Tail(BlocksFrom(bs, got)) = BlocksFrom(bs, got + 1)
         /\ BlocksFrom(bs, Len(bs)) = <<>>
         /\ BlocksFrom(bs, 0) = [i \in DOMAIN bs |-> BlockMsg(bs[i])]
<1> DEFINE n == Len(bs)
           s == BlocksFrom(bs, got)
           r == BlocksFrom(bs, got + 1)
<1>1. n \in Nat /\ DOMAIN bs = 1..n /\ \A i \in 1..n : bs[i] \in Block \ {Zero}
  BY ElementOfSeq
<1> HIDE DEF n
<1>2. \A g \in Nat : \A i \in 1..(n - g) : BlockMsg(bs[g + i]) \in Message
  BY <1>1, MessageTyped
<1>3. ASSUME NEW g \in Nat
      PROVE  /\ BlocksFrom(bs, g) \in Seq(Message)
             /\ Len(BlocksFrom(bs, g)) = IF g <= n THEN n - g ELSE 0
  <2> DEFINE k == IF g <= n THEN n - g ELSE 0
             f == [i \in 1..k |-> BlockMsg(bs[g + i])]
  <2>1. k \in Nat /\ 1..k = 1..(n - g)  BY <1>1
  <2>2. BlocksFrom(bs, g) = f  BY <2>1 DEF BlocksFrom, n
  <2> HIDE DEF k
  <2>3. \A i \in 1..k : BlockMsg(bs[g + i]) \in Message  BY <1>2, <2>1
  <2>4. f \in Seq(Message) /\ Len(f) = k  BY <2>1, <2>3
  <2> QED  BY <2>2, <2>4 DEF k
<1>4. ASSUME got < n
      PROVE  s # <<>> /\ Head(s) = BlockMsg(bs[got + 1]) /\ Tail(s) = r
  <2>10. got <= n /\ got + 1 <= n /\ got + 1 \in Nat /\ n - got > 0  BY <1>1, <1>4
  <2>11. s \in Seq(Message) /\ Len(s) = IF got <= n THEN n - got ELSE 0  BY <1>3
  <2>12. r \in Seq(Message) /\ Len(r) = IF got + 1 <= n THEN n - (got + 1) ELSE 0
    BY <1>3, <2>10
  <2>1. s \in Seq(Message) /\ Len(s) = n - got /\ Len(s) > 0  BY <2>10, <2>11
  <2>2. r \in Seq(Message) /\ Len(r) = n - (got + 1)  BY <2>10, <2>12
  <2>3. /\ \A i \in 1..(n - got) : s[i] = BlockMsg(bs[got + i])
        /\ \A i \in 1..(n - (got + 1)) : r[i] = BlockMsg(bs[(got + 1) + i])
    BY DEF BlocksFrom, n
  <2>4. \A i \in 1..(n - (got + 1)) : r[i] = s[i + 1]
    <3> SUFFICES ASSUME NEW i \in 1..(n - (got + 1))  PROVE r[i] = s[i + 1]
      OBVIOUS
    <3>1. i + 1 \in 1..(n - got) /\ (got + 1) + i = got + (i + 1)  BY <1>1
    <3> HIDE DEF s, r
    <3> QED  BY <2>3, <3>1
  <2> HIDE DEF s, r
  <2>5. s # <<>> /\ Head(s) = s[1]  BY <2>1
  <2>6. s[1] = BlockMsg(bs[got + 1])
    <3>1. 1 \in 1..(n - got)  BY <1>1, <1>4
    <3> QED  BY <2>3, <3>1
  <2>7. Tail(s) \in Seq(Message) /\ Len(Tail(s)) = Len(r)
        /\ \A i \in 1..Len(r) : Tail(s)[i] = s[i + 1]
    BY <1>1, <2>1, <2>2, <2>5, HeadTailProperties
  <2>8. \A i \in 1..Len(r) : Tail(s)[i] = r[i]  BY <2>2, <2>4, <2>7
  <2>9. Tail(s) = r  BY <2>2, <2>7, <2>8, SeqEqual
  <2> QED  BY <2>5, <2>6, <2>9
<1>5. BlocksFrom(bs, n) = <<>>
  <2>1. BlocksFrom(bs, n) \in Seq(Message) /\ Len(BlocksFrom(bs, n)) = 0  BY <1>1, <1>3
  <2> QED  BY <2>1, EmptySeq
<1>6. BlocksFrom(bs, 0) = [i \in DOMAIN bs |-> BlockMsg(bs[i])]
  <2>1. 1..(n - 0) = DOMAIN bs /\ \A i \in DOMAIN bs : 0 + i = i  BY <1>1
  <2> QED  BY <2>1 DEF BlocksFrom, n
<1> QED  BY <1>3, <1>4, <1>5, <1>6 DEF n

\* The sender goes on to the parent, sends all it has noted, or gives up.
LEMMA ReadWalkReplyOK ==
  ASSUME IInv, NEW p \in Peer, Read(p), pc[p] = "sendWalk"
  PROVE  IInv'
<1> DEFINE q == Other(p)
           m == Head(inbox[p])
           at == loc[p].lcaId
           bs == loc[p].needed
<1>1. q \in Peer /\ Other(q) = p  BY OtherFacts
<1>2. inbox[p] # <<>> /\ UNCHANGED <<nodeVars, validated, curHead>>  BY ReadFacts
<1>3. Walking(p)  BY StageOf DEF IInv
<1>4. ASSUME NEW ok \in BOOLEAN, inbox[p] = <<Bool(ok)>>
      PROVE  Tail(inbox[p]) = <<>> /\ m.ok = ok /\ ReadWalkReply(p, m)
  <2>1. m = Bool(ok) /\ Tail(inbox[p]) = <<>>  BY <1>4, QueueFacts
  <2>2. m.kind = "bool" /\ m.ok = ok  BY <2>1 DEF Bool
  <2> QED  BY <2>1, <2>2, FitsFacts, ReadFacts
<1>5. loc[p] \in Locals /\ bs \in Seq(Block \ {Zero}) /\ at \in Block
      /\ known[p] \in SUBSET Entity /\ Closed(known[p]) /\ loc[p].got <= Len(bs)
      /\ curHead[p] \in Block /\ loc[p].got \in Nat
  BY EndTyped
<1>6. \/ /\ pc[q] = "recvWalk" /\ Ahead(p) /\ loc[q].got = 0
         /\ at # Zero /\ loc[q].needed = Append(bs, at)
         /\ inbox[p] = <<Bool(FALSE)>> /\ inbox[q] = <<>>
      \/ /\ pc[q] = "recvBlocks" /\ Ahead(p) /\ SameNeeded(p) /\ loc[q].got = 0
         /\ bs # <<>> /\ loc[q].lcaId = at
         /\ inbox[p] = <<Bool(TRUE)>> /\ inbox[q] = <<>>
      \/ /\ pc[q] = "idle" /\ bs = <<>>
         /\ inbox[p] = <<Bool(TRUE)>> /\ inbox[q] = <<>>
  BY <1>2, <1>3 DEF Walking
<1>7. PathOK(p)  BY <1>3 DEF Walking
<1>8. CASE /\ pc[q] = "recvWalk" /\ Ahead(p) /\ loc[q].got = 0
           /\ at # Zero /\ loc[q].needed = Append(bs, at)
           /\ inbox[p] = <<Bool(FALSE)>> /\ inbox[q] = <<>>
  <2> DEFINE parent == BlockOf[at].prev
             new == Append(bs, at)
             l == [loc[p] EXCEPT !.lcaId = parent, !.needed = new]
  <2>1. Tail(inbox[p]) = <<>> /\ ~m.ok /\ ReadWalkReply(p, m)  BY <1>4, <1>8
  <2>2. Goes(p, "sendWalk", l, <<Id(parent)>>)
    BY <1>2, <2>1 DEF ReadWalkReply, Goes, Stay, Continue
  <2>3. parent \in Block /\ Id(parent) \in Message /\ "sendWalk" \in Place
    BY <1>5, <1>8, BlockFacts, MessageTyped, PlaceFacts DEF Entity
  <2>4. new \in Seq(Block \ {Zero}) /\ Len(new) = Len(bs) + 1 /\ Len(bs) \in Nat
    BY <1>5, <1>8
  <2>5. Path(curHead[p], new, parent, known[p])
    BY <1>5, <1>7, <1>8, PathStep DEF PathOK
  <2> HIDE DEF new, parent
  <2>6. l \in Locals /\ l.needed = new /\ l.lcaId = parent /\ l.got = loc[p].got
    BY <1>5, <2>3, <2>4 DEF Locals
  <2> HIDE DEF l, q, m
  <2>7. l.got <= Len(l.needed)  BY <1>5, <2>4, <2>6
  <2>8. /\ pc'[p] = "sendWalk" /\ pc'[q] = pc[q]
        /\ loc'[p] = l /\ loc'[q] = loc[q]
        /\ inbox'[p] = Tail(inbox[p])
        /\ inbox[q] = <<>> => inbox'[q] = <<Id(parent)>>
        /\ curHead' = curHead /\ known' = known
        /\ Together' => IInv'
    BY <1>2, <2>2, <2>3, <2>6, <2>7, GoesOne DEF q
  <2>9. PathOK(p)'  BY <2>5, <2>6, <2>8 DEF PathOK, Path
  <2>10. Ahead(p)' /\ SameNeeded(p)'
    BY <1>8, <2>6, <2>8 DEF Ahead, SameNeeded, q, new
  <2>11. Walking(p)'
    BY <1>8, <2>1, <2>6, <2>8, <2>9, <2>10 DEF Walking, q
  <2> QED  BY <2>8, <2>11 DEF Together
<1>9. CASE /\ pc[q] = "recvBlocks" /\ Ahead(p) /\ SameNeeded(p) /\ loc[q].got = 0
           /\ bs # <<>> /\ loc[q].lcaId = at
           /\ inbox[p] = <<Bool(TRUE)>> /\ inbox[q] = <<>>
  <2> DEFINE replies == BlocksFrom(bs, 0)
  <2>1. Tail(inbox[p]) = <<>> /\ m.ok /\ ReadWalkReply(p, m)  BY <1>4, <1>9
  <2>2. replies = [i \in DOMAIN bs |-> BlockMsg(bs[i])] /\ replies \in Seq(Message)
    BY <1>5, BlocksFromFacts
  <2> HIDE DEF replies
  <2>3. Goes(p, "verdict", loc[p], replies)
    BY <1>2, <1>9, <2>1, <2>2 DEF ReadWalkReply, Goes, Continue
  <2>4. "verdict" \in Place  BY PlaceFacts
  <2>10. loc[p].got <= Len(loc[p].needed) /\ loc[p] \in Locals  BY <1>5
  <2> HIDE DEF q, m, bs, at
  <2>5. /\ pc'[p] = "verdict" /\ pc'[q] = pc[q]
        /\ loc'[p] = loc[p] /\ loc'[q] = loc[q]
        /\ inbox'[p] = Tail(inbox[p]) /\ inbox'[q] = inbox[q] \o replies
        /\ curHead' = curHead /\ known' = known
        /\ Together' => IInv'
    BY <1>2, <2>2, <2>3, <2>4, <2>10, GoesFacts DEF q
  <2>6. inbox'[q] = replies  BY <1>9, <2>2, <2>5
  <2>7. loc'[q].got < Len(bs) /\ replies = BlocksFrom(bs, loc'[q].got)
    BY <1>5, <1>9, <2>5 DEF replies, bs
  <2>8. PathOK(p)' /\ Ahead(p)' /\ SameNeeded(p)'
    BY <1>7, <1>9, <2>5 DEF PathOK, Path, Ahead, SameNeeded, q, bs
  <2>9. SendingBlocks(p)'
    BY <1>9, <2>1, <2>5, <2>6, <2>7, <2>8 DEF SendingBlocks, q, bs, at
  <2> QED  BY <2>5, <2>9 DEF Together
<1>10. CASE /\ pc[q] = "idle" /\ bs = <<>>
            /\ inbox[p] = <<Bool(TRUE)>> /\ inbox[q] = <<>>
  <2>1. Tail(inbox[p]) = <<>> /\ m.ok /\ ReadWalkReply(p, m)  BY <1>4, <1>10
  <2>2. Goes(p, "idle", NoLocals, <<>>)
    BY <1>2, <1>10, <2>1 DEF ReadWalkReply, Goes, Fail
  <2> HIDE DEF m
  <2> QED  BY <1>2, <1>10, <2>1, <2>2, ReturnFacts
<1> QED  BY <1>6, <1>8, <1>9, <1>10

-----------------------------------------------------------------------------
(* The blocks and the entities *)

\* The chain that the receiver was sent passes its verification.
LEMMA ChainVerified ==
  ASSUME IInv, NEW p \in Peer, PathOK(Other(p)), Ahead(Other(p)), SameNeeded(Other(p)),
         loc[p].needed # <<>>, loc[p].lcaId = loc[Other(p)].lcaId
  PROVE  /\ QuickVerifyChain(p)
         /\ \A i \in DOMAIN loc[p].needed :
               BlockOf[loc[p].needed[i]].merkleRoot \in known[Other(p)] \cap Merkle
<1> DEFINE q == Other(p)
           bs == loc[p].needed
<1>1. q \in Peer /\ Other(q) = p  BY OtherFacts
<1>2. bs = loc[q].needed /\ WorkOf[curHead[p]] < WorkOf[curHead[q]]
  BY <1>1 DEF SameNeeded, Ahead
<1>3. bs \in Seq(Block \ {Zero}) /\ loc[p].lcaId = loc[q].lcaId  BY EndTyped
<1>4. Path(curHead[q], bs, loc[p].lcaId, known[q])  BY <1>2, <1>3 DEF PathOK
<1>5. \A i \in DOMAIN bs : bs[i] \in (Block \ {Zero}) \cap known[q]
  BY <1>3, <1>4, ElementOfSeq DEF Path
<1>6. \A i \in DOMAIN bs : BlockOf[bs[i]].headerOk
  BY <1>1, <1>5 DEF IInv, NodesOK
<1>7. \A i \in DOMAIN bs : BlockOf[bs[i]].merkleRoot \in known[q] \cap Merkle
  <2>1. \A b \in (Block \ {Zero}) \cap known[q] :
           BlockOf[b].merkleRoot \in known[q] \cap Merkle
    <3>1. Closed(known[q])  BY <1>1, EndTyped
    <3> QED  BY <3>1, BlockFacts, SyncAssumption DEF Closed, Refs
  <2> QED  BY <1>5, <2>1
<1>8. QuickVerifyChain(p)
  BY <1>2, <1>4, <1>6 DEF QuickVerifyChain, Path
<1> QED  BY <1>7, <1>8

\* The last block completes a chain that is verified at once.
LEMMA ReadBlockOK ==
  ASSUME IInv, NEW p \in Peer, Read(p), pc[p] = "recvBlocks"
  PROVE  IInv'
<1> DEFINE q == Other(p)
           m == Head(inbox[p])
           bs == loc[p].needed
           got == loc[p].got + 1
<1>1. q \in Peer /\ Other(q) = p  BY OtherFacts
<1>2. inbox[p] # <<>> /\ UNCHANGED <<nodeVars, validated, curHead>>  BY ReadFacts
<1>3. SendingBlocks(q)
  <2>1. ~Walking(q)  BY <1>1, <1>2 DEF Walking
  <2> QED  BY <2>1, StageOf DEF IInv
<1>4. /\ loc[p] \in Locals /\ bs \in Seq(Block \ {Zero}) /\ loc[p].got \in Nat
      /\ Len(bs) \in Nat /\ loc[p].lcaId \in Block
  BY EndTyped
<1>5. /\ pc[q] = "verdict" /\ PathOK(q) /\ Ahead(q) /\ bs = loc[q].needed
      /\ loc[p].got < Len(bs) /\ loc[p].lcaId = loc[q].lcaId
      /\ inbox[q] = <<>> /\ inbox[p] = BlocksFrom(bs, loc[p].got)
  BY <1>1, <1>3 DEF SendingBlocks, SameNeeded
<1>6. /\ m = BlockMsg(bs[got]) /\ Tail(inbox[p]) = BlocksFrom(bs, got)
  BY <1>4, <1>5, BlocksFromFacts
<1>7. got \in Nat /\ got <= Len(bs)  BY <1>4, <1>5
<1>8. ReadBlock(p, m)
  <2>1. m.kind = "block" /\ m.id = bs[got]  BY <1>6 DEF BlockMsg
  <2> QED  BY <2>1, FitsFacts, ReadFacts
<1>9. CASE got < Len(bs)
  <2> DEFINE l == [loc[p] EXCEPT !.got = got]
  <2>1. Goes(p, "recvBlocks", l, <<>>)
    BY <1>2, <1>8, <1>9 DEF ReadBlock, Goes, Stay, Continue
  <2> HIDE DEF got
  <2>2. l \in Locals /\ l.needed = bs /\ l.got = got /\ l.lcaId = loc[p].lcaId
    BY <1>4, <1>7 DEF Locals
  <2>3. "recvBlocks" \in Place  BY PlaceFacts
  <2> HIDE DEF l, q, m, bs
  <2>4. l.got <= Len(l.needed)  BY <1>7, <2>2
  <2>5. /\ pc'[p] = "recvBlocks" /\ pc'[q] = pc[q]
        /\ loc'[p] = l /\ loc'[q] = loc[q]
        /\ inbox'[p] = Tail(inbox[p]) /\ inbox'[q] = inbox[q]
        /\ curHead' = curHead /\ known' = known
        /\ Together' => IInv'
    BY <1>2, <2>1, <2>2, <2>3, <2>4, GoesSilent DEF q
  <2>6. PathOK(q)' /\ Ahead(q)' /\ SameNeeded(q)'
    BY <1>1, <1>5, <2>2, <2>5 DEF PathOK, Path, Ahead, SameNeeded
  <2>7. SendingBlocks(q)'
    BY <1>1, <1>5, <1>6, <1>9, <2>2, <2>5, <2>6 DEF SendingBlocks
  <2> QED  BY <1>1, <2>5, <2>7 DEF Together
<1>10. CASE ~(got < Len(bs))
  <2> DEFINE roots == [i \in DOMAIN bs |-> BlockOf[bs[i]].merkleRoot]
             l == [loc[p] EXCEPT !.got = got, !.idQueue = roots]
             yes == Bool(TRUE)
  <2>1. bs # <<>>
    <3>1. Len(bs) # 0  BY <1>4, <1>5
    <3> QED  BY <3>1
  <2>2. /\ QuickVerifyChain(p)
        /\ \A i \in DOMAIN bs : BlockOf[bs[i]].merkleRoot \in known[q] \cap Merkle
    BY <1>1, <1>5, <2>1, ChainVerified DEF SameNeeded
  <2>3. got = Len(bs)  BY <1>7, <1>10
  <2>4. Tail(inbox[p]) = <<>>  BY <1>4, <1>6, <2>3, BlocksFromFacts
  <2>5. Goes(p, "request", l, <<yes>>)
    BY <1>2, <1>8, <1>10, <2>2 DEF ReadBlock, Goes, Continue
  <2>6. roots \in Seq(Tx \cup Merkle) /\ ToSet(roots) \subseteq known[q]
    <3>1. DOMAIN bs = 1..Len(bs)  BY <1>4
    <3>2. \A i \in 1..Len(bs) : BlockOf[bs[i]].merkleRoot \in (Tx \cup Merkle) \cap known[q]
      BY <2>2, <3>1
    <3>3. roots = [i \in 1..Len(bs) |-> BlockOf[bs[i]].merkleRoot]  BY <3>1
    <3> HIDE DEF bs
    <3>4. roots \in Seq(Tx \cup Merkle)  BY <1>4, <3>2, <3>3
    <3>5. ToSet(roots) \subseteq known[q]  BY <3>2, <3>3 DEF ToSet
    <3> QED  BY <3>4, <3>5
  <2> HIDE DEF roots, got
  <2>7. l \in Locals /\ l.needed = bs /\ l.got = got /\ l.idQueue = roots
    BY <1>4, <1>7, <2>6 DEF Locals
  <2>8. "request" \in Place /\ yes \in Message  BY PlaceFacts, MessageTyped
  <2> HIDE DEF l, q, m, bs, yes
  <2>9. l.got <= Len(l.needed)  BY <1>7, <2>7
  <2>10. /\ pc'[p] = "request" /\ pc'[q] = pc[q]
         /\ loc'[p] = l /\ loc'[q] = loc[q]
         /\ inbox'[p] = Tail(inbox[p])
         /\ inbox[q] = <<>> => inbox'[q] = <<yes>>
         /\ curHead' = curHead /\ known' = known
         /\ Together' => IInv'
    BY <1>2, <2>5, <2>7, <2>8, <2>9, GoesOne DEF q
  <2>11. SendingEntities(q)'
    BY <1>1, <1>5, <2>1, <2>4, <2>6, <2>7, <2>10 DEF SendingEntities, yes
  <2> QED  BY <1>1, <2>10, <2>11 DEF Together
<1> QED  BY <1>9, <1>10

LEMMA PairRange ==
  ASSUME NEW S, NEW a \in S, NEW b \in S
  PROVE  <<a, b>> \in Seq(S) /\ ToSet(<<a, b>>) = {a, b}
<1> DEFINE s == <<a, b>>
<1>1. s \in Seq(S) /\ DOMAIN s = {1, 2} /\ s[1] = a /\ s[2] = b  OBVIOUS
<1> HIDE DEF s
<1>2. ToSet(s) = {a, b}  BY <1>1 DEF ToSet
<1> QED  BY <1>1, <1>2 DEF s

LEMMA ConcatRange ==
  ASSUME NEW S, NEW s \in Seq(S), NEW t \in Seq(S)
  PROVE  s \o t \in Seq(S) /\ ToSet(s \o t) = ToSet(s) \cup ToSet(t)
<1> DEFINE u == s \o t
           n == Len(s)
           k == Len(t)
<1>1. /\ u \in Seq(S) /\ Len(u) = n + k /\ n \in Nat /\ k \in Nat
      /\ \A i \in 1..n : u[i] = s[i]
      /\ \A i \in 1..k : u[n + i] = t[i]
  OBVIOUS
<1>2. DOMAIN s = 1..n /\ DOMAIN t = 1..k /\ DOMAIN u = 1..(n + k)  BY <1>1
<1> HIDE DEF u, n, k
<1>3. ASSUME NEW i \in 1..(n + k)  PROVE u[i] \in ToSet(s) \cup ToSet(t)
  <2>1. CASE i <= n
    <3>1. i \in 1..n  BY <1>1, <2>1
    <3> QED  BY <1>1, <1>2, <3>1 DEF ToSet
  <2>2. CASE ~(i <= n)
    <3>1. i - n \in 1..k /\ n + (i - n) = i  BY <1>1, <2>2
    <3>2. u[i] = t[i - n]  BY <1>1, <3>1
    <3> QED  BY <1>2, <3>1, <3>2 DEF ToSet
  <2> QED  BY <2>1, <2>2
<1>4. ASSUME NEW i \in 1..n  PROVE s[i] \in ToSet(u)
  <2>1. i \in 1..(n + k)  BY <1>1
  <2> QED  BY <1>1, <1>2, <2>1 DEF ToSet
<1>5. ASSUME NEW i \in 1..k  PROVE t[i] \in ToSet(u)
  <2>1. n + i \in 1..(n + k)  BY <1>1
  <2> QED  BY <1>1, <1>2, <2>1 DEF ToSet
<1>6. ToSet(u) = ToSet(s) \cup ToSet(t)
  <2>1. ToSet(u) \subseteq ToSet(s) \cup ToSet(t)  BY <1>2, <1>3 DEF ToSet
  <2>2. ToSet(s) \subseteq ToSet(u)  BY <1>2, <1>4 DEF ToSet
  <2>3. ToSet(t) \subseteq ToSet(u)  BY <1>2, <1>5 DEF ToSet
  <2> QED  BY <2>1, <2>2, <2>3
<1> QED  BY <1>1, <1>6 DEF u

\* The sender reads that its chain was accepted; it was.
LEMMA ReadVerdictOK ==
  ASSUME IInv, NEW p \in Peer, Read(p), pc[p] = "verdict"
  PROVE  IInv'
<1> DEFINE q == Other(p)
           m == Head(inbox[p])
<1>1. q \in Peer /\ Other(q) = p  BY OtherFacts
<1>2. inbox[p] # <<>> /\ UNCHANGED <<nodeVars, validated, curHead>>  BY ReadFacts
<1>3. SendingEntities(p) \/ Ending(p)
  <2>1. ~SendingBlocks(p)  BY <1>2 DEF SendingBlocks
  <2> QED  BY <2>1, StageOf DEF IInv
<1>4. ASSUME m = Bool(TRUE)
      PROVE  /\ pc'[p] = "serve" /\ pc'[q] = pc[q]
             /\ loc'[p] = loc[p] /\ loc'[q] = loc[q]
             /\ inbox'[p] = Tail(inbox[p]) /\ inbox'[q] = inbox[q]
             /\ curHead' = curHead /\ known' = known
             /\ Together' => IInv'
  <2>1. m.kind = "bool" /\ m.ok  BY <1>4 DEF Bool
  <2>2. ReadVerdict(p, m)  BY <2>1, FitsFacts, ReadFacts
  <2>3. Goes(p, "serve", loc[p], <<>>)
    BY <1>2, <2>1, <2>2 DEF ReadVerdict, Goes, Continue
  <2>4. "serve" \in Place /\ loc[p] \in Locals /\ loc[p].got <= Len(loc[p].needed)
    BY PlaceFacts, EndTyped
  <2> HIDE DEF q, m
  <2> QED  BY <1>2, <2>3, <2>4, GoesSilent DEF q
<1>5. CASE SendingEntities(p)
  <2> DEFINE asked == Id(loc[q].asked)
  <2>1. /\ loc[q].needed # <<>>
        /\ ToSet(loc[q].idQueue) \subseteq known[p]
        /\ pc[q] = "recvEntity" => loc[q].asked \in known[p] \ Block
        /\ inbox[q] = <<>>
        /\ \/ pc[q] = "request" /\ inbox[p] = <<Bool(TRUE)>>
           \/ pc[q] = "recvEntity" /\ inbox[p] = <<Bool(TRUE), asked>>
    BY <1>5 DEF SendingEntities
  <2>2. /\ m = Bool(TRUE)
        /\ pc[q] = "request" => Tail(inbox[p]) = <<>>
        /\ pc[q] = "recvEntity" => Tail(inbox[p]) = <<asked>>
    <3> DEFINE a == Bool(TRUE)
    <3>1. /\ Head(<<a>>) = a /\ Tail(<<a>>) = <<>>
          /\ Head(<<a, asked>>) = a /\ Tail(<<a, asked>>) = <<asked>>
      BY QueueFacts
    <3> HIDE DEF a, asked
    <3>2. /\ m = a
          /\ pc[q] = "request" => Tail(inbox[p]) = <<>>
          /\ pc[q] = "recvEntity" => Tail(inbox[p]) = <<asked>>
      BY <2>1, <3>1 DEF a
    <3> QED  BY <3>2 DEF a
  <2> HIDE DEF q, m
  <2>3. asked' = asked  BY <1>4, <2>2
  <2>4. SendingEntities(p)'
    BY <1>4, <2>1, <2>2, <2>3 DEF SendingEntities, q
  <2> QED  BY <1>4, <2>2, <2>4 DEF Together
<1>6. CASE Ending(p)
  <2>1. pc[q] = "idle" /\ inbox[q] = <<>>
        /\ inbox[p] = <<Bool(TRUE), Id(Zero), Complete>>
    BY <1>6 DEF Ending
  <2>2. m = Bool(TRUE) /\ Tail(inbox[p]) = <<Id(Zero), Complete>>
    <3> DEFINE a == Bool(TRUE)
               b == Id(Zero)
               c == Complete
    <3>1. Head(<<a, b, c>>) = a /\ Tail(<<a, b, c>>) = <<b, c>>  BY QueueFacts
    <3> QED  BY <2>1, <3>1
  <2> HIDE DEF q, m
  <2>3. Ending(p)'  BY <1>4, <2>1, <2>2 DEF Ending, q
  <2> QED  BY <1>4, <2>2, <2>3 DEF Together
<1> QED  BY <1>3, <1>5, <1>6

\* Whatever the sender is asked for it has, and it is no block.
LEMMA ReadRequestOK ==
  ASSUME IInv, NEW p \in Peer, Read(p), pc[p] = "serve"
  PROVE  IInv'
<1> DEFINE q == Other(p)
           m == Head(inbox[p])
<1>1. q \in Peer /\ Other(q) = p  BY OtherFacts
<1>2. inbox[p] # <<>> /\ UNCHANGED <<nodeVars, validated, curHead>>  BY ReadFacts
<1>3. loc[p] \in Locals /\ loc[p].got <= Len(loc[p].needed) /\ known[p] \in SUBSET Entity
  BY EndTyped
<1>4. ASSUME NEW id, m = Id(id)  PROVE ReadRequest(p, m) /\ m.id = id
  <2>1. m.kind = "id" /\ m.id = id  BY <1>4 DEF Id
  <2> QED  BY <2>1, FitsFacts, ReadFacts
<1>5. CASE SendingEntities(p)
  <2> DEFINE id == loc[q].asked
  <2>1. /\ loc[q].needed # <<>>
        /\ ToSet(loc[q].idQueue) \subseteq known[p]
        /\ pc[q] = "recvEntity" /\ id \in known[p] \ Block
        /\ inbox[q] = <<>> /\ inbox[p] = <<Id(id)>>
    BY <1>2, <1>5 DEF SendingEntities
  <2>2. m = Id(id) /\ Tail(inbox[p]) = <<>>  BY <2>1, QueueFacts
  <2>3. ReadRequest(p, m) /\ m.id = id  BY <1>4, <2>2
  <2>4. id # Zero /\ id \in Tx \cup Merkle
    BY <1>3, <2>1, EntitiesAssumption DEF Entity
  <2>5. Goes(p, "serve", loc[p], <<EntityMsg(id)>>)
    BY <1>2, <2>1, <2>3, <2>4 DEF ReadRequest, Goes, Stay, Continue
  <2>6. "serve" \in Place /\ EntityMsg(id) \in Message  BY <2>4, PlaceFacts, MessageTyped
  <2> HIDE DEF q, m, id
  <2>7. /\ pc'[p] = "serve" /\ pc'[q] = pc[q]
        /\ loc'[p] = loc[p] /\ loc'[q] = loc[q]
        /\ inbox'[p] = Tail(inbox[p])
        /\ inbox[q] = <<>> => inbox'[q] = <<EntityMsg(id)>>
        /\ curHead' = curHead /\ known' = known
        /\ Together' => IInv'
    BY <1>2, <1>3, <2>5, <2>6, GoesOne DEF q
  <2>8. id = loc'[q].asked  BY <2>7 DEF id
  <2>9. SendingEntities(p)'
    BY <2>1, <2>2, <2>7, <2>8 DEF SendingEntities, q
  <2> QED  BY <2>7, <2>9 DEF Together
<1>6. CASE Ending(p)
  <2>1. pc[q] = "idle" /\ inbox[q] = <<>> /\ inbox[p] = <<Id(Zero), Complete>>
    BY <1>6 DEF Ending
  <2>2. m = Id(Zero) /\ Tail(inbox[p]) = <<Complete>>
    <3> DEFINE a == Id(Zero)
               b == Complete
    <3>1. Head(<<a, b>>) = a /\ Tail(<<a, b>>) = <<b>>  BY QueueFacts
    <3> QED  BY <2>1, <3>1
  <2>3. ReadRequest(p, m) /\ m.id = Zero  BY <1>4, <2>2
  <2>4. Goes(p, "complete", loc[p], <<>>)
    BY <1>2, <2>3 DEF ReadRequest, Goes, Continue
  <2>5. "complete" \in Place  BY PlaceFacts
  <2> HIDE DEF q, m
  <2>6. /\ pc'[p] = "complete" /\ pc'[q] = pc[q]
        /\ inbox'[p] = Tail(inbox[p]) /\ inbox'[q] = inbox[q]
        /\ Together' => IInv'
    BY <1>2, <1>3, <2>4, <2>5, GoesSilent DEF q
  <2>7. Ending(p)'  BY <2>1, <2>2, <2>6 DEF Ending, q
  <2> QED  BY <2>6, <2>7 DEF Together
<1> QED  BY <1>5, <1>6, StageOf DEF IInv

LEMMA ReadCompleteOK ==
  ASSUME IInv, NEW p \in Peer, Read(p), pc[p] = "complete"
  PROVE  IInv'
<1> DEFINE q == Other(p)
           m == Head(inbox[p])
<1>1. q \in Peer /\ Other(q) = p  BY OtherFacts
<1>2. inbox[p] # <<>> /\ UNCHANGED <<nodeVars, validated, curHead>>  BY ReadFacts
<1>3. pc[q] = "idle" /\ inbox[q] = <<>> /\ inbox[p] = <<Complete>>
  BY StageOf DEF IInv, Ending
<1>4. m = Complete /\ Tail(inbox[p]) = <<>>  BY <1>3, QueueFacts
<1>5. ReadComplete(p, m)
  <2>1. m.kind = "complete"  BY <1>4 DEF Complete
  <2> QED  BY <2>1, FitsFacts, ReadFacts
<1>6. Goes(p, "idle", NoLocals, <<>>)
  BY <1>2, <1>5 DEF ReadComplete, Goes, Return
<1> HIDE DEF m
<1> QED  BY <1>2, <1>3, <1>4, <1>6, ReturnFacts

\* The sender has a merkle's children too, so what is queued it has.
LEMMA ReadEntityOK ==
  ASSUME IInv, NEW p \in Peer, Read(p), pc[p] = "recvEntity"
  PROVE  IInv'
<1> DEFINE q == Other(p)
           m == Head(inbox[p])
           id == loc[p].asked
           queue == loc[p].idQueue
           l == IF id \in Tx THEN [loc[p] EXCEPT !.newTxs = Append(@, id)]
                ELSE [loc[p] EXCEPT !.newMerkles = Append(@, id),
                                    !.idQueue = @ \o <<MerkleOf[id].l, MerkleOf[id].r>>]
<1>1. q \in Peer /\ Other(q) = p  BY OtherFacts
<1>2. inbox[p] # <<>> /\ UNCHANGED <<nodeVars, validated, curHead>>  BY ReadFacts
<1>3. SendingEntities(q)  BY StageOf DEF IInv
<1>4. /\ loc[p].needed # <<>> /\ ToSet(queue) \subseteq known[q] /\ id \in known[q] \ Block
      /\ pc[q] = "serve" /\ inbox[q] = <<>> /\ inbox[p] = <<EntityMsg(id)>>
  BY <1>1, <1>2, <1>3 DEF SendingEntities
<1>5. m = EntityMsg(id) /\ Tail(inbox[p]) = <<>>  BY <1>4, QueueFacts
<1>6. m.kind = "entity" /\ m.id = id  BY <1>5 DEF EntityMsg
<1>7. ReadEntity(p, m)  BY <1>6, FitsFacts, ReadFacts
<1>8. Goes(p, "request", l, <<>>)
  BY <1>2, <1>6, <1>7 DEF ReadEntity, Goes, Continue
<1>9. /\ loc[p] \in Locals /\ loc[p].got <= Len(loc[p].needed)
      /\ queue \in Seq(Tx \cup Merkle)
      /\ loc[p].newTxs \in Seq(Tx) /\ loc[p].newMerkles \in Seq(Merkle)
      /\ known[q] \in SUBSET Entity /\ Closed(known[q])
  BY <1>1, EndTyped DEF Locals
<1>10. id \in Tx \cup Merkle  BY <1>4, <1>9 DEF Entity
<1>11. /\ l \in Locals /\ l.needed = loc[p].needed /\ l.got = loc[p].got
       /\ ToSet(l.idQueue) \subseteq known[q]
  <2>1. CASE id \in Tx
    <3> DEFINE new == Append(loc[p].newTxs, id)
    <3>1. new \in Seq(Tx)  BY <1>9, <2>1
    <3>2. l = [loc[p] EXCEPT !.newTxs = new]  BY <2>1
    <3> HIDE DEF new, l
    <3>3. l \in Locals /\ l.needed = loc[p].needed /\ l.got = loc[p].got /\ l.idQueue = queue
      BY <1>9, <3>1, <3>2 DEF Locals
    <3> QED  BY <1>4, <3>3
  <2>2. CASE id \notin Tx
    <3> DEFINE new == Append(loc[p].newMerkles, id)
               x == MerkleOf[id].l
               y == MerkleOf[id].r
               both == queue \o <<x, y>>
    <3>1. id \in Merkle  BY <1>10, <2>2
    <3>2. x \in Tx \cup Merkle /\ y \in Tx \cup Merkle
      BY <3>1, EntitiesAssumption DEF MerkleRecord
    <3>3. {x, y} \subseteq known[q]
      BY <1>4, <1>9, <2>2, <3>1 DEF Closed, Refs
    <3>4. new \in Seq(Merkle)  BY <1>9, <3>1
    <3>5. l = [loc[p] EXCEPT !.newMerkles = new, !.idQueue = both]  BY <2>2
    <3> HIDE DEF x, y, new, id, l, queue
    <3>6. both \in Seq(Tx \cup Merkle) /\ ToSet(both) \subseteq known[q]
      <4> DEFINE pair == <<x, y>>
      <4>1. pair \in Seq(Tx \cup Merkle) /\ ToSet(pair) = {x, y}
        BY <3>2, PairRange
      <4> HIDE DEF pair
      <4>2. queue \in Seq(Tx \cup Merkle) /\ both = queue \o pair  BY <1>9 DEF pair
      <4> HIDE DEF both
      <4>3. both \in Seq(Tx \cup Merkle) /\ ToSet(both) = ToSet(queue) \cup ToSet(pair)
        BY <4>1, <4>2, ConcatRange
      <4> QED  BY <1>4, <3>3, <4>1, <4>3
    <3> HIDE DEF both
    <3>7. l \in Locals /\ l.needed = loc[p].needed /\ l.got = loc[p].got /\ l.idQueue = both
      BY <1>9, <3>4, <3>5, <3>6 DEF Locals
    <3> QED  BY <3>6, <3>7
  <2> QED  BY <2>1, <2>2
<1>12. "request" \in Place  BY PlaceFacts
<1> HIDE DEF l, q, m, queue, id
<1>13. /\ pc'[p] = "request" /\ pc'[q] = pc[q]
       /\ loc'[p] = l /\ loc'[q] = loc[q]
       /\ inbox'[p] = Tail(inbox[p]) /\ inbox'[q] = inbox[q]
       /\ curHead' = curHead /\ known' = known
       /\ Together' => IInv'
  BY <1>2, <1>8, <1>9, <1>11, <1>12, GoesSilent DEF q
<1>14. SendingEntities(q)'
  BY <1>1, <1>4, <1>5, <1>11, <1>13 DEF SendingEntities
<1> QED  BY <1>1, <1>13, <1>14 DEF Together

LEMMA QueueRest ==
  ASSUME NEW S, NEW s \in Seq(S), s # <<>>
  PROVE  Head(s) \in S \cap ToSet(s) /\ Tail(s) \in Seq(S) /\ ToSet(Tail(s)) \subseteq ToSet(s)
<1> DEFINE n == Len(s)
           t == Tail(s)
<1>1. /\ n \in Nat /\ n # 0 /\ DOMAIN s = 1..n /\ Head(s) = s[1] /\ Head(s) \in S
      /\ t \in Seq(S) /\ DOMAIN t = 1..(n - 1) /\ \A i \in 1..(n - 1) : t[i] = s[i + 1]
  OBVIOUS
<1> HIDE DEF n, t
<1>2. 1 \in 1..n /\ \A i \in 1..(n - 1) : i + 1 \in 1..n  BY <1>1
<1>3. Head(s) \in ToSet(s)  BY <1>1, <1>2 DEF ToSet
<1>4. ToSet(t) \subseteq ToSet(s)  BY <1>1, <1>2 DEF ToSet
<1> QED  BY <1>1, <1>3, <1>4 DEF t

LEMMA ReverseTyped ==
  ASSUME NEW S, NEW s \in Seq(S)
  PROVE  Reverse(s) \in Seq(S)
<1> DEFINE n == Len(s)
<1>1. n \in Nat /\ \A i \in 1..n : s[i] \in S  OBVIOUS
<1> HIDE DEF n
<1>2. \A i \in 1..n : (n - i) + 1 \in 1..n  BY <1>1
<1>3. [i \in 1..n |-> s[(n - i) + 1]] \in Seq(S)  BY <1>1, <1>2
<1> QED  BY <1>3 DEF Reverse, n

\* A step of the handler that reads nothing.
LEMMA WriteFacts ==
  ASSUME IInv, NEW p \in Peer,
         NEW place \in Place, NEW l \in Locals, NEW msgs \in Seq(Message),
         l.got <= Len(l.needed), place = "idle" => l = NoLocals,
         Write(p, msgs), GoTo(p, place, l),
         UNCHANGED <<known, head, others, validated, curHead, cmd>>,
         handed' \in [Peer -> Seq(Event)]
  PROVE  LET q == Other(p) IN
         /\ pc'[p] = place /\ pc'[q] = pc[q]
         /\ loc'[p] = l /\ loc'[q] = loc[q]
         /\ inbox'[p] = inbox[p] /\ inbox'[q] = inbox[q] \o msgs
         /\ curHead' = curHead /\ known' = known
         /\ Together' => IInv'
<1> DEFINE q == Other(p)
<1>1. q \in Peer /\ q # p /\ \A x \in Peer : x = p \/ x = q  BY OtherFacts
<1>2. TypeOK /\ NodesOK /\ \A x \in Peer : pc[x] = "idle" => Fresh(x)  BY DEF IInv
<1>3. pc' = [pc EXCEPT ![p] = place] /\ loc' = [loc EXCEPT ![p] = l]
  BY DEF GoTo
<1>4. inbox' = [inbox EXCEPT ![q] = inbox[q] \o msgs]  BY <1>1 DEF Write
<1> HIDE DEF q
<1>5. inbox[q] \o msgs \in Seq(Message)  BY <1>1, <1>2 DEF TypeOK
<1>6. /\ inbox' \in [Peer -> Seq(Message)]
      /\ inbox'[p] = inbox[p] /\ inbox'[q] = inbox[q] \o msgs
  BY <1>1, <1>2, <1>4, <1>5 DEF TypeOK
<1>7. /\ pc'[p] = place /\ pc'[q] = pc[q]
      /\ loc'[p] = l /\ loc'[q] = loc[q]
  BY <1>1, <1>2, <1>3 DEF TypeOK
<1>8. pc' \in [Peer -> {"idle", "request", "panicked"} \cup DOMAIN Expects]
  BY <1>2, <1>3 DEF TypeOK, Place
<1>9. loc' \in [Peer -> Locals]  BY <1>2, <1>3 DEF TypeOK
<1>10. \A x \in Peer : loc'[x].got <= Len(loc'[x].needed)
  BY <1>1, <1>2, <1>7 DEF TypeOK
<1>11. TypeOK'  BY <1>2, <1>6, <1>8, <1>9, <1>10 DEF TypeOK
<1>12. NodesOK'  BY <1>2 DEF NodesOK
<1>13. \A x \in Peer : (pc[x] = "idle" => Fresh(x))'
  BY <1>1, <1>2, <1>7, LocalsFacts DEF Fresh
<1> QED  BY <1>6, <1>7, <1>11, <1>12, <1>13 DEF IInv, q

\* The next id is had, or requested.
LEMMA RequestNextOK ==
  ASSUME IInv, NEW p \in Peer, RequestNext(p)
  PROVE  IInv'
<1> DEFINE q == Other(p)
           queue == loc[p].idQueue
           id == Head(queue)
           rest == [loc[p] EXCEPT !.idQueue = Tail(queue)]
<1>1. q \in Peer /\ Other(q) = p  BY OtherFacts
<1>2. /\ pc[p] = "request" /\ queue # <<>>
      /\ UNCHANGED <<known, head, others, handed, validated, curHead, cmd>>
      /\ \/ GoTo(p, "request", rest) /\ UNCHANGED inbox
         \/ GoTo(p, "recvEntity", [rest EXCEPT !.asked = id]) /\ Write(p, <<Id(id)>>)
  BY DEF RequestNext, Stay, Continue, nodeVars
<1>3. SendingEntities(q)  BY <1>2, StageOf DEF IInv
<1>4. /\ loc[p].needed # <<>> /\ ToSet(queue) \subseteq known[q] /\ inbox[p] = <<>>
      /\ \/ pc[q] = "verdict" /\ inbox[q] = <<Bool(TRUE)>>
         \/ pc[q] = "serve" /\ inbox[q] = <<>>
  BY <1>1, <1>2, <1>3 DEF SendingEntities
<1>5. /\ loc[p] \in Locals /\ loc[p].got <= Len(loc[p].needed)
      /\ queue \in Seq(Tx \cup Merkle)
  BY EndTyped DEF Locals
<1>6. id \in Tx \cup Merkle /\ id \in known[q] /\ ToSet(Tail(queue)) \subseteq known[q]
      /\ Tail(queue) \in Seq(Tx \cup Merkle)
  BY <1>2, <1>4, <1>5, QueueRest
<1>7. id \notin Block /\ Id(id) \in Message  BY <1>6, SyncAssumption, MessageTyped DEF Entity
<1>8. handed' \in [Peer -> Seq(Event)]  BY <1>2 DEF IInv, TypeOK
<1> HIDE DEF id, queue
<1>9. /\ rest \in Locals /\ rest.needed = loc[p].needed /\ rest.got = loc[p].got
      /\ rest.idQueue = Tail(queue)
  BY <1>5, <1>6 DEF Locals
<1>10. CASE GoTo(p, "request", rest) /\ UNCHANGED inbox
  <2> DEFINE msgs == <<>>
  <2>1. msgs \in Seq(Message) /\ inbox[q] \in Seq(Message) /\ inbox \in [Peer -> Seq(Message)]
    BY <1>1, MessageTyped DEF IInv, TypeOK
  <2>2. inbox[q] \o msgs = inbox[q]  BY <2>1
  <2> HIDE DEF msgs
  <2>3. Write(p, msgs)  BY <1>1, <1>10, <2>1, <2>2 DEF Write
  <2>4. "request" \in Place  BY PlaceFacts
  <2> HIDE DEF rest, q
  <2>5. rest.got <= Len(rest.needed)  BY <1>5, <1>9
  <2>6. /\ pc'[p] = "request" /\ pc'[q] = pc[q]
        /\ loc'[p] = rest /\ loc'[q] = loc[q]
        /\ inbox'[p] = inbox[p] /\ inbox'[q] = inbox[q] \o msgs
        /\ curHead' = curHead /\ known' = known
        /\ Together' => IInv'
    BY <1>2, <1>8, <1>9, <1>10, <2>1, <2>3, <2>4, <2>5, WriteFacts DEF q
  <2>7. SendingEntities(q)'
    BY <1>1, <1>4, <1>6, <1>9, <2>2, <2>6 DEF SendingEntities
  <2> QED  BY <1>1, <2>6, <2>7 DEF Together
<1>11. CASE GoTo(p, "recvEntity", [rest EXCEPT !.asked = id]) /\ Write(p, <<Id(id)>>)
  <2> DEFINE l == [rest EXCEPT !.asked = id]
             msgs == <<Id(id)>>
  <2>1. msgs \in Seq(Message) /\ "recvEntity" \in Place  BY <1>7, MessageTyped, PlaceFacts
  <2> HIDE DEF rest
  <2>2. /\ l \in Locals /\ l.needed = loc[p].needed /\ l.got = loc[p].got
        /\ l.idQueue = Tail(queue) /\ l.asked = id
    BY <1>6, <1>9 DEF Locals
  <2>3. GoTo(p, "recvEntity", l) /\ Write(p, msgs)  BY <1>11
  <2> HIDE DEF l, q, msgs
  <2>4. l.got <= Len(l.needed)  BY <1>5, <2>2
  <2>5. /\ pc'[p] = "recvEntity" /\ pc'[q] = pc[q]
        /\ loc'[p] = l /\ loc'[q] = loc[q]
        /\ inbox'[p] = inbox[p] /\ inbox'[q] = inbox[q] \o msgs
        /\ curHead' = curHead /\ known' = known
        /\ Together' => IInv'
    BY <1>2, <1>8, <2>1, <2>2, <2>3, <2>4, WriteFacts DEF q
  <2>6. \/ pc'[q] = "verdict" /\ inbox'[q] = <<Bool(TRUE), Id(id)>>
        \/ pc'[q] = "serve" /\ inbox'[q] = <<Id(id)>>
    BY <1>4, <2>5, JoinFacts DEF msgs
  <2>7. SendingEntities(q)'
    BY <1>1, <1>4, <1>6, <1>7, <2>2, <2>5, <2>6 DEF SendingEntities
  <2> QED  BY <1>1, <2>5, <2>7 DEF Together
<1> QED  BY <1>2, <1>10, <1>11

LEMMA HandoverTyped ==
  ASSUME NEW l \in Locals, l.needed # <<>>
  PROVE  Handover(l) \in Event
<1>1. /\ l.needed \in Seq(Block \ {Zero}) /\ l.newMerkles \in Seq(Merkle)
      /\ l.newTxs \in Seq(Tx)
  BY DEF Locals
<1>2. Head(l.needed) \in Block  BY <1>1
<1>3. /\ Reverse(l.needed) \in Seq(Block \ {Zero})
      /\ Reverse(l.newMerkles) \in Seq(Merkle) /\ Reverse(l.newTxs) \in Seq(Tx)
  BY <1>1, ReverseTyped
<1> QED  BY <1>2, <1>3 DEF Handover, Event

\* The receiver is done first.
LEMMA FinishReceivingOK ==
  ASSUME IInv, NEW p \in Peer, FinishReceiving(p)
  PROVE  IInv'
<1> DEFINE q == Other(p)
           msgs == <<Id(Zero), Complete>>
           event == Handover(loc[p])
<1>1. q \in Peer /\ Other(q) = p  BY OtherFacts
<1>2. /\ pc[p] = "request" /\ Write(p, msgs) /\ GoTo(p, "idle", NoLocals)
      /\ handed' = [handed EXCEPT ![p] = Append(@, event)]
      /\ UNCHANGED <<known, head, others, validated, curHead, cmd>>
  BY DEF FinishReceiving, Return
<1>3. SendingEntities(q)  BY <1>2, StageOf DEF IInv
<1>4. /\ loc[p].needed # <<>> /\ inbox[p] = <<>>
      /\ \/ pc[q] = "verdict" /\ inbox[q] = <<Bool(TRUE)>>
         \/ pc[q] = "serve" /\ inbox[q] = <<>>
  BY <1>1, <1>2, <1>3 DEF SendingEntities
<1>5. event \in Event  BY <1>4, EndTyped, HandoverTyped
<1>6. msgs \in Seq(Message) /\ "idle" \in Place /\ NoLocals \in Locals
      /\ NoLocals.got <= Len(NoLocals.needed)
  <2>1. Zero \in Entity  BY EntitiesAssumption DEF Entity
  <2>2. Id(Zero) \in Message /\ Complete \in Message  BY <2>1, MessageTyped
  <2>3. msgs \in Seq(Message)  BY <2>2, MessageTyped
  <2> QED  BY <2>3, PlaceFacts, LocalsFacts
<1> HIDE DEF event, msgs, q
<1>7. handed' \in [Peer -> Seq(Event)]  BY <1>2, <1>5 DEF IInv, TypeOK
<1>8. /\ pc'[p] = "idle" /\ pc'[q] = pc[q]
      /\ inbox'[p] = inbox[p] /\ inbox'[q] = inbox[q] \o msgs
      /\ Together' => IInv'
  BY <1>2, <1>6, <1>7, WriteFacts DEF q
<1>9. \/ pc'[q] = "verdict" /\ inbox'[q] = <<Bool(TRUE), Id(Zero), Complete>>
      \/ pc'[q] = "serve" /\ inbox'[q] = <<Id(Zero), Complete>>
  BY <1>4, <1>8, JoinFacts DEF msgs
<1>10. Ending(q)'  BY <1>1, <1>4, <1>8, <1>9 DEF Ending
<1> QED  BY <1>1, <1>8, <1>10 DEF Together

-----------------------------------------------------------------------------
(* Every step *)

LEMMA ReadOK ==
  ASSUME IInv, NEW p \in Peer, Read(p)
  PROVE  IInv'
<1>1. pc[p] \in {"hello", "cancelled", "offered", "sendRole", "sendWalk", "verdict",
                 "serve", "complete", "recvRole", "recvWalk", "recvBlocks", "recvEntity"}
  BY DEF Read, Expects
<1>2. CASE pc[p] \in {"hello", "cancelled", "offered"}
  BY <1>2, ReadHelloOK, ReadAnswerCancelledOK, ReadAnswerOK
<1>3. CASE pc[p] \in {"sendRole", "recvRole", "sendWalk", "recvWalk"}
  BY <1>3, ReadRoleToSendOK, ReadRoleToReceiveOK, ReadWalkReplyOK, ReadWalkIdOK
<1>4. CASE pc[p] \in {"recvBlocks", "verdict", "serve", "recvEntity", "complete"}
  BY <1>4, ReadBlockOK, ReadVerdictOK, ReadRequestOK, ReadEntityOK, ReadCompleteOK
<1> QED  BY <1>1, <1>2, <1>3, <1>4

\* A sync starts with both ends at rest.
LEMMA EnterHandlerOK ==
  ASSUME IInv, EnterHandler, cmd' \in [Peer -> Commands]
  PROVE  IInv'
<1>1. /\ \A p \in Peer : pc[p] = "idle"
      /\ pc' = [p \in Peer |-> "hello"]
      /\ inbox' = [p \in Peer |-> Append(inbox[p], Hello(Other(p)))]
      /\ UNCHANGED <<known, head, handed, others, validated, curHead, loc>>
  BY DEF EnterHandler, nodeVars
<1>2. TypeOK /\ NodesOK /\ (\A p \in Peer : Fresh(p))  BY <1>1 DEF IInv
<1>3. Resting
  <2>1. Initiator \in Peer  BY DEF Peer
  <2>2. Other(Initiator) \in Peer  BY <2>1, OtherFacts
  <2> QED  BY <1>1, <2>1, <2>2, StageOf DEF IInv
<1>4. \A p \in Peer : inbox'[p] = <<Hello(Other(p))>> /\ Hello(p) \in Message
  <2> SUFFICES ASSUME NEW p \in Peer
               PROVE  inbox'[p] = <<Hello(Other(p))>> /\ Hello(p) \in Message
    OBVIOUS
  <2>1. inbox[p] = <<>>  BY <1>3 DEF Resting
  <2>2. inbox'[p] = Append(<<>>, Hello(Other(p)))  BY <1>1, <2>1
  <2>3. curHead[p] \in Block /\ WorkOf[curHead[p]] \in Nat  BY <1>2, WorkTyped DEF TypeOK
  <2>4. Hello(p) \in Message  BY <2>3 DEF Hello, Message
  <2> QED  BY <2>2, <2>4
<1>5. inbox' \in [Peer -> Seq(Message)]
  <2>1. \A p \in Peer : inbox'[p] \in Seq(Message)
    BY <1>4, OtherFacts, MessageTyped
  <2> QED  BY <1>1, <2>1
<1>6. pc' \in [Peer -> {"idle", "request", "panicked"} \cup DOMAIN Expects]
  BY <1>1 DEF Expects
<1>7. TypeOK'  BY <1>1, <1>2, <1>5, <1>6 DEF TypeOK
<1>8. NodesOK'  BY <1>1, <1>2 DEF NodesOK
<1>9. Greeting'
  <2> SUFFICES ASSUME NEW p \in Peer  PROVE Greets(p)'
    BY DEF Greeting
  <2>1. Other(p) \in Peer  BY OtherFacts
  <2>2. pc'[p] = "hello" /\ pc'[Other(p)] = "hello"  BY <1>1, <2>1
  <2>3. Fresh(p)'  BY <1>1, <1>2 DEF Fresh
  <2>4. Hello(Other(p))' = Hello(Other(p))  BY <1>1 DEF Hello
  <2>5. inbox'[p] = <<Hello(Other(p))>>  BY <1>4
  <2> QED  BY <2>2, <2>3, <2>4, <2>5 DEF Greets
<1>10. \A p \in Peer : pc'[p] # "idle"  BY <1>1
<1> QED  BY <1>7, <1>8, <1>9, <1>10 DEF IInv, Together

LEMMA CommandOK ==
  ASSUME IInv, (\E p \in Peer : Serve(p)) \/ ServeAcceptorFirst \/ ServeInitiatorSecond
  PROVE  IInv'
<1>1. EnterHandler  BY DEF Serve, ServeAcceptorFirst, ServeInitiatorSecond
<1>2. cmd \in [Peer -> Commands]  BY DEF IInv, TypeOK
<1>3. cmd' \in [Peer -> Commands]
  BY <1>2 DEF Serve, ServeAcceptorFirst, ServeInitiatorSecond, Commands
<1> QED  BY <1>1, <1>3, EnterHandlerOK

\* The steps that leave both handlers alone keep their places, for an end that is in the
\* middle of a sync keeps its head, and an inventory only grows.
LEMMA PlacesKept ==
  ASSUME IInv, UNCHANGED <<pc, loc, inbox>>,
         \A p \in Peer : known[p] \subseteq known'[p],
         \A p \in Peer : pc[p] # "idle" => curHead'[p] = curHead[p]
  PROVE  Together'
<1> SUFFICES ASSUME Together  PROVE Together'
  BY DEF IInv
<1>1. \A p \in Peer : Fresh(p) => Fresh(p)'  BY DEF Fresh
<1>2. ASSUME NEW p \in Peer, pc[p] # "idle", pc[Other(p)] # "idle"
      PROVE  /\ curHead'[p] = curHead[p] /\ curHead'[Other(p)] = curHead[Other(p)]
             /\ Ahead(p) => Ahead(p)'
             /\ HeardWork(p) => HeardWork(p)'
             /\ HeardWork(Other(p)) => HeardWork(Other(p))'
  BY <1>2, OtherFacts DEF Ahead, HeardWork
<1>3. ASSUME NEW p \in Peer, pc[p] # "idle", PathOK(p)  PROVE PathOK(p)'
  BY <1>3 DEF PathOK, Path
<1>4. CASE Resting  BY <1>4 DEF Resting, Together
<1>5. CASE Greeting
  <2>1. \A p \in Peer : pc[p] # "idle"  BY <1>5 DEF Greeting, Greets
  <2>2. ASSUME NEW p \in Peer  PROVE Greets(p)'
    <3> DEFINE q == Other(p)
    <3>1. q \in Peer /\ Greets(p)  BY <1>5, OtherFacts DEF Greeting
    <3>2. Hello(q)' = Hello(q)  BY <2>1, <3>1 DEF Hello
    <3>3. Answered(q)' = Answered(q)  BY DEF Answered
    <3>4. HeardWork(p) => HeardWork(p)'  BY <1>2, <2>1, <3>1
    <3> QED  BY <1>1, <3>1, <3>2, <3>3, <3>4 DEF Greets
  <2> QED  BY <2>2 DEF Greeting, Together
<1>6. ASSUME NEW p \in Peer, Leaving(p)  PROVE Leaving(p)'
  BY <1>6 DEF Leaving
<1>7. ASSUME NEW p \in Peer, Deciding(p)  PROVE Deciding(p)'
  <2>1. Other(p) \in Peer /\ Fresh(p) /\ Fresh(Other(p)) /\ Ahead(p)
    BY <1>7, OtherFacts DEF Deciding
  <2>2. pc[p] # "idle" /\ pc[Other(p)] # "idle"  BY <1>7 DEF Deciding
  <2> QED  BY <1>1, <1>2, <1>7, <2>1, <2>2 DEF Deciding
<1>8. ASSUME NEW p \in Peer, Walking(p)  PROVE Walking(p)'
  <2>1. Other(p) \in Peer  BY OtherFacts
  <2>2. pc[p] # "idle" /\ PathOK(p)  BY <1>8 DEF Walking
  <2>3. PathOK(p)'  BY <1>3, <2>2
  <2>4. SameNeeded(p) => SameNeeded(p)'  BY DEF SameNeeded
  <2> QED  BY <1>1, <1>2, <1>8, <2>1, <2>2, <2>3, <2>4 DEF Walking
<1>9. ASSUME NEW p \in Peer, SendingBlocks(p)  PROVE SendingBlocks(p)'
  <2>2. pc[p] # "idle" /\ pc[Other(p)] # "idle" /\ PathOK(p) /\ Ahead(p) /\ SameNeeded(p)
    BY <1>9 DEF SendingBlocks
  <2>3. PathOK(p)' /\ Ahead(p)'  BY <1>2, <1>3, <2>2
  <2>4. SameNeeded(p)'  BY <2>2 DEF SameNeeded
  <2> QED  BY <1>9, <2>3, <2>4 DEF SendingBlocks
<1>10. ASSUME NEW p \in Peer, SendingEntities(p)  PROVE SendingEntities(p)'
  BY <1>10 DEF SendingEntities
<1>11. ASSUME NEW p \in Peer, Ending(p)  PROVE Ending(p)'
  BY <1>11 DEF Ending
<1>12. ASSUME NEW p \in Peer,
              \/ Leaving(p) \/ Deciding(p) \/ Walking(p)
              \/ SendingBlocks(p) \/ SendingEntities(p) \/ Ending(p)
       PROVE  Together'
  BY <1>6, <1>7, <1>8, <1>9, <1>10, <1>11, <1>12 DEF Together
<1> QED  BY <1>4, <1>5, <1>12 DEF Together

\* An end changes its head only between its syncs.
LEMMA TakeHeadOK ==
  ASSUME IInv, NEW p \in Peer, TakeHead(p)
  PROVE  IInv'
<1> DEFINE h == Head(validated[p])
<1>1. /\ pc[p] = "idle" /\ validated[p] # <<>>
      /\ curHead' = [curHead EXCEPT ![p] = h]
      /\ validated' = [validated EXCEPT ![p] = Tail(@)]
      /\ cmd' = [cmd EXCEPT ![p] = "issued"]
      /\ UNCHANGED <<known, head, handed, others, pc, loc, inbox>>
  BY DEF TakeHead, nodeVars
<1>2. TypeOK /\ NodesOK /\ \A x \in Peer : pc[x] = "idle" => Fresh(x)  BY DEF IInv
<1>3. validated[p] \in Seq(Block) /\ ToSet(validated[p]) \subseteq known[p]
  BY <1>2 DEF TypeOK, NodesOK
<1>4. /\ h \in Block /\ h \in known[p] /\ Tail(validated[p]) \in Seq(Block)
      /\ ToSet(Tail(validated[p])) \subseteq known[p]
  BY <1>1, <1>3, QueueRest
<1> HIDE DEF h
<1>5. /\ curHead' \in [Peer -> Block] /\ validated' \in [Peer -> Seq(Block)]
      /\ cmd' \in [Peer -> Commands]
  BY <1>1, <1>2, <1>4 DEF TypeOK, Commands
<1>6. \A x \in Peer : curHead'[x] \in known[x]
  BY <1>1, <1>2, <1>4 DEF TypeOK
<1>7. TypeOK'  BY <1>1, <1>2, <1>5, <1>6 DEF TypeOK
<1>8. \A x \in Peer : ToSet(validated'[x]) \subseteq known[x]
  BY <1>1, <1>2, <1>4 DEF TypeOK, NodesOK
<1>9. NodesOK'  BY <1>1, <1>2, <1>8 DEF NodesOK
<1>10. \A x \in Peer : pc[x] # "idle" => curHead'[x] = curHead[x]
  BY <1>1, <1>2 DEF TypeOK
<1>11. Together'  BY <1>1, <1>10, PlacesKept
<1>12. \A x \in Peer : (pc[x] = "idle" => Fresh(x))'  BY <1>1, <1>2 DEF Fresh
<1> QED  BY <1>7, <1>9, <1>11, <1>12 DEF IInv

\* A step of the node: its inventory may grow.
LEMMA NodeKept ==
  ASSUME IInv, UNCHANGED <<curHead, cmd, pc, loc, inbox>>,
         known' \in [Peer -> SUBSET Entity], handed' \in [Peer -> Seq(Event)],
         head' \in [Peer -> Block], validated' \in [Peer -> Seq(Block)],
         others' \in [Peer -> SUBSET Event],
         NodesOK',
         \A p \in Peer :
            known[p] \subseteq known'[p] /\ head'[p] \in known'[p]
              /\ others'[p] \subseteq OtherEvents[p]
  PROVE  IInv'
<1>1. TypeOK /\ \A x \in Peer : pc[x] = "idle" => Fresh(x)  BY DEF IInv
<1>2. TypeOK'  BY <1>1 DEF TypeOK
<1>3. Together'  BY PlacesKept
<1>4. \A x \in Peer : (pc[x] = "idle" => Fresh(x))'  BY <1>1 DEF Fresh
<1> QED  BY <1>2, <1>3, <1>4 DEF IInv

\* The next entity of an event is a stored kind of thing, and the rest is an event.
LEMMA PendingFacts ==
  ASSUME NEW e \in Event, Pending(e) # <<>>
  PROVE  LET rest == [e EXCEPT
                !.txs = IF @ # <<>> THEN Tail(@) ELSE @,
                !.merkles = IF e.txs = <<>> /\ @ # <<>> THEN Tail(@) ELSE @,
                !.blocks = IF e.txs = <<>> /\ e.merkles = <<>> THEN Tail(@) ELSE @]
         IN  Head(Pending(e)) \in Entity /\ rest \in Event
<1> DEFINE txs == IF e.txs # <<>> THEN Tail(e.txs) ELSE e.txs
           merkles == IF e.txs = <<>> /\ e.merkles # <<>> THEN Tail(e.merkles) ELSE e.merkles
           blocks == IF e.txs = <<>> /\ e.merkles = <<>> THEN Tail(e.blocks) ELSE e.blocks
           B == Block \ {Zero}
<1>1. e.txs \in Seq(Tx) /\ e.merkles \in Seq(Merkle) /\ e.blocks \in Seq(B)
  BY DEF Event
<1>2. e.txs \in Seq(Entity) /\ e.merkles \in Seq(Entity) /\ e.blocks \in Seq(Entity)
  <2>1. Tx \subseteq Entity /\ Merkle \subseteq Entity /\ B \subseteq Entity  BY DEF Entity
  <2> HIDE DEF B
  <2>2. e.txs \in Seq(Entity)  BY <1>1, <2>1
  <2>3. e.merkles \in Seq(Entity)  BY <1>1, <2>1
  <2>4. e.blocks \in Seq(Entity)  BY <1>1, <2>1
  <2> QED  BY <2>2, <2>3, <2>4
<1>3. Pending(e) \in Seq(Entity)  BY <1>2 DEF Pending
<1>4. Head(Pending(e)) \in Entity  BY <1>3
<1>5. e.txs = <<>> /\ e.merkles = <<>> => e.blocks # <<>>
  <2> SUFFICES ASSUME e.txs = <<>>, e.merkles = <<>>, e.blocks = <<>>  PROVE FALSE
    OBVIOUS
  <2>1. Pending(e) = <<>> \o <<>> \o <<>>  BY DEF Pending
  <2> QED  BY <2>1, JoinFacts
<1> HIDE DEF B
<1>6. txs \in Seq(Tx)  BY <1>1
<1>7. merkles \in Seq(Merkle)  BY <1>1
<1>8. blocks \in Seq(B)
  <2>1. CASE e.txs = <<>> /\ e.merkles = <<>>  BY <1>1, <1>5, <2>1
  <2>2. CASE ~(e.txs = <<>> /\ e.merkles = <<>>)  BY <1>1, <2>2
  <2> QED  BY <2>1, <2>2
<1> HIDE DEF txs, merkles, blocks
<1>9. [e EXCEPT !.txs = txs, !.merkles = merkles, !.blocks = blocks] \in Event
  BY <1>6, <1>7, <1>8 DEF Event, B
<1> QED  BY <1>4, <1>9 DEF txs, merkles, blocks

\* The inventory grows behind the end.
LEMMA StoreNextOK ==
  ASSUME IInv, NEW p \in Peer, StoreNext(p)
  PROVE  IInv'
<1> DEFINE e == Head(handed[p])
           id == Head(Pending(e))
           rest == [e EXCEPT
                !.txs = IF @ # <<>> THEN Tail(@) ELSE @,
                !.merkles = IF e.txs = <<>> /\ @ # <<>> THEN Tail(@) ELSE @,
                !.blocks = IF e.txs = <<>> /\ e.merkles = <<>> THEN Tail(@) ELSE @]
<1>1. /\ handed[p] # <<>> /\ Pending(e) # <<>>
      /\ \/ /\ id \in known[p] \/ Storable(p, id)
            /\ known' = [known EXCEPT ![p] = @ \cup {id}]
            /\ handed' = [handed EXCEPT ![p] = [handed[p] EXCEPT ![1] = rest]]
         \/ /\ handed' = [handed EXCEPT ![p] = Tail(handed[p])]
            /\ UNCHANGED known
      /\ UNCHANGED <<head, others, validated, curHead, cmd, pc, loc, inbox>>
  BY DEF StoreNext, endVars
<1>2. TypeOK /\ NodesOK  BY DEF IInv
<1>3. handed[p] \in Seq(Event) /\ e \in Event /\ Tail(handed[p]) \in Seq(Event)
  BY <1>1, <1>2 DEF TypeOK
<1>4. id \in Entity /\ rest \in Event  BY <1>1, <1>3, PendingFacts
<1> HIDE DEF e, id, rest
<1>5. [handed[p] EXCEPT ![1] = rest] \in Seq(Event)  BY <1>3, <1>4
<1>6. handed' \in [Peer -> Seq(Event)]  BY <1>1, <1>2, <1>3, <1>5 DEF TypeOK
<1>7. /\ known' \in [Peer -> SUBSET Entity]
      /\ \A x \in Peer : known[x] \subseteq known'[x]
  <2>1. known \in [Peer -> SUBSET Entity]  BY <1>2 DEF TypeOK
  <2>2. CASE UNCHANGED known  BY <2>1, <2>2
  <2>3. CASE known' = [known EXCEPT ![p] = @ \cup {id}]  BY <1>4, <2>1, <2>3
  <2> QED  BY <1>1, <2>2, <2>3
<1>8. NodesOK'
  <2>1. CASE UNCHANGED known  BY <1>1, <1>2, <2>1 DEF NodesOK
  <2>2. CASE /\ id \in known[p] \/ Storable(p, id)
             /\ known' = [known EXCEPT ![p] = @ \cup {id}]
    <3> SUFFICES ASSUME NEW x \in Peer
                 PROVE  /\ Closed(known'[x]) /\ Zero \in known'[x]
                        /\ \A b \in (Block \ {Zero}) \cap known'[x] : BlockOf[b].headerOk
                        /\ ToSet(validated[x]) \subseteq known'[x]
      BY <1>1 DEF NodesOK
    <3>1. /\ Closed(known[x]) /\ Zero \in known[x]
          /\ \A b \in (Block \ {Zero}) \cap known[x] : BlockOf[b].headerOk
          /\ ToSet(validated[x]) \subseteq known[x]
      BY <1>2 DEF NodesOK
    <3>2. CASE x # p
      <4>1. known'[x] = known[x]  BY <1>2, <2>2, <3>2 DEF TypeOK
      <4> QED  BY <3>1, <4>1
    <3>3. CASE x = p
      <4>1. known'[x] = known[x] \cup {id}  BY <1>2, <2>2, <3>3 DEF TypeOK
      <4>2. Refs(id) \subseteq known[x]  BY <2>2, <3>1, <3>3 DEF Closed, Storable
      <4>3. id \in Block \ {Zero} => BlockOf[id].headerOk
        BY <2>2, <3>1, <3>3 DEF Storable
      <4>4. Closed(known'[x])  BY <3>1, <4>1, <4>2 DEF Closed
      <4> QED  BY <3>1, <4>1, <4>3, <4>4
    <3> QED  BY <3>2, <3>3
  <2> QED  BY <1>1, <2>1, <2>2
<1>9. \A x \in Peer : head'[x] \in known'[x] /\ others'[x] \subseteq OtherEvents[x]
  BY <1>1, <1>2, <1>7 DEF TypeOK
<1>10. /\ head' \in [Peer -> Block] /\ validated' \in [Peer -> Seq(Block)]
       /\ others' \in [Peer -> SUBSET Event]
  BY <1>1, <1>2 DEF TypeOK
<1> QED  BY <1>1, <1>6, <1>7, <1>8, <1>9, <1>10, NodeKept

LEMMA AppendRange ==
  ASSUME NEW S, NEW s \in Seq(S), NEW a \in S
  PROVE  Append(s, a) \in Seq(S) /\ ToSet(Append(s, a)) = ToSet(s) \cup {a}
<1> DEFINE n == Len(s)
           t == Append(s, a)
<1>1. /\ t \in Seq(S) /\ n \in Nat /\ DOMAIN s = 1..n /\ DOMAIN t = 1..(n + 1)
      /\ t[n + 1] = a /\ \A i \in 1..n : t[i] = s[i]
  BY AppendProperties
<1> HIDE DEF n, t
<1>2. ToSet(t) = ToSet(s) \cup {a}  BY <1>1 DEF ToSet
<1> QED  BY <1>1, <1>2 DEF t

LEMMA AdoptOK ==
  ASSUME IInv, NEW p \in Peer, Adopt(p)
  PROVE  IInv'
<1> DEFINE b == Head(handed[p]).head
<1>1. /\ handed[p] # <<>>
      /\ handed' = [handed EXCEPT ![p] = Tail(handed[p])]
      /\ \/ /\ b \in known[p]
            /\ head' = [head EXCEPT ![p] = b]
            /\ validated' = [validated EXCEPT ![p] = Append(validated[p], b)]
         \/ UNCHANGED <<head, validated>>
      /\ UNCHANGED <<known, others, curHead, cmd, pc, loc, inbox>>
  BY DEF Adopt, Adopted
<1>2. TypeOK /\ NodesOK  BY DEF IInv
<1>3. handed[p] \in Seq(Event) /\ Head(handed[p]) \in Event /\ Tail(handed[p]) \in Seq(Event)
  BY <1>1, <1>2 DEF TypeOK
<1>4. b \in Block  BY <1>3 DEF Event
<1> HIDE DEF b
<1>5. validated[p] \in Seq(Block)  BY <1>2 DEF TypeOK
<1>6. Append(validated[p], b) \in Seq(Block)
      /\ ToSet(Append(validated[p], b)) = ToSet(validated[p]) \cup {b}
  BY <1>4, <1>5, AppendRange
<1>7. /\ handed' \in [Peer -> Seq(Event)] /\ head' \in [Peer -> Block]
      /\ validated' \in [Peer -> Seq(Block)]
      /\ known' \in [Peer -> SUBSET Entity] /\ others' \in [Peer -> SUBSET Event]
  <2>1. handed' \in [Peer -> Seq(Event)]  BY <1>1, <1>2, <1>3 DEF TypeOK
  <2>2. head' \in [Peer -> Block]  BY <1>1, <1>2, <1>4 DEF TypeOK
  <2>3. validated \in [Peer -> Seq(Block)]  BY <1>2 DEF TypeOK
  <2>4. validated' \in [Peer -> Seq(Block)]  BY <1>1, <1>6, <2>3
  <2>5. known' \in [Peer -> SUBSET Entity] /\ others' \in [Peer -> SUBSET Event]
    BY <1>1, <1>2 DEF TypeOK
  <2> QED  BY <2>1, <2>2, <2>4, <2>5
<1>8. \A x \in Peer :
         /\ known[x] \subseteq known'[x] /\ head'[x] \in known'[x]
         /\ others'[x] \subseteq OtherEvents[x]
  BY <1>1, <1>2 DEF TypeOK
<1>9. \A x \in Peer : ToSet(validated'[x]) \subseteq known[x]
  BY <1>1, <1>2, <1>6 DEF TypeOK, NodesOK
<1>10. NodesOK'  BY <1>1, <1>2, <1>9 DEF NodesOK
<1> QED  BY <1>1, <1>7, <1>8, <1>10, NodeKept

LEMMA OtherPublishesOK ==
  ASSUME IInv, NEW p \in Peer, NEW e \in others[p], OtherPublishes(p, e)
  PROVE  IInv'
<1>1. /\ others' = [others EXCEPT ![p] = @ \ {e}]
      /\ handed' = [handed EXCEPT ![p] = Append(@, e)]
      /\ UNCHANGED <<known, head, validated, curHead, cmd, pc, loc, inbox>>
  BY DEF OtherPublishes, endVars
<1>2. TypeOK /\ NodesOK  BY DEF IInv
<1>3. e \in Event /\ handed[p] \in Seq(Event)  BY <1>2 DEF TypeOK
<1>4. Append(handed[p], e) \in Seq(Event)  BY <1>3
<1>5. handed' \in [Peer -> Seq(Event)]  BY <1>1, <1>2, <1>4 DEF TypeOK
<1>6. others' \in [Peer -> SUBSET Event]  BY <1>1, <1>2 DEF TypeOK
<1>7. /\ head' \in [Peer -> Block] /\ validated' \in [Peer -> Seq(Block)]
      /\ known' \in [Peer -> SUBSET Entity]
  BY <1>1, <1>2 DEF TypeOK
<1>8. \A x \in Peer :
         /\ known[x] \subseteq known'[x] /\ head'[x] \in known'[x]
         /\ others'[x] \subseteq OtherEvents[x]
  BY <1>1, <1>2 DEF TypeOK
<1>9. NodesOK'  BY <1>1, <1>2 DEF NodesOK
<1> QED  BY <1>1, <1>5, <1>6, <1>7, <1>8, <1>9, NodeKept

LEMMA InitOK == Init => IInv
<1> SUFFICES ASSUME Init  PROVE IInv
  OBVIOUS
<1>1. PICK s \in Starts :
        /\ known = [p \in Peer |-> s[p].known]
        /\ head = [p \in Peer |-> s[p].head]
        /\ handed = [p \in Peer |-> <<>>]
        /\ others = OtherEvents
        /\ validated = [p \in Peer |-> <<>>]
        /\ curHead = head
        /\ cmd = [p \in Peer |-> IF p = Initiator THEN "issued" ELSE "none"]
        /\ pc = [p \in Peer |-> "idle"]
        /\ loc = [p \in Peer |-> NoLocals]
        /\ inbox = [p \in Peer |-> <<>>]
  BY DEF Init
<1>2. /\ s \in [Peer -> [known : SUBSET Entity, head : Block]]
      /\ \A p \in Peer :
            /\ Closed(s[p].known) /\ {Zero, s[p].head} \subseteq s[p].known
            /\ \A b \in (Block \ {Zero}) \cap s[p].known : BlockOf[b].headerOk
      /\ OtherEvents \in [Peer -> SUBSET Event]
  BY SyncAssumption
<1>3. /\ known \in [Peer -> SUBSET Entity] /\ head \in [Peer -> Block]
      /\ curHead \in [Peer -> Block] /\ others \in [Peer -> SUBSET Event]
  BY <1>1, <1>2
<1>4. cmd \in [Peer -> Commands]  BY <1>1 DEF Commands
<1>5. /\ handed \in [Peer -> Seq(Event)] /\ validated \in [Peer -> Seq(Block)]
      /\ inbox \in [Peer -> Seq(Message)]
  BY <1>1
<1>6. /\ pc \in [Peer -> {"idle", "request", "panicked"} \cup DOMAIN Expects]
      /\ loc \in [Peer -> Locals]
  BY <1>1, LocalsFacts
<1>7. \A p \in Peer :
         /\ {head[p], curHead[p]} \subseteq known[p] /\ others[p] \subseteq OtherEvents[p]
         /\ loc[p].got <= Len(loc[p].needed)
  BY <1>1, <1>2, LocalsFacts
<1>8. TypeOK  BY <1>3, <1>4, <1>5, <1>6, <1>7 DEF TypeOK
<1>9. \A p \in Peer : ToSet(validated[p]) = {}  BY <1>1 DEF ToSet
<1>10. NodesOK  BY <1>1, <1>2, <1>9 DEF NodesOK
<1>11. \A p \in Peer : Fresh(p)  BY <1>1, LocalsFacts DEF Fresh
<1>12. Resting  BY <1>1 DEF Resting
<1> QED  BY <1>8, <1>10, <1>11, <1>12 DEF IInv, Together

\* Every step keeps the ends together.
LEMMA Inductive ==
  ASSUME IInv, [Next]_vars
  PROVE  IInv'
<1>1. CASE UNCHANGED vars
  <2>1. UNCHANGED <<known, head, handed, others, validated, curHead, cmd, pc, loc, inbox>>
    BY <1>1 DEF vars, nodeVars, endVars
  <2>2. TypeOK /\ NodesOK  BY DEF IInv
  <2>3. NodesOK'  BY <2>1, <2>2 DEF NodesOK
  <2> QED  BY <2>1, <2>2, <2>3, NodeKept DEF TypeOK
<1>2. ASSUME NEW p \in Peer, EndStep(p)  PROVE IInv'
  <2>1. CASE TakeHead(p)  BY <2>1, TakeHeadOK
  <2>2. CASE Serve(p)  BY <2>2, CommandOK
  <2>3. CASE Read(p)  BY <2>3, ReadOK
  <2>4. CASE RequestNext(p)  BY <2>4, RequestNextOK
  <2>5. CASE FinishReceiving(p)  BY <2>5, FinishReceivingOK
  <2> QED  BY <1>2, <2>1, <2>2, <2>3, <2>4, <2>5 DEF EndStep
<1>3. CASE BothStep  BY <1>3, CommandOK DEF BothStep
<1>4. ASSUME NEW p \in Peer, NodeStep(p)  PROVE IInv'
  BY <1>4, StoreNextOK, AdoptOK DEF NodeStep
<1>5. ASSUME NEW p \in Peer, NEW e \in others[p], OtherPublishes(p, e)  PROVE IInv'
  BY <1>5, OtherPublishesOK
<1> QED  BY <1>1, <1>2, <1>3, <1>4, <1>5 DEF Next, Rest

\* The two ends are together after every step of either end or node.
THEOREM Invariance == Spec => []IInv
<1>1. Init => IInv  BY InitOK
<1>2. IInv /\ [Next]_vars => IInv'  BY Inductive
<1> QED  BY <1>1, <1>2, PTL DEF Spec

\* What the invariant says of the next read.
LEMMA ReadsFit == IInv => NoMisread
<1> SUFFICES ASSUME IInv, NEW p \in Peer
             PROVE  /\ pc[p] # "panicked"
                    /\ pc[p] \in DOMAIN Expects /\ inbox[p] # <<>> => Fits(p, Head(inbox[p]))
                    /\ pc[p] = "serve" /\ inbox[p] # <<>> => Head(inbox[p]).id \in known[p]
  BY DEF NoMisread
<1> DEFINE q == Other(p)
           m == Head(inbox[p])
<1>1. q \in Peer /\ Other(q) = p  BY OtherFacts
<1>2. Together  BY DEF IInv
<1>3. pc[p] # "panicked"  BY <1>2, StageOf
<1>4. ASSUME inbox[p] # <<>>, pc[p] = "hello"  PROVE Fits(p, m)
  <2>1. Greeting  BY <1>2, <1>4, StageOf
  <2>2. m = Hello(q)  BY <1>4, <2>1, GreetsFacts
  <2>3. m.kind = "hello"  BY <2>2 DEF Hello
  <2> QED  BY <1>4, <2>3, FitsFacts
<1>5. ASSUME inbox[p] # <<>>, pc[p] \in {"cancelled", "offered"}  PROVE Fits(p, m)
  <2>1. \E a, rest : inbox[p] = <<Answer(a)>> \/ inbox[p] = <<Answer(a), rest>>
    <3>1. CASE Greeting  BY <1>5, <3>1, AnswerToRead DEF Answered
    <3>2. CASE Leaving(q)  BY <1>1, <1>5, <3>2 DEF Leaving
    <3>3. CASE Deciding(p)  BY <1>5, <3>3 DEF Deciding
    <3>4. CASE Deciding(q)  BY <1>1, <1>5, <3>4 DEF Deciding
    <3> QED  BY <1>2, <1>5, <3>1, <3>2, <3>3, <3>4, StageOf
  <2>2. PICK a : m = Answer(a)  BY <2>1, QueueFacts
  <2>3. m.kind = "answer"  BY <2>2 DEF Answer
  <2> QED  BY <1>5, <2>3, FitsFacts
<1>6. ASSUME inbox[p] # <<>>, pc[p] = "sendRole"  PROVE Fits(p, m)
  <2>1. inbox[p] = <<Role("recv")>>  BY <1>2, <1>6, StageOf DEF Deciding
  <2>2. m = Role("recv")  BY <2>1, QueueFacts
  <2>3. m.kind = "role" /\ m.role = "recv"  BY <2>2 DEF Role
  <2> QED  BY <1>6, <2>3, FitsFacts
<1>7. ASSUME inbox[p] # <<>>, pc[p] = "recvRole"  PROVE Fits(p, m)
  <2>1. \E rest : inbox[p] = <<Role("send")>> \/ inbox[p] = <<Role("send"), rest>>
    <3>1. CASE Deciding(q)  BY <1>1, <1>7, <3>1 DEF Deciding
    <3>2. CASE Walking(q)  BY <1>1, <1>7, <3>2 DEF Walking
    <3> QED  BY <1>2, <1>7, <3>1, <3>2, StageOf
  <2>2. m = Role("send")  BY <2>1, QueueFacts
  <2>3. m.kind = "role" /\ m.role = "send"  BY <2>2 DEF Role
  <2> QED  BY <1>7, <2>3, FitsFacts
<1>8. ASSUME inbox[p] # <<>>, pc[p] \in {"sendWalk", "verdict"}  PROVE Fits(p, m)
  <2>1. \E ok, x, y : inbox[p] \in {<<Bool(ok)>>, <<Bool(ok), x>>, <<Bool(ok), x, y>>}
    <3>1. CASE Walking(p)  BY <1>8, <3>1 DEF Walking
    <3>2. CASE SendingBlocks(p)  BY <1>8, <3>2 DEF SendingBlocks
    <3>3. CASE SendingEntities(p)  BY <1>8, <3>3 DEF SendingEntities
    <3>4. CASE Ending(p)  BY <1>8, <3>4 DEF Ending
    <3> QED  BY <1>2, <1>8, <3>1, <3>2, <3>3, <3>4, StageOf
  <2>2. PICK ok : m = Bool(ok)  BY <2>1, QueueFacts
  <2>3. m.kind = "bool"  BY <2>2 DEF Bool
  <2> QED  BY <1>8, <2>3, FitsFacts
<1>9. ASSUME inbox[p] # <<>>, pc[p] \in {"serve", "recvWalk"}
      PROVE  Fits(p, m) /\ (pc[p] = "serve" => m.id \in known[p])
  <2>1. \E id, rest :
           /\ inbox[p] = <<Id(id)>> \/ inbox[p] = <<Id(id), rest>>
           /\ pc[p] = "serve" => id \in known[p]
    <3>1. CASE SendingEntities(p)  BY <1>9, <3>1 DEF SendingEntities
    <3>2. CASE Ending(p)
      <4>1. Zero \in known[p]  BY EndTyped
      <4> QED  BY <1>9, <3>2, <4>1 DEF Ending
    <3>3. CASE pc[p] = "recvWalk" /\ (Deciding(q) \/ Walking(q))
      BY <1>1, <1>9, <3>3 DEF Walking, Deciding
    <3> QED  BY <1>2, <1>9, <3>1, <3>2, <3>3, StageOf
  <2>2. PICK id : m = Id(id) /\ (pc[p] = "serve" => id \in known[p])  BY <2>1, QueueFacts
  <2>3. m.kind = "id" /\ m.id = id  BY <2>2 DEF Id
  <2> QED  BY <1>9, <2>2, <2>3, FitsFacts
<1>10. ASSUME inbox[p] # <<>>, pc[p] = "complete"  PROVE Fits(p, m)
  <2>1. inbox[p] = <<Complete>>  BY <1>2, <1>10, StageOf DEF Ending
  <2>2. m = Complete  BY <2>1, QueueFacts
  <2>3. m.kind = "complete"  BY <2>2 DEF Complete
  <2> QED  BY <1>10, <2>3, FitsFacts
<1>11. ASSUME inbox[p] # <<>>, pc[p] = "recvBlocks"  PROVE Fits(p, m)
  <2>1. SendingBlocks(q)
    <3>1. ~Walking(q)  BY <1>1, <1>11 DEF Walking
    <3> QED  BY <1>2, <1>11, <3>1, StageOf
  <2>2. /\ loc[p].got < Len(loc[p].needed)
        /\ inbox[p] = BlocksFrom(loc[p].needed, loc[p].got)
    BY <1>1, <2>1 DEF SendingBlocks, SameNeeded
  <2>3. m = BlockMsg(loc[p].needed[loc[p].got + 1])  BY <2>2, EndTyped, BlocksFromFacts
  <2>4. m.kind = "block" /\ m.id = loc[p].needed[loc[p].got + 1]  BY <2>3 DEF BlockMsg
  <2> QED  BY <1>11, <2>4, FitsFacts
<1>12. ASSUME inbox[p] # <<>>, pc[p] = "recvEntity"  PROVE Fits(p, m)
  <2>1. inbox[p] = <<EntityMsg(loc[p].asked)>>
    <3>1. SendingEntities(q)  BY <1>2, <1>12, StageOf
    <3> QED  BY <1>1, <1>12, <3>1 DEF SendingEntities
  <2>2. m = EntityMsg(loc[p].asked)  BY <2>1, QueueFacts
  <2>3. m.kind = "entity" /\ m.id = loc[p].asked  BY <2>2 DEF EntityMsg
  <2> QED  BY <1>12, <2>3, FitsFacts
<1>13. pc[p] \in DOMAIN Expects =>
         pc[p] \in {"hello", "cancelled", "offered", "sendRole", "sendWalk", "verdict",
                   "serve", "complete", "recvRole", "recvWalk", "recvBlocks", "recvEntity"}
  BY DEF Expects
<1> HIDE DEF m, q
<1>14. pc[p] \in DOMAIN Expects /\ inbox[p] # <<>> => Fits(p, m)
  BY <1>4, <1>5, <1>6, <1>7, <1>8, <1>9, <1>10, <1>11, <1>12, <1>13
<1>15. pc[p] = "serve" /\ inbox[p] # <<>> => m.id \in known[p]  BY <1>9
<1> QED  BY <1>3, <1>14, <1>15 DEF m

LEMMA RestingClean == IInv => StreamsClean
<1> SUFFICES ASSUME IInv, \A p \in Peer : pc[p] = "idle", NEW p \in Peer
             PROVE  inbox[p] = <<>>
  BY DEF StreamsClean
<1>1. pc[Other(p)] = "idle"  BY OtherFacts
<1>2. Resting  BY <1>1, StageOf DEF IInv
<1> QED  BY <1>2 DEF Resting

\* sync.go: the variables keep their types, the locals of both handlers and the
\* messages in the streams included, and an end's head is in its node's inventory.
THEOREM TypeCorrect == Spec => []TypeOK
<1>1. IInv => TypeOK  BY DEF IInv
<1> QED  BY <1>1, Invariance, PTL

\* sync.go, every Read and Expect: for any two inventories, whatever other peers deliver
\* meanwhile, an end reads what the other sent for that place, is asked only for what it
\* has, and is never sent a chain that fails its verification.
THEOREM AllReadsFit == Spec => []NoMisread
<1> QED  BY ReadsFit, Invariance, PTL

\* peer.go Loop: two ends that are both out of the handler have left nothing unread.
THEOREM StreamsStayClean == Spec => []StreamsClean
<1> QED  BY RestingClean, Invariance, PTL

-----------------------------------------------------------------------------
(* What is handed over can be stored *)

\* The nodes of the trees of the blocks bs, the block that one belongs to, and its place
\* in a walk of all trees at once, layer by layer.
Parts(bs) == {id \in Tx \cup Merkle : \E i \in DOMAIN bs : LeafSet(id) \subseteq Leaves(bs[i])}
Own(bs, id) == CHOOSE i \in DOMAIN bs : LeafSet(id) \subseteq Leaves(bs[i])
Turn(bs, id) == Len(bs) * (Layers(bs[Own(bs, id)]) - TreeHeight[id]) + Own(bs, id)

InTurn(bs, s) == \A i, j \in DOMAIN s : i < j => Turn(bs, s[i]) <= Turn(bs, s[j])

\* The blocks bs lead from an orderly head down to at.
Descent(bs, at) ==
    /\ bs \in Seq(Block \ {Zero}) /\ bs # <<>> /\ at \in Block
    /\ \A i \in 1..(Len(bs) - 1) : BlockOf[bs[i]].prev = bs[i + 1]
    /\ BlockOf[bs[Len(bs)]].prev = at
    /\ Orderly(bs[1])

\* The merkles ms and the txs ts were received for the blocks bs, and the ids of wait are
\* to come, for a node that has K: nothing was passed over, and all is in turn.
Gathered(bs, K, ms, ts, wait) ==
    LET got == ToSet(ms) \cup ToSet(ts)
        had == K \cup got \cup ToSet(wait)
    IN
    /\ \A i \in DOMAIN bs : BlockOf[bs[i]].merkleRoot \in had
    /\ \A m \in ToSet(ms) : Refs(m) \subseteq had
    /\ got \cup ToSet(wait) \subseteq Parts(bs)
    /\ InTurn(bs, ms) /\ InTurn(bs, ts) /\ InTurn(bs, wait)
    /\ \A x \in got : \A y \in ToSet(wait) : Turn(bs, x) <= Turn(bs, y)
    /\ \A x, y \in ToSet(wait) : Turn(bs, y) <= Turn(bs, x) + Len(bs)

\* What the receiver still has to take.
Awaited(place, l) ==
    IF place = "recvEntity" THEN <<l.asked>> \o l.idQueue ELSE l.idQueue

\* An end with the locals l at this place, whose inventory is K and whose head is h.  The
\* blocks that a sender notes begin with its head; what a receiver gathers is for the
\* blocks that it was sent, on top of one that it has.
Gathers(place, l, K, h) ==
    /\ place \in {"sendWalk", "verdict"} =>
         h = IF l.needed = <<>> THEN l.lcaId ELSE l.needed[1]
    /\ place \in {"recvBlocks", "request", "recvEntity"} => l.lcaId \in K
    /\ IF place \in {"request", "recvEntity"}
       THEN /\ Descent(l.needed, l.lcaId)
            /\ Gathered(l.needed, K, l.newMerkles, l.newTxs, Awaited(place, l))
       ELSE l.newMerkles = <<>> /\ l.newTxs = <<>>

GatherInv == \A p \in Peer : Gathers(pc[p], loc[p], known[p], curHead[p])

-----------------------------------------------------------------------------
(* Trees *)

LEMMA TreeFacts ==
  ASSUME BalancedTrees
  PROVE  /\ \A id \in Tx \cup Merkle : TreeHeight[id] \in Nat /\ LeafSet(id) \subseteq Tx
         /\ \A t \in Tx : TreeHeight[t] = 0 /\ LeafSet(t) = {t}
         /\ \A m \in Merkle :
              /\ Refs(m) = {MerkleOf[m].l, MerkleOf[m].r} /\ Refs(m) \subseteq Tx \cup Merkle
              /\ \A id \in Refs(m) : TreeHeight[m] = TreeHeight[id] + 1
              /\ LeafSet(m) = UNION {LeafSet(id) : id \in Refs(m)}
<1>1. ASSUME NEW t \in Tx  PROVE TreeHeight[t] = 0 /\ LeafSet(t) = {t}
  BY DEF BalancedTrees, LeafSet
<1>2. ASSUME NEW m \in Merkle
      PROVE  /\ Refs(m) = {MerkleOf[m].l, MerkleOf[m].r} /\ Refs(m) \subseteq Tx \cup Merkle
             /\ \A id \in Refs(m) : TreeHeight[m] = TreeHeight[id] + 1
             /\ LeafSet(m) = UNION {LeafSet(id) : id \in Refs(m)} /\ LeafSet(m) \subseteq Tx
  <2>1. m \notin Tx /\ MerkleOf[m] \in MerkleRecord  BY EntitiesAssumption
  <2>2. Refs(m) = {MerkleOf[m].l, MerkleOf[m].r}  BY <2>1, SyncAssumption DEF Refs
  <2>3. Refs(m) \subseteq Tx \cup Merkle  BY <2>1, <2>2 DEF MerkleRecord
  <2>4. LeafSet(m) = ToSet(GetMerkleTxIds[m])  BY <2>1 DEF LeafSet
  <2>5. /\ GetMerkleTxIds[m] \in Seq(Tx)
        /\ LeafSet(m) = LeafSet(MerkleOf[m].l) \cup LeafSet(MerkleOf[m].r)
    BY <2>4, LeavesAssumption
  <2>6. LeafSet(m) = UNION {LeafSet(id) : id \in Refs(m)}  BY <2>2, <2>5
  <2>7. LeafSet(m) \subseteq Tx
    <3> DEFINE s == GetMerkleTxIds[m]
    <3>1. s \in Seq(Tx)  BY <2>5
    <3> HIDE DEF s
    <3>2. ToSet(s) \subseteq Tx  BY <3>1, SeqElements DEF ToSet
    <3> QED  BY <2>4, <3>2 DEF s
  <2>8. \A id \in Refs(m) : TreeHeight[m] = TreeHeight[id] + 1  BY DEF BalancedTrees
  <2> QED  BY <2>2, <2>3, <2>6, <2>7, <2>8
<1>3. \A id \in Tx \cup Merkle : TreeHeight[id] \in Nat  BY DEF BalancedTrees
<1> QED  BY <1>1, <1>2, <1>3

\* What holds of the txs, and of a merkle if of its children, holds of all merkles.
LEMMA TreeInduction ==
  ASSUME BalancedTrees, NEW X, Tx \subseteq X, \A m \in Merkle : Refs(m) \subseteq X => m \in X
  PROVE  Tx \cup Merkle \subseteq X
<1> DEFINE Bad == {m \in Merkle : m \notin X}
           Heights == {TreeHeight[m] : m \in Bad}
<1> SUFFICES ASSUME Bad # {}  PROVE FALSE
  OBVIOUS
<1>1. Heights \subseteq Nat /\ Heights # {}  BY TreeFacts
<1> HIDE DEF Heights
<1>2. PICK h \in Heights : \A k \in Heights : h <= k  BY <1>1, LeastNatural
<1>3. PICK m \in Bad : TreeHeight[m] = h  BY <1>2 DEF Heights
<1>4. PICK id \in Refs(m) : id \notin X  BY <1>3
<1>5. id \in Bad /\ h = TreeHeight[id] + 1 /\ TreeHeight[id] \in Nat
  BY <1>3, <1>4, TreeFacts
<1>6. h <= TreeHeight[id]  BY <1>2, <1>5 DEF Heights
<1> QED  BY <1>5, <1>6

LEMMA LeavesExist ==
  ASSUME BalancedTrees
  PROVE  \A id \in Tx \cup Merkle : LeafSet(id) # {}
<1> DEFINE X == {id \in Tx \cup Merkle : LeafSet(id) # {}}
<1>1. Tx \subseteq X  BY TreeFacts
<1>2. \A m \in Merkle : Refs(m) \subseteq X => m \in X
  <2> SUFFICES ASSUME NEW m \in Merkle, Refs(m) \subseteq X  PROVE m \in X
    OBVIOUS
  <2>1. MerkleOf[m].l \in Refs(m)  BY TreeFacts
  <2>2. LeafSet(MerkleOf[m].l) \subseteq LeafSet(m)  BY <2>1, TreeFacts
  <2> QED  BY <2>1, <2>2
<1> HIDE DEF X
<1>3. Tx \cup Merkle \subseteq X  BY <1>1, <1>2, TreeInduction
<1> QED  BY <1>3 DEF X

\* A set with the children of its merkles has all leaves of its trees.
LEMMA LeavesHad ==
  ASSUME BalancedTrees, NEW H, \A m \in H \cap Merkle : Refs(m) \subseteq H,
         NEW id \in H \cap (Tx \cup Merkle)
  PROVE  LeafSet(id) \subseteq H
<1> DEFINE X == {x \in Tx \cup Merkle : x \in H => LeafSet(x) \subseteq H}
<1>1. Tx \subseteq X  BY TreeFacts
<1>2. \A m \in Merkle : Refs(m) \subseteq X => m \in X  BY TreeFacts
<1> HIDE DEF X
<1>3. Tx \cup Merkle \subseteq X  BY <1>1, <1>2, TreeInduction
<1> QED  BY <1>3 DEF X

-----------------------------------------------------------------------------
(* Turns *)

\* Below a block of a descent are the later ones, and what is below its end.
LEMMA DescentBelow ==
  ASSUME NEW bs, NEW at, Descent(bs, at), NEW i \in DOMAIN bs
  PROVE  LET below == Ancestors[BlockOf[bs[i]].prev] IN
         /\ bs[i] \in Block \ {Zero} /\ bs[i] \in Ancestors[bs[1]]
         /\ \A j \in DOMAIN bs : i < j => bs[j] \in below
         /\ \A a \in below : a \in Ancestors[at] \/ \E j \in DOMAIN bs : i < j /\ a = bs[j]
<1> DEFINE n == Len(bs)
           prev(j) == BlockOf[bs[j]].prev
<1>1. /\ n \in Nat /\ DOMAIN bs = 1..n /\ n # 0 /\ at \in Block
      /\ \A j \in 1..n : bs[j] \in Block \ {Zero} /\ prev(j) \in Block
      /\ \A j \in 1..(n - 1) : prev(j) = bs[j + 1]
      /\ prev(n) = at
  <2>1. bs \in Seq(Block \ {Zero})  BY DEF Descent
  <2>2. /\ n \in Nat /\ DOMAIN bs = 1..n /\ \A j \in 1..n : bs[j] \in Block \ {Zero}
    BY <2>1, SeqElements
  <2>3. n # 0  BY <2>1 DEF Descent
  <2> QED  BY <2>2, <2>3, BlockFacts DEF Descent
<1> HIDE DEF n
<1>2. ASSUME NEW k \in 1..n, NEW b \in Block, bs[k] \in Ancestors[b]
      PROVE  \A j \in k..n : bs[j] \in Ancestors[b]
  <2> DEFINE Bad == {j \in k..n : bs[j] \notin Ancestors[b]}
  <2> SUFFICES ASSUME Bad # {}  PROVE FALSE
    OBVIOUS
  <2>1. Bad \subseteq Nat  BY <1>1
  <2> HIDE DEF Bad
  <2>2. PICK m \in Bad : \A j \in Bad : m <= j  BY <2>1, LeastNatural
  <2>3. m \in k..n /\ bs[m] \notin Ancestors[b]  BY <2>2 DEF Bad
  <2>4. m # k  BY <1>2, <2>3
  <2>5. m - 1 \in k..n /\ m - 1 \in 1..(n - 1) /\ m - 1 < m  BY <1>1, <2>3, <2>4
  <2>6. bs[m - 1] \in Ancestors[b]
    <3>1. ~(m <= m - 1)  BY <2>3
    <3>2. m - 1 \notin Bad  BY <2>2, <3>1
    <3> QED  BY <2>5, <3>2 DEF Bad
  <2>7. bs[m - 1] # Zero /\ prev(m - 1) = bs[m]
    <3>1. m - 1 \in 1..n /\ (m - 1) + 1 = m  BY <1>1, <2>3, <2>5
    <3> HIDE DEF prev
    <3>2. prev(m - 1) = bs[(m - 1) + 1]  BY <1>1, <2>5
    <3> QED  BY <1>1, <3>1, <3>2
  <2>8. bs[m] \in Ancestors[b]  BY <2>6, <2>7, AncestorsClosed DEF ClosedUnderParent
  <2> QED  BY <2>3, <2>8
<1>3. i \in 1..n /\ 1 \in 1..n  BY <1>1
<1>4. bs[i] \in Ancestors[bs[1]]
  <2>1. bs[1] \in Block /\ bs[1] \in Ancestors[bs[1]]  BY <1>1, <1>3, AncestorsClosed
  <2>2. i \in 1..n  BY <1>3
  <2> QED  BY <1>2, <1>3, <2>1, <2>2
<1>5. ASSUME NEW j \in 1..n, i < j  PROVE bs[j] \in Ancestors[prev(i)]
  <2>1. i \in 1..(n - 1) /\ i + 1 \in 1..n /\ j \in (i + 1)..n  BY <1>1, <1>3, <1>5
  <2>2. prev(i) \in Block /\ prev(i) = bs[i + 1]  BY <1>1, <1>3, <2>1
  <2>3. bs[i + 1] \in Ancestors[prev(i)]  BY <2>2, AncestorsClosed
  <2> HIDE DEF prev
  <2> QED  BY <1>2, <2>1, <2>2, <2>3
<1>6. ASSUME NEW a \in Ancestors[prev(i)]
      PROVE  a \in Ancestors[at] \/ \E j \in 1..n : i < j /\ a = bs[j]
  <2> DEFINE S == {bs[j] : j \in {k \in 1..n : i < k}} \cup Ancestors[at]
  <2>1. S \in SUBSET Block  BY <1>1, AncestorsClosed
  <2>2. \A k \in 1..n : i <= k => prev(k) \in S
    <3> SUFFICES ASSUME NEW k \in 1..n, i <= k  PROVE prev(k) \in S
      OBVIOUS
    <3>1. CASE k = n  BY <1>1, <3>1, AncestorsClosed
    <3>2. CASE k # n
      <4>1. k \in 1..(n - 1) /\ k + 1 \in 1..n /\ i < k + 1  BY <1>1, <1>3, <3>2
      <4> QED  BY <1>1, <4>1
    <3> QED  BY <3>1, <3>2
  <2>3. ClosedUnderParent(S)
    <3> SUFFICES ASSUME NEW x \in S \ {Zero}  PROVE BlockOf[x].prev \in S
      BY DEF ClosedUnderParent
    <3>1. CASE x \in Ancestors[at]
      <4>1. BlockOf[x].prev \in Ancestors[at]
        BY <1>1, <3>1, AncestorsClosed DEF ClosedUnderParent
      <4> QED  BY <4>1
    <3>2. CASE x \notin Ancestors[at]
      <4>1. PICK k \in 1..n : i < k /\ x = bs[k]  BY <3>2
      <4>2. i <= k  BY <1>3, <4>1
      <4> QED  BY <2>2, <4>1, <4>2
    <3> QED  BY <3>1, <3>2
  <2>4. prev(i) \in S /\ prev(i) \in Block  BY <1>1, <1>3, <2>2
  <2> HIDE DEF S, prev
  <2>5. Ancestors[prev(i)] \subseteq S  BY <2>1, <2>3, <2>4, AncestorsLeast
  <2>6. a \in S  BY <1>6, <2>5
  <2> QED  BY <2>6 DEF S
<1> QED  BY <1>1, <1>3, <1>4, <1>5, <1>6

\* Each part belongs to one block.
LEMMA OwnFacts ==
  ASSUME BalancedTrees, NEW bs, NEW at, Descent(bs, at)
  PROVE  /\ \A i, j \in DOMAIN bs : i # j => Leaves(bs[i]) \cap Leaves(bs[j]) = {}
         /\ \A id \in Tx \cup Merkle : \A i \in DOMAIN bs :
              LeafSet(id) \subseteq Leaves(bs[i]) => id \in Parts(bs) /\ Own(bs, id) = i
         /\ \A id \in Parts(bs) :
              /\ id \in Tx \cup Merkle /\ Own(bs, id) \in DOMAIN bs
              /\ LeafSet(id) \subseteq Leaves(bs[Own(bs, id)])
<1>1. ASSUME NEW i \in DOMAIN bs, NEW j \in DOMAIN bs, i < j
      PROVE  Leaves(bs[i]) \cap Leaves(bs[j]) = {}
  <2>1. /\ bs[i] \in Ancestors[bs[1]] \ {Zero} /\ bs[j] # Zero
        /\ bs[j] \in Ancestors[BlockOf[bs[i]].prev]
    BY <1>1, DescentBelow
  <2>2. Orderly(bs[1])  BY DEF Descent
  <2> QED  BY <2>1, <2>2 DEF Orderly
<1>2. ASSUME NEW i \in DOMAIN bs, NEW j \in DOMAIN bs, i # j
      PROVE  Leaves(bs[i]) \cap Leaves(bs[j]) = {}
  <2>1. i \in Nat /\ j \in Nat
    <3>1. bs \in Seq(Block \ {Zero})  BY DEF Descent
    <3> QED  BY <3>1, SeqElements
  <2>2. i < j \/ j < i  BY <1>2, <2>1
  <2> QED  BY <1>1, <2>2
<1>3. ASSUME NEW id \in Tx \cup Merkle, NEW i \in DOMAIN bs,
             LeafSet(id) \subseteq Leaves(bs[i])
      PROVE  id \in Parts(bs) /\ Own(bs, id) = i
  <2>1. id \in Parts(bs)  BY <1>3 DEF Parts
  <2>2. Own(bs, id) \in DOMAIN bs /\ LeafSet(id) \subseteq Leaves(bs[Own(bs, id)])
    BY <1>3 DEF Own
  <2>3. LeafSet(id) # {}  BY LeavesExist
  <2> QED  BY <1>2, <1>3, <2>1, <2>2, <2>3
<1>4. ASSUME NEW id \in Parts(bs)
      PROVE  /\ id \in Tx \cup Merkle /\ Own(bs, id) \in DOMAIN bs
             /\ LeafSet(id) \subseteq Leaves(bs[Own(bs, id)])
  <2>1. id \in Tx \cup Merkle  BY DEF Parts
  <2>2. \E i \in DOMAIN bs : LeafSet(id) \subseteq Leaves(bs[i])  BY DEF Parts
  <2> QED  BY <2>1, <2>2 DEF Own
<1> QED  BY <1>2, <1>3, <1>4

\* A merkle's children come one round after it, the roots come in the order of their
\* blocks, and a tx of an earlier block with no fewer layers comes later.
LEMMA TurnFacts ==
  ASSUME BalancedTrees, NEW bs, NEW at, Descent(bs, at)
  PROVE  /\ Len(bs) \in Nat /\ \A id \in Parts(bs) : Turn(bs, id) \in Int
         /\ \A m \in Parts(bs) \cap Merkle : \A id \in Refs(m) :
              id \in Parts(bs) /\ Turn(bs, id) = Turn(bs, m) + Len(bs)
         /\ \A i \in DOMAIN bs :
              /\ BlockOf[bs[i]].merkleRoot \in Parts(bs)
              /\ Turn(bs, BlockOf[bs[i]].merkleRoot) = i
         /\ \A i, j \in DOMAIN bs : i < j /\ Layers(bs[i]) <= Layers(bs[j]) =>
              \A t \in Leaves(bs[i]) : \A u \in Leaves(bs[j]) : Turn(bs, t) < Turn(bs, u)
<1> DEFINE n == Len(bs)
           root(i) == BlockOf[bs[i]].merkleRoot
<1>1. /\ n \in Nat /\ DOMAIN bs = 1..n
      /\ \A i \in 1..n : /\ root(i) \in Merkle /\ Layers(bs[i]) = TreeHeight[root(i)]
                         /\ Leaves(bs[i]) = LeafSet(root(i)) /\ Layers(bs[i]) \in Nat
                         /\ Leaves(bs[i]) \subseteq Tx
  <2>1. bs \in Seq(Block \ {Zero})  BY DEF Descent
  <2>2. n \in Nat /\ DOMAIN bs = 1..n /\ \A j \in 1..n : bs[j] \in Block \ {Zero}
    BY <2>1, SeqElements
  <2>3. \A i \in 1..n : root(i) \in Merkle  BY <2>2, BlockFacts
  <2> QED  BY <2>2, <2>3, TreeFacts DEF Layers, Leaves
<1> HIDE DEF n
<1>2. ASSUME NEW id \in Tx \cup Merkle, NEW i \in 1..n, LeafSet(id) \subseteq Leaves(bs[i])
      PROVE  /\ id \in Parts(bs) /\ Own(bs, id) = i
             /\ Turn(bs, id) = n * (Layers(bs[i]) - TreeHeight[id]) + i
  <2>1. id \in Parts(bs) /\ Own(bs, id) = i  BY <1>1, <1>2, OwnFacts
  <2> QED  BY <2>1 DEF Turn, n
<1>3. ASSUME NEW id \in Parts(bs)
      PROVE  /\ id \in Tx \cup Merkle
             /\ \E i \in 1..n : LeafSet(id) \subseteq Leaves(bs[i])
  BY <1>1, OwnFacts
<1>4. ASSUME NEW id \in Parts(bs)  PROVE Turn(bs, id) \in Int
  <2>1. PICK i \in 1..n : LeafSet(id) \subseteq Leaves(bs[i])  BY <1>3
  <2>2. Turn(bs, id) = n * (Layers(bs[i]) - TreeHeight[id]) + i  BY <1>2, <1>3, <2>1
  <2>3. Layers(bs[i]) \in Int /\ TreeHeight[id] \in Int  BY <1>1, <1>3, TreeFacts
  <2>4. ASSUME NEW a \in Int, NEW b \in Int  PROVE n * (a - b) + i \in Int
    BY <1>1
  <2> QED  BY <2>2, <2>3, <2>4
<1>5. ASSUME NEW m \in Parts(bs) \cap Merkle, NEW id \in Refs(m)
      PROVE  id \in Parts(bs) /\ Turn(bs, id) = Turn(bs, m) + n
  <2>1. PICK i \in 1..n : LeafSet(m) \subseteq Leaves(bs[i])  BY <1>3
  <2>2. /\ id \in Tx \cup Merkle /\ LeafSet(id) \subseteq Leaves(bs[i])
        /\ TreeHeight[m] = TreeHeight[id] + 1 /\ TreeHeight[id] \in Nat
    BY <2>1, TreeFacts
  <2> DEFINE x == Layers(bs[i]) - TreeHeight[m]
  <2>3. x \in Int /\ Layers(bs[i]) - TreeHeight[id] = x + 1  BY <1>1, <2>2
  <2>4. Turn(bs, m) = n * x + i  BY <1>2, <2>1
  <2>5. id \in Parts(bs) /\ Turn(bs, id) = n * (x + 1) + i  BY <1>2, <2>2, <2>3
  <2> HIDE DEF x
  <2>6. n \in Int /\ 1 \in Int  BY <1>1
  <2>7. n * (x + 1) = n * x + n * 1  BY <2>3, <2>6, Distributes
  <2>8. n * x \in Int /\ n * 1 = n  BY <2>3, <2>6
  <2>9. n * (x + 1) + i = (n * x + i) + n  BY <1>1, <2>7, <2>8
  <2> QED  BY <2>4, <2>5, <2>9
<1>6. ASSUME NEW i \in 1..n  PROVE root(i) \in Parts(bs) /\ Turn(bs, root(i)) = i
  <2>1. root(i) \in Tx \cup Merkle /\ LeafSet(root(i)) \subseteq Leaves(bs[i])  BY <1>1
  <2> HIDE DEF root
  <2>2. /\ root(i) \in Parts(bs)
        /\ Turn(bs, root(i)) = n * (Layers(bs[i]) - TreeHeight[root(i)]) + i
    BY <1>2, <2>1
  <2>3. Layers(bs[i]) - TreeHeight[root(i)] = 0  BY <1>1
  <2>4. n * 0 = 0  BY <1>1
  <2>5. n * 0 + i = i  BY <1>1, <2>4
  <2> QED  BY <2>2, <2>3, <2>5
<1>7. ASSUME NEW i \in 1..n, NEW j \in 1..n, i < j, Layers(bs[i]) <= Layers(bs[j]),
             NEW t \in Leaves(bs[i]), NEW u \in Leaves(bs[j])
      PROVE  Turn(bs, t) < Turn(bs, u)
  <2>1. t \in Tx /\ u \in Tx  BY <1>1
  <2>2. /\ TreeHeight[t] = 0 /\ LeafSet(t) \subseteq Leaves(bs[i])
        /\ TreeHeight[u] = 0 /\ LeafSet(u) \subseteq Leaves(bs[j])
    BY <2>1, TreeFacts
  <2>3. Turn(bs, t) = n * (Layers(bs[i]) - 0) + i /\ Turn(bs, u) = n * (Layers(bs[j]) - 0) + j
    BY <1>2, <2>1, <2>2
  <2> DEFINE a == Layers(bs[i])
             d == Layers(bs[j]) - Layers(bs[i])
  <2>4. a \in Nat /\ d \in Nat /\ Layers(bs[j]) - 0 = a + d /\ Layers(bs[i]) - 0 = a
    BY <1>1, <1>7
  <2> HIDE DEF a, d
  <2>5. n * (a + d) = n * a + n * d  BY <1>1, <2>4, Distributes
  <2>6. n * a \in Nat /\ n * d \in Nat  BY <1>1, <2>4
  <2>7. n * a + i < n * (a + d) + j  BY <1>1, <1>7, <2>5, <2>6
  <2> QED  BY <2>3, <2>4, <2>7
<1> QED  BY <1>1, <1>4, <1>5, <1>6, <1>7 DEF n

-----------------------------------------------------------------------------
(* Gathering *)

LEMMA FirstInTurn ==
  ASSUME NEW S, NEW w \in Seq(S), w # <<>>, NEW bs, InTurn(bs, w)
  PROVE  /\ Head(w) \in S /\ Tail(w) \in Seq(S)
         /\ ToSet(w) = {Head(w)} \cup ToSet(Tail(w))
         /\ InTurn(bs, Tail(w))
         /\ \A y \in ToSet(Tail(w)) : Turn(bs, Head(w)) <= Turn(bs, y)
<1> DEFINE n == Len(w)
           h == Head(w)
           t == Tail(w)
<1>1. /\ n \in Nat /\ n # 0 /\ DOMAIN w = 1..n /\ h = w[1] /\ h \in S
      /\ t \in Seq(S) /\ DOMAIN t = 1..(n - 1) /\ \A i \in 1..(n - 1) : t[i] = w[i + 1]
  OBVIOUS
<1> HIDE DEF n, h, t
<1>2. 1 \in 1..n /\ \A i \in 1..(n - 1) : i + 1 \in 1..n /\ 1 < i + 1  BY <1>1
<1>3. \A j \in 1..n : j # 1 => j - 1 \in 1..(n - 1) /\ (j - 1) + 1 = j  BY <1>1
<1>4. ToSet(w) = {h} \cup ToSet(t)
  <2>1. ASSUME NEW x \in ToSet(w)  PROVE x \in {h} \cup ToSet(t)
    <3>1. PICK j \in 1..n : x = w[j]  BY <1>1 DEF ToSet
    <3>2. CASE j = 1  BY <1>1, <3>1, <3>2
    <3>3. CASE j # 1
      <4>1. j - 1 \in 1..(n - 1) /\ t[j - 1] = x  BY <1>1, <1>3, <3>1, <3>3
      <4> QED  BY <1>1, <4>1 DEF ToSet
    <3> QED  BY <3>2, <3>3
  <2>2. {h} \cup ToSet(t) \subseteq ToSet(w)  BY <1>1, <1>2 DEF ToSet
  <2> QED  BY <2>1, <2>2
<1>5. InTurn(bs, t)
  <2> SUFFICES ASSUME NEW i \in 1..(n - 1), NEW j \in 1..(n - 1), i < j
               PROVE  Turn(bs, t[i]) <= Turn(bs, t[j])
    BY <1>1 DEF InTurn
  <2>1. i + 1 \in 1..n /\ j + 1 \in 1..n /\ i + 1 < j + 1  BY <1>1
  <2> QED  BY <1>1, <2>1 DEF InTurn
<1>6. ASSUME NEW y \in ToSet(t)  PROVE Turn(bs, h) <= Turn(bs, y)
  <2>1. PICK i \in 1..(n - 1) : y = t[i]  BY <1>1 DEF ToSet
  <2>2. y = w[i + 1]  BY <1>1, <2>1
  <2> QED  BY <1>1, <1>2, <2>2 DEF InTurn
<1> QED  BY <1>1, <1>4, <1>5, <1>6 DEF h, t

LEMMA NextInTurn ==
  ASSUME NEW S, NEW s \in Seq(S), NEW a \in S, NEW bs, InTurn(bs, s),
         \A x \in ToSet(s) : Turn(bs, x) <= Turn(bs, a)
  PROVE  InTurn(bs, Append(s, a))
<1> DEFINE n == Len(s)
           t == Append(s, a)
<1>1. /\ n \in Nat /\ DOMAIN s = 1..n /\ DOMAIN t = 1..(n + 1)
      /\ t[n + 1] = a /\ \A i \in 1..n : t[i] = s[i]
  BY AppendProperties
<1> HIDE DEF n, t
<1> SUFFICES ASSUME NEW i \in 1..(n + 1), NEW j \in 1..(n + 1), i < j
             PROVE  Turn(bs, t[i]) <= Turn(bs, t[j])
  BY <1>1 DEF InTurn, t
<1>2. i \in 1..n  BY <1>1
<1>3. CASE j = n + 1
  <2>1. s[i] \in ToSet(s)  BY <1>1, <1>2 DEF ToSet
  <2> QED  BY <1>1, <1>2, <1>3, <2>1
<1>4. CASE j # n + 1
  <2>1. j \in 1..n  BY <1>1, <1>4
  <2> QED  BY <1>1, <1>2, <2>1 DEF InTurn
<1> QED  BY <1>3, <1>4

\* An inventory that grows passes nothing over.
LEMMA GatherKnown ==
  ASSUME NEW bs, NEW K, NEW K2, K \subseteq K2, NEW ms, NEW ts, NEW w,
         Gathered(bs, K, ms, ts, w)
  PROVE  Gathered(bs, K2, ms, ts, w)
BY DEF Gathered

\* The roots are queued.
LEMMA GatherStart ==
  ASSUME BalancedTrees, NEW bs, NEW at, Descent(bs, at), NEW K, NEW w,
         w = [i \in DOMAIN bs |-> BlockOf[bs[i]].merkleRoot]
  PROVE  Gathered(bs, K, <<>>, <<>>, w)
<1> DEFINE n == Len(bs)
<1>1. n \in Nat /\ DOMAIN bs = 1..n
  <2>1. bs \in Seq(Block \ {Zero})  BY DEF Descent
  <2> QED  BY <2>1, SeqElements
<1> HIDE DEF n
<1>2. \A i \in 1..n : /\ BlockOf[bs[i]].merkleRoot = w[i]
                      /\ w[i] \in Parts(bs) /\ Turn(bs, w[i]) = i
  BY <1>1, TurnFacts
<1>3. DOMAIN w = 1..n /\ \A x : x \in ToSet(w) <=> \E i \in 1..n : x = w[i]
  BY <1>1 DEF ToSet
<1>4. \A x \in ToSet(w) : x \in Parts(bs) /\ Turn(bs, x) \in 1..n  BY <1>2, <1>3
<1>5. ToSet(<<>>) = {} /\ InTurn(bs, <<>>)  BY DEF ToSet, InTurn
<1>6. InTurn(bs, w)  BY <1>1, <1>2, <1>3 DEF InTurn
<1>7. \A x, y \in ToSet(w) : Turn(bs, y) <= Turn(bs, x) + n  BY <1>1, <1>4
<1>8. \A i \in DOMAIN bs : BlockOf[bs[i]].merkleRoot \in ToSet(w)  BY <1>1, <1>2, <1>3
<1> QED  BY <1>4, <1>5, <1>6, <1>7, <1>8 DEF Gathered, n

\* The next id is had already.
LEMMA GatherSkip ==
  ASSUME NEW bs, NEW K, NEW ms, NEW ts, NEW S, NEW w \in Seq(S), w # <<>>,
         Gathered(bs, K, ms, ts, w), Head(w) \in K \cup ToSet(ms) \cup ToSet(ts)
  PROVE  Gathered(bs, K, ms, ts, Tail(w))
<1>1. InTurn(bs, w)  BY DEF Gathered
<1>2. ToSet(w) = {Head(w)} \cup ToSet(Tail(w)) /\ InTurn(bs, Tail(w))  BY <1>1, FirstInTurn
<1> QED  BY <1>2 DEF Gathered

\* The next id is received, and is a tx.
LEMMA GatherTx ==
  ASSUME NEW bs, NEW K, NEW ms, NEW ts \in Seq(Tx), NEW w \in Seq(Tx \cup Merkle), w # <<>>,
         Gathered(bs, K, ms, ts, w), Head(w) \in Tx
  PROVE  Gathered(bs, K, ms, Append(ts, Head(w)), Tail(w))
<1> DEFINE h == Head(w)
<1>1. InTurn(bs, w) /\ InTurn(bs, ts)  BY DEF Gathered
<1>2. /\ ToSet(w) = {h} \cup ToSet(Tail(w)) /\ InTurn(bs, Tail(w))
      /\ \A y \in ToSet(Tail(w)) : Turn(bs, h) <= Turn(bs, y)
  BY <1>1, FirstInTurn
<1> HIDE DEF h
<1>3. \A x \in ToSet(ts) : Turn(bs, x) <= Turn(bs, h)  BY <1>2 DEF Gathered
<1>4. InTurn(bs, Append(ts, h))  BY <1>1, <1>3, NextInTurn DEF h
<1>5. ToSet(Append(ts, h)) = ToSet(ts) \cup {h}  BY AppendRange DEF h
<1> QED  BY <1>2, <1>4, <1>5 DEF Gathered, h

\* The next id is received, and is a merkle, whose children are queued.
LEMMA GatherMerkle ==
  ASSUME BalancedTrees, NEW bs, NEW at, Descent(bs, at), NEW K, NEW ms \in Seq(Merkle), NEW ts,
         NEW w \in Seq(Tx \cup Merkle), w # <<>>,
         Gathered(bs, K, ms, ts, w), Head(w) \in Merkle
  PROVE  LET m == Head(w) IN
         Gathered(bs, K, Append(ms, m), ts, Tail(w) \o <<MerkleOf[m].l, MerkleOf[m].r>>)
<1> DEFINE h == Head(w)
           l == MerkleOf[h].l
           r == MerkleOf[h].r
           t == Tail(w)
           t1 == Append(t, l)
           t2 == Append(t1, r)
           n == Len(bs)
           T(x) == Turn(bs, x)
<1>1. InTurn(bs, w) /\ InTurn(bs, ms)  BY DEF Gathered
<1>2. /\ t \in Seq(Tx \cup Merkle)
      /\ ToSet(w) = {h} \cup ToSet(t) /\ InTurn(bs, t)
      /\ \A y \in ToSet(t) : T(h) <= T(y)
  BY <1>1, FirstInTurn
<1>3. h \in Parts(bs) /\ Refs(h) = {l, r} /\ {l, r} \subseteq Tx \cup Merkle
  BY <1>2, TreeFacts DEF Gathered
<1>4. /\ n \in Nat /\ \A x \in Parts(bs) : T(x) \in Int
      /\ {l, r} \subseteq Parts(bs) /\ T(l) = T(h) + n /\ T(r) = T(h) + n
  BY <1>3, TurnFacts
<1>5. /\ t1 \in Seq(Tx \cup Merkle) /\ ToSet(t1) = ToSet(t) \cup {l}
      /\ t2 \in Seq(Tx \cup Merkle) /\ ToSet(t2) = ToSet(t) \cup {l, r}
  <2> HIDE DEF t, l, r
  <2>1. t1 \in Seq(Tx \cup Merkle) /\ ToSet(t1) = ToSet(t) \cup {l}  BY <1>2, <1>3, AppendRange
  <2> HIDE DEF t1
  <2>2. t2 \in Seq(Tx \cup Merkle) /\ ToSet(t2) = ToSet(t1) \cup {r}
    BY <1>3, <2>1, AppendRange
  <2> QED  BY <2>1, <2>2
<1>6. t \o <<l, r>> = t2
  <2> HIDE DEF t, l, r
  <2>1. <<l, r>> = Append(<<l>>, r) /\ t \o <<l>> = t1  BY <1>2, <1>3
  <2>2. t \o Append(<<l>>, r) = Append(t \o <<l>>, r)  BY <1>2, <1>3
  <2> QED  BY <2>1, <2>2
<1>7. /\ \A x \in ToSet(ms) \cup ToSet(ts) : x \in Parts(bs) /\ T(x) <= T(h)
      /\ \A y \in ToSet(t) : y \in Parts(bs) /\ T(y) <= T(h) + n
      /\ \A x, y \in ToSet(t) : T(y) <= T(x) + n
      /\ \A x \in ToSet(ms) \cup ToSet(ts) : \A y \in ToSet(t) : T(x) <= T(y)
  BY <1>2 DEF Gathered
<1>8. ToSet(Append(ms, h)) = ToSet(ms) \cup {h}  BY AppendRange
<1>9. InTurn(bs, Append(ms, h))  BY <1>1, <1>7, NextInTurn
<1>10. InTurn(bs, t2)
  <2> HIDE DEF t, l, r, T, n
  <2>1. \A x \in ToSet(t) : T(x) <= T(l)  BY <1>4, <1>7
  <2>2. InTurn(bs, t1)  BY <1>2, <1>3, <2>1, NextInTurn DEF T
  <2>3. T(l) <= T(r) /\ \A x \in ToSet(t1) : T(x) <= T(r)  BY <1>3, <1>4, <1>5, <1>7
  <2> HIDE DEF t1
  <2> QED  BY <1>3, <1>5, <2>2, <2>3, NextInTurn DEF T
<1> HIDE DEF h, l, r, t, t1, t2, n, T
<1>11. \A x \in ToSet(ms) \cup {h} \cup ToSet(ts) : \A y \in ToSet(t2) : T(x) <= T(y)
  <2>1. T(h) \in Int /\ T(h) <= T(h) + n  BY <1>3, <1>4
  <2>2. \A x \in ToSet(ms) \cup ToSet(ts) : T(x) <= T(h) + n  BY <1>4, <1>7, <2>1
  <2> QED  BY <1>2, <1>4, <1>5, <1>7, <2>1, <2>2
<1>12. \A x, y \in ToSet(t2) : T(y) <= T(x) + n
  <2>1. \A x \in ToSet(t2) : T(x) \in Int /\ T(h) <= T(x) /\ T(x) <= T(h) + n
    BY <1>2, <1>3, <1>4, <1>5, <1>7
  <2> QED  BY <1>3, <1>4, <2>1
<1>13. ToSet(t2) \cup ToSet(ms) \cup ToSet(ts) \cup {h} \subseteq Parts(bs)
  BY <1>3, <1>4, <1>5, <1>7
<1>14. InTurn(bs, ts)  BY DEF Gathered
<1> DEFINE had == K \cup (ToSet(ms) \cup ToSet(ts)) \cup ToSet(w)
           had2 == K \cup (ToSet(Append(ms, h)) \cup ToSet(ts)) \cup ToSet(t2)
<1>15. /\ \A i \in DOMAIN bs : BlockOf[bs[i]].merkleRoot \in had
       /\ \A x \in ToSet(ms) : Refs(x) \subseteq had
  BY DEF Gathered
<1>16. had \subseteq had2 /\ Refs(h) \subseteq had2  BY <1>2, <1>3, <1>5, <1>8
<1>17. \A x \in ToSet(Append(ms, h)) : Refs(x) \subseteq had2  BY <1>8, <1>15, <1>16
<1>18. \A i \in DOMAIN bs : BlockOf[bs[i]].merkleRoot \in had2  BY <1>15, <1>16
<1> HIDE DEF had, had2
<1>19. Gathered(bs, K, Append(ms, h), ts, t2)
  BY <1>8, <1>9, <1>10, <1>11, <1>12, <1>13, <1>14, <1>17, <1>18 DEF Gathered, had2, T, n
<1> QED  BY <1>6, <1>19 DEF h, l, r, t

\* All that an entity which was gathered refers to is had, or comes before it when the
\* lists are reversed.
LEMMA GatheredOrder ==
  ASSUME BalancedTrees, NEW bs, NEW at, Descent(bs, at),
         NEW K \in SUBSET Entity, Closed(K), at \in K,
         NEW ms \in Seq(Merkle), NEW ts \in Seq(Tx), Gathered(bs, K, ms, ts, <<>>)
  PROVE  /\ \A i \in DOMAIN ts : \A u \in Refs(ts[i]) :
              u \in K \/ \E j \in DOMAIN ts : i < j /\ u = ts[j]
         /\ \A i \in DOMAIN ms : \A u \in Refs(ms[i]) :
              u \in K \cup ToSet(ts) \/ \E j \in DOMAIN ms : i < j /\ u = ms[j]
         /\ \A i \in DOMAIN bs : \A u \in Refs(bs[i]) :
              u \in K \cup ToSet(ms) \/ \E j \in DOMAIN bs : i < j /\ u = bs[j]
<1> DEFINE H == K \cup ToSet(ms) \cup ToSet(ts)
           root(i) == BlockOf[bs[i]].merkleRoot
<1>1. /\ \A i \in DOMAIN bs : root(i) \in H
      /\ \A m \in ToSet(ms) : Refs(m) \subseteq H
      /\ ToSet(ms) \cup ToSet(ts) \subseteq Parts(bs) /\ InTurn(bs, ms) /\ InTurn(bs, ts)
  <2>1. ToSet(<<>>) = {}  BY DEF ToSet
  <2> QED  BY <2>1 DEF Gathered
<1>2. /\ \A i \in DOMAIN ts : i \in Nat /\ ts[i] \in Tx /\ ts[i] \in ToSet(ts)
      /\ \A i \in DOMAIN ms : i \in Nat /\ ms[i] \in Merkle /\ ms[i] \in ToSet(ms)
      /\ \A u \in ToSet(ts) : u \in Tx /\ \E j \in DOMAIN ts : u = ts[j]
      /\ \A u \in ToSet(ms) : u \in Merkle /\ \E j \in DOMAIN ms : u = ms[j]
  BY SeqElements DEF ToSet
<1>3. \A m \in H \cap Merkle : Refs(m) \subseteq H
  <2> SUFFICES ASSUME NEW m \in H \cap Merkle  PROVE Refs(m) \subseteq H
    OBVIOUS
  <2>1. m \notin ToSet(ts)  BY <1>2, EntitiesAssumption
  <2>2. CASE m \in K  BY <2>2 DEF Closed
  <2>3. CASE m \in ToSet(ms)  BY <1>1, <2>3
  <2> QED  BY <2>1, <2>2, <2>3
<1>4. Len(bs) \in Nat /\ Len(bs) # 0 /\ DOMAIN bs = 1..Len(bs)
      /\ \A i \in DOMAIN bs : bs[i] \in Block \ {Zero}
  <2>1. bs \in Seq(Block \ {Zero}) /\ bs # <<>>  BY DEF Descent
  <2> QED  BY <2>1, SeqElements
<1>5. \A a \in Block \ {Zero} :
         /\ Refs(a) = {BlockOf[a].prev, BlockOf[a].merkleRoot}
         /\ BlockOf[a].prev \in Block /\ BlockOf[a].merkleRoot \in Merkle
         /\ Leaves(a) = LeafSet(BlockOf[a].merkleRoot) /\ Leaves(a) \subseteq Tx
  <2> SUFFICES ASSUME NEW a \in Block \ {Zero}
               PROVE  /\ Refs(a) = {BlockOf[a].prev, BlockOf[a].merkleRoot}
                      /\ BlockOf[a].prev \in Block /\ BlockOf[a].merkleRoot \in Merkle
                      /\ Leaves(a) = LeafSet(BlockOf[a].merkleRoot) /\ Leaves(a) \subseteq Tx
    OBVIOUS
  <2>1. a \notin Tx /\ a \notin Merkle  BY SyncAssumption
  <2>2. Refs(a) = {BlockOf[a].prev, BlockOf[a].merkleRoot}  BY <2>1 DEF Refs
  <2>3. BlockOf[a].prev \in Block /\ BlockOf[a].merkleRoot \in Merkle  BY BlockFacts
  <2>4. Leaves(a) = LeafSet(BlockOf[a].merkleRoot)  BY DEF Leaves
  <2> QED  BY <2>2, <2>3, <2>4, TreeFacts
\* The trees of what is below the descent are had.
<1>6. ASSUME NEW a \in Ancestors[at] \ {Zero}  PROVE Leaves(a) \subseteq K
  <2> DEFINE S == Block \cap K
  <2>1. at \in Block  BY DEF Descent
  <2>2. ClosedUnderParent(S)
    <3> SUFFICES ASSUME NEW x \in S \ {Zero}  PROVE BlockOf[x].prev \in S
      BY DEF ClosedUnderParent
    <3>1. Refs(x) \subseteq K  BY DEF Closed
    <3> QED  BY <1>5, <3>1
  <2>3. at \in S /\ S \in SUBSET Block  BY <2>1
  <2> HIDE DEF S
  <2>4. Ancestors[at] \subseteq S  BY <2>1, <2>2, <2>3, AncestorsLeast
  <2>5. a \in Block \ {Zero} /\ a \in K  BY <2>4 DEF S
  <2>6. BlockOf[a].merkleRoot \in K \cap (Tx \cup Merkle)  BY <1>5, <2>5 DEF Closed
  <2>7. \A m \in K \cap Merkle : Refs(m) \subseteq K  BY DEF Closed
  <2>8. LeafSet(BlockOf[a].merkleRoot) \subseteq K  BY <2>6, <2>7, LeavesHad
  <2> QED  BY <1>5, <2>5, <2>8
<1>7. ASSUME NEW i \in DOMAIN bs  PROVE Leaves(bs[i]) \subseteq H
  <2>1. bs[i] \in Block \ {Zero} /\ root(i) \in H \cap (Tx \cup Merkle)  BY <1>1, <1>4, <1>5
  <2> HIDE DEF H
  <2>2. LeafSet(root(i)) \subseteq H  BY <1>3, <2>1, LeavesHad
  <2> QED  BY <1>5, <2>1, <2>2
<1>8. ASSUME NEW i \in DOMAIN ts, NEW u \in Refs(ts[i])
      PROVE  u \in K \/ \E j \in DOMAIN ts : i < j /\ u = ts[j]
  <2> DEFINE t == ts[i]
             o == Own(bs, t)
  <2>1. t \in Tx /\ t \in Parts(bs) /\ LeafSet(t) = {t}  BY <1>1, <1>2, TreeFacts
  <2>2. o \in DOMAIN bs /\ LeafSet(t) \subseteq Leaves(bs[o])  BY <2>1, OwnFacts
  <2>3. t \in Leaves(bs[o])  BY <2>1, <2>2
  <2> HIDE DEF o
  <2>4. /\ bs[o] \in Ancestors[bs[1]] \ {Zero}
        /\ \A a \in Ancestors[BlockOf[bs[o]].prev] :
              a \in Ancestors[at] \/ \E j \in DOMAIN bs : o < j /\ a = bs[j]
    BY <2>2, DescentBelow
  <2>5. PICK a \in Ancestors[BlockOf[bs[o]].prev] \ {Zero} :
           u \in Leaves(a) /\ Layers(bs[o]) <= Layers(a)
    <3>1. Orderly(bs[1])  BY DEF Descent
    <3> QED  BY <2>3, <2>4, <3>1 DEF Orderly
  <2>6. CASE a \in Ancestors[at]  BY <1>6, <2>5, <2>6
  <2>7. CASE a \notin Ancestors[at]
    <3>1. PICK j \in DOMAIN bs : o < j /\ a = bs[j]  BY <2>4, <2>5, <2>7
    <3>2. Turn(bs, t) < Turn(bs, u)  BY <2>2, <2>3, <2>5, <3>1, TurnFacts
    <3>3. u \in H /\ u \in Tx  BY <1>4, <1>5, <1>7, <2>5, <3>1
    <3>4. u \notin ToSet(ms)  BY <1>2, <3>3, EntitiesAssumption
    <3>5. ASSUME u \in ToSet(ts)  PROVE \E x \in DOMAIN ts : i < x /\ u = ts[x]
      <4>1. PICK x \in DOMAIN ts : u = ts[x]  BY <1>2, <3>5
      <4>2. Turn(bs, t) \in Int /\ Turn(bs, u) \in Int  BY <1>1, <2>1, <3>5, TurnFacts
      <4>3. x # i /\ ~(Turn(bs, u) <= Turn(bs, t))  BY <3>2, <4>1, <4>2
      <4>4. ~(x < i)  BY <1>1, <4>1, <4>3 DEF InTurn
      <4>5. i < x  BY <1>2, <4>3, <4>4
      <4> QED  BY <4>1, <4>5
    <3> QED  BY <3>3, <3>4, <3>5
  <2> QED  BY <2>6, <2>7
<1>9. ASSUME NEW i \in DOMAIN ms, NEW u \in Refs(ms[i])
      PROVE  u \in K \cup ToSet(ts) \/ \E j \in DOMAIN ms : i < j /\ u = ms[j]
  <2> DEFINE m == ms[i]
  <2>1. m \in Parts(bs) \cap Merkle  BY <1>1, <1>2
  <2>2. u \in H  BY <1>1, <1>2
  <2>3. ASSUME u \in ToSet(ms)  PROVE \E j \in DOMAIN ms : i < j /\ u = ms[j]
    <3>1. PICK j \in DOMAIN ms : u = ms[j]  BY <1>2, <2>3
    <3>2. Turn(bs, u) = Turn(bs, m) + Len(bs) /\ Turn(bs, m) \in Int  BY <2>1, TurnFacts
    <3>3. j # i /\ ~(Turn(bs, u) <= Turn(bs, m))  BY <1>4, <3>1, <3>2
    <3>4. ~(j < i)  BY <1>1, <3>1, <3>3 DEF InTurn
    <3>5. i < j  BY <1>2, <3>3, <3>4
    <3> QED  BY <3>1, <3>5
  <2> QED  BY <2>2, <2>3
<1>10. ASSUME NEW i \in DOMAIN bs, NEW u \in Refs(bs[i])
       PROVE  u \in K \cup ToSet(ms) \/ \E j \in DOMAIN bs : i < j /\ u = bs[j]
  <2>1. bs[i] \in Block \ {Zero}  BY <1>4
  <2>2. u = BlockOf[bs[i]].prev \/ u = root(i)  BY <1>5, <2>1
  <2>3. CASE u = root(i)
    <3>1. u \in H /\ u \in Merkle  BY <1>1, <1>5, <2>1, <2>3
    <3>2. u \notin ToSet(ts)  BY <1>2, <3>1, EntitiesAssumption
    <3> QED  BY <3>1, <3>2
  <2>4. CASE u = BlockOf[bs[i]].prev
    <3>1. CASE i = Len(bs)
      <4>1. u = at  BY <2>4, <3>1 DEF Descent
      <4> QED  BY <4>1
    <3>2. CASE i # Len(bs)
      <4>1. i \in 1..(Len(bs) - 1) /\ i + 1 \in DOMAIN bs /\ i < i + 1  BY <1>4, <3>2
      <4>2. u = bs[i + 1]  BY <2>4, <4>1 DEF Descent
      <4> QED  BY <4>1, <4>2
    <3> QED  BY <3>1, <3>2
  <2> QED  BY <2>2, <2>3, <2>4
<1> QED  BY <1>8, <1>9, <1>10

LEMMA JoinedPlaces ==
  ASSUME NEW S, NEW x \in Seq(S), NEW y \in Seq(S), NEW z, z = x \o y
  PROVE  /\ z \in Seq(S) /\ Len(z) = Len(x) + Len(y)
         /\ Len(x) \in Nat /\ Len(y) \in Nat
         /\ \A i \in 1..Len(x) : z[i] = x[i]
         /\ \A j \in 1..Len(y) : z[Len(x) + j] = y[j]
<1> DEFINE a == Len(x)
           b == Len(y)
<1>1. /\ a \in Nat /\ b \in Nat /\ z \in Seq(S) /\ Len(z) = a + b
      /\ \A i \in 1..(a + b) : z[i] = IF i <= a THEN x[i] ELSE y[i - a]
  BY ConcatProperties
<1> HIDE DEF a, b
<1>2. \A i \in 1..a : z[i] = x[i]  BY <1>1
<1>3. ASSUME NEW j \in 1..b  PROVE z[a + j] = y[j]
  <2>1. a + j \in 1..(a + b) /\ ~(a + j <= a) /\ (a + j) - a = j  BY <1>1
  <2> QED  BY <1>1, <2>1
<1> QED  BY <1>1, <1>2, <1>3 DEF a, b

\* Where the elements of three lists are when they follow each other reversed.
Places(ids, ts, ms, bs) ==
    LET a == Len(ts)
        b == Len(ms)
        c == Len(bs)
    IN
    /\ a \in Nat /\ b \in Nat /\ c \in Nat /\ DOMAIN ids = 1..((a + b) + c)
    /\ \A i \in 1..a : ids[(a - i) + 1] = ts[i]
    /\ \A i \in 1..b : ids[a + ((b - i) + 1)] = ms[i]
    /\ \A i \in 1..c : ids[(a + b) + ((c - i) + 1)] = bs[i]

LEMMA ReversedPlaces ==
  ASSUME NEW S, NEW ts \in Seq(S), NEW ms \in Seq(S), NEW bs \in Seq(S),
         NEW ids, ids = Reverse(ts) \o Reverse(ms) \o Reverse(bs)
  PROVE  Places(ids, ts, ms, bs)
<1>1. ASSUME NEW s \in Seq(S)
      PROVE  /\ Reverse(s) \in Seq(S) /\ Len(Reverse(s)) = Len(s) /\ Len(s) \in Nat
             /\ \A i \in 1..Len(s) : (Len(s) - i) + 1 \in 1..Len(s)
                                     /\ Reverse(s)[(Len(s) - i) + 1] = s[i]
  <2> DEFINE n == Len(s)
             z == Reverse(s)
  <2>1. n \in Nat /\ z \in Seq(S) /\ z = [i \in 1..n |-> s[(n - i) + 1]]
    BY ReverseTyped DEF Reverse
  <2> HIDE DEF n, z
  <2>2. DOMAIN z = 1..n /\ Len(z) = n
    <3>1. DOMAIN z = 1..n  BY <2>1
    <3> QED  BY <2>1, <3>1, LenProperties
  <2>3. ASSUME NEW i \in 1..n
        PROVE  (n - i) + 1 \in 1..n /\ z[(n - i) + 1] = s[i]
    <3>1. (n - i) + 1 \in 1..n /\ (n - ((n - i) + 1)) + 1 = i  BY <2>1
    <3> QED  BY <2>1, <3>1
  <2> QED  BY <2>1, <2>2, <2>3 DEF n, z
<1> DEFINE a == Len(ts)
           b == Len(ms)
           c == Len(bs)
           x == Reverse(ts)
           y == Reverse(ms)
           z == Reverse(bs)
           xy == x \o y
<1>2. /\ x \in Seq(S) /\ y \in Seq(S) /\ z \in Seq(S)
      /\ Len(x) = a /\ Len(y) = b /\ Len(z) = c /\ a \in Nat /\ b \in Nat /\ c \in Nat
      /\ \A i \in 1..a : (a - i) + 1 \in 1..a /\ x[(a - i) + 1] = ts[i]
      /\ \A i \in 1..b : (b - i) + 1 \in 1..b /\ y[(b - i) + 1] = ms[i]
      /\ \A i \in 1..c : (c - i) + 1 \in 1..c /\ z[(c - i) + 1] = bs[i]
  BY <1>1
<1> HIDE DEF a, b, c, x, y, z
<1>3. /\ xy \in Seq(S) /\ Len(xy) = a + b
      /\ \A i \in 1..a : xy[i] = x[i]
      /\ \A j \in 1..b : xy[a + j] = y[j]
  <2>1. xy = x \o y  OBVIOUS
  <2> HIDE DEF xy
  <2>2. x \in Seq(S) /\ y \in Seq(S)  BY <1>2
  <2>3. /\ xy \in Seq(S) /\ Len(xy) = Len(x) + Len(y)
        /\ \A i \in 1..Len(x) : xy[i] = x[i]
        /\ \A j \in 1..Len(y) : xy[Len(x) + j] = y[j]
    BY ONLY <2>1, <2>2, JoinedPlaces
  <2> QED  BY <1>2, <2>3
<1>4. ids = xy \o z  BY DEF xy, x, y, z
<1> HIDE DEF xy
<1>5. /\ DOMAIN ids = 1..((a + b) + c)
      /\ \A i \in 1..(a + b) : ids[i] = xy[i]
      /\ \A j \in 1..c : ids[(a + b) + j] = z[j]
  <2>1. /\ ids \in Seq(S) /\ Len(ids) = Len(xy) + Len(z)
        /\ \A i \in 1..Len(xy) : ids[i] = xy[i]
        /\ \A j \in 1..Len(z) : ids[Len(xy) + j] = z[j]
    <3>1. xy \in Seq(S) /\ z \in Seq(S)  BY <1>2, <1>3
    <3> QED  BY ONLY <1>4, <3>1, JoinedPlaces
  <2>2. /\ Len(ids) = (a + b) + c
        /\ \A i \in 1..(a + b) : ids[i] = xy[i]
        /\ \A j \in 1..c : ids[(a + b) + j] = z[j]
    BY <1>2, <1>3, <2>1
  <2>3. DOMAIN ids = 1..Len(ids)  BY <2>1
  <2> QED  BY <2>2, <2>3
<1>6. \A i \in 1..a : ids[(a - i) + 1] = ts[i]
  <2> SUFFICES ASSUME NEW i \in 1..a  PROVE ids[(a - i) + 1] = ts[i]
    OBVIOUS
  <2>1. (a - i) + 1 \in 1..a /\ x[(a - i) + 1] = ts[i]  BY <1>2
  <2>2. (a - i) + 1 \in 1..(a + b)  BY <1>2, <2>1
  <2> QED  BY <1>3, <1>5, <2>1, <2>2
<1>7. \A i \in 1..b : ids[a + ((b - i) + 1)] = ms[i]
  <2> SUFFICES ASSUME NEW i \in 1..b  PROVE ids[a + ((b - i) + 1)] = ms[i]
    OBVIOUS
  <2>1. (b - i) + 1 \in 1..b /\ y[(b - i) + 1] = ms[i]  BY <1>2
  <2>2. a + ((b - i) + 1) \in 1..(a + b)  BY <1>2, <2>1
  <2>3. xy[a + ((b - i) + 1)] = y[(b - i) + 1]
    <3> DEFINE j == (b - i) + 1
    <3>1. j \in 1..b  BY <2>1
    <3> HIDE DEF j
    <3>2. xy[a + j] = y[j]  BY <1>3, <3>1
    <3> QED  BY <3>2 DEF j
  <2> QED  BY <1>5, <2>1, <2>2, <2>3
<1>8. \A i \in 1..c : ids[(a + b) + ((c - i) + 1)] = bs[i]
  <2> SUFFICES ASSUME NEW i \in 1..c  PROVE ids[(a + b) + ((c - i) + 1)] = bs[i]
    OBVIOUS
  <2> DEFINE j == (c - i) + 1
  <2>1. j \in 1..c /\ z[j] = bs[i]  BY <1>2
  <2> HIDE DEF j
  <2>2. ids[(a + b) + j] = z[j]  BY <1>5, <2>1
  <2> QED  BY <2>1, <2>2 DEF j
<1> QED  BY <1>2, <1>5, <1>6, <1>7, <1>8 DEF a, b, c, Places

\* What is handed over can be stored, entity by entity.
LEMMA GatheredStorable ==
  ASSUME BalancedTrees, NEW bs, NEW at, Descent(bs, at),
         NEW K \in SUBSET Entity, Closed(K), at \in K,
         NEW ms \in Seq(Merkle), NEW ts \in Seq(Tx), Gathered(bs, K, ms, ts, <<>>),
         NEW ids, ids = Reverse(ts) \o Reverse(ms) \o Reverse(bs)
  PROVE  \A k \in DOMAIN ids : Refs(ids[k]) \subseteq K \cup Before(ids, k)
<1> DEFINE a == Len(ts)
           b == Len(ms)
           c == Len(bs)
<1>1. /\ a \in Nat /\ b \in Nat /\ c \in Nat /\ DOMAIN ids = 1..((a + b) + c)
      /\ \A i \in 1..a : ids[(a - i) + 1] = ts[i]
      /\ \A i \in 1..b : ids[a + ((b - i) + 1)] = ms[i]
      /\ \A i \in 1..c : ids[(a + b) + ((c - i) + 1)] = bs[i]
  <2>1. bs \in Seq(Block \ {Zero})  BY DEF Descent
  <2>2. ts \in Seq(Entity) /\ ms \in Seq(Entity) /\ bs \in Seq(Entity)
    BY <2>1 DEF Entity
  <2>3. ids = Reverse(ts) \o Reverse(ms) \o Reverse(bs)  OBVIOUS
  <2>4. Places(ids, ts, ms, bs)  BY <2>2, <2>3, ReversedPlaces
  <2> QED  BY <2>4 DEF Places
<1> HIDE DEF a, b, c
<1> SUFFICES ASSUME NEW k \in DOMAIN ids  PROVE Refs(ids[k]) \subseteq K \cup Before(ids, k)
  OBVIOUS
<1>2. DOMAIN ts = 1..a /\ DOMAIN ms = 1..b /\ DOMAIN bs = 1..c
  <2>1. bs \in Seq(Block \ {Zero})  BY DEF Descent
  <2> QED  BY <2>1, SeqElements DEF a, b, c
<1>3. /\ \A i \in DOMAIN ts : \A u \in Refs(ts[i]) :
            u \in K \/ \E j \in DOMAIN ts : i < j /\ u = ts[j]
      /\ \A i \in DOMAIN ms : \A u \in Refs(ms[i]) :
            u \in K \cup ToSet(ts) \/ \E j \in DOMAIN ms : i < j /\ u = ms[j]
      /\ \A i \in DOMAIN bs : \A u \in Refs(bs[i]) :
            u \in K \cup ToSet(ms) \/ \E j \in DOMAIN bs : i < j /\ u = bs[j]
  BY GatheredOrder
<1>4. \A j \in 1..(k - 1) : ids[j] \in Before(ids, k)  BY DEF Before
<1>5. \A u \in ToSet(ts) : \E j \in 1..a : u = ids[(a - j) + 1]  BY <1>1, <1>2 DEF ToSet
<1>6. \A u \in ToSet(ms) : \E j \in 1..b : u = ids[a + ((b - j) + 1)]
  BY <1>1, <1>2 DEF ToSet
<1>7. CASE k \in 1..a
  <2> DEFINE i == (a - k) + 1
  <2>1. i \in 1..a /\ (a - i) + 1 = k  BY <1>1, <1>7
  <2>2. ids[k] = ts[i]  BY <1>1, <2>1
  <2> SUFFICES ASSUME NEW u \in Refs(ts[i]), u \notin K  PROVE u \in Before(ids, k)
    BY <2>2
  <2> HIDE DEF i
  <2>3. i \in DOMAIN ts  BY <1>2, <2>1
  <2>4. u \in K \/ \E j \in DOMAIN ts : i < j /\ u = ts[j]  BY <1>3, <2>3
  <2>5. PICK j \in DOMAIN ts : i < j /\ u = ts[j]  BY <2>4
  <2>6. j \in 1..a /\ i < j  BY <1>2, <2>5
  <2>7. (a - j) + 1 \in 1..(k - 1)
    <3>1. a \in Nat  BY <1>1
    <3> QED  BY <2>1, <2>6, <3>1
  <2>8. u = ids[(a - j) + 1]  BY <1>1, <2>5, <2>6
  <2> QED  BY <1>4, <2>7, <2>8
<1>8. CASE k \in (a + 1)..(a + b)
  <2> DEFINE i == ((a + b) - k) + 1
  <2>1. i \in 1..b /\ a + ((b - i) + 1) = k  BY <1>1, <1>8
  <2>2. ids[k] = ms[i]  BY <1>1, <2>1
  <2> SUFFICES ASSUME NEW u \in Refs(ms[i]), u \notin K  PROVE u \in Before(ids, k)
    BY <2>2
  <2> HIDE DEF i
  <2>3. i \in DOMAIN ms  BY <1>2, <2>1
  <2>4. u \in ToSet(ts) \/ \E j \in DOMAIN ms : i < j /\ u = ms[j]
    BY <1>3, <2>3
  <2>5. CASE u \in ToSet(ts)
    <3>1. PICK j \in 1..a : u = ids[(a - j) + 1]  BY <1>5, <2>5
    <3>2. (a - j) + 1 \in 1..(k - 1)  BY <1>1, <1>8
    <3> QED  BY <1>4, <3>1, <3>2
  <2>6. CASE \E j \in DOMAIN ms : i < j /\ u = ms[j]
    <3>1. PICK j \in DOMAIN ms : i < j /\ u = ms[j]  BY <2>6
    <3>2. j \in 1..b /\ i < j  BY <1>2, <3>1
    <3>3. a + ((b - j) + 1) \in 1..(k - 1)  BY <1>1, <2>1, <3>2
    <3>4. u = ids[a + ((b - j) + 1)]  BY <1>1, <3>1, <3>2
    <3> QED  BY <1>4, <3>3, <3>4
  <2> QED  BY <2>4, <2>5, <2>6
<1>9. CASE k \in ((a + b) + 1)..((a + b) + c)
  <2> DEFINE d == a + b
             i == ((d + c) - k) + 1
  <2>1. d \in Nat /\ k \in (d + 1)..(d + c)  BY <1>1, <1>9
  <2> HIDE DEF d
  <2>2. i \in 1..c /\ d + ((c - i) + 1) = k  BY <1>1, <2>1
  <2> USE DEF d
  <2>3. ids[k] = bs[i]  BY <1>1, <2>2
  <2> SUFFICES ASSUME NEW u \in Refs(bs[i]), u \notin K  PROVE u \in Before(ids, k)
    BY <2>3
  <2> HIDE DEF i
  <2>4. i \in DOMAIN bs  BY <1>2, <2>2
  <2>5. u \in ToSet(ms) \/ \E j \in DOMAIN bs : i < j /\ u = bs[j]
    BY <1>3, <2>4
  <2>6. CASE u \in ToSet(ms)
    <3>1. PICK j \in 1..b : u = ids[a + ((b - j) + 1)]  BY <1>6, <2>6
    <3>2. a + ((b - j) + 1) \in 1..(k - 1)  BY <1>1, <1>9
    <3> QED  BY <1>4, <3>1, <3>2
  <2>7. CASE \E j \in DOMAIN bs : i < j /\ u = bs[j]
    <3>1. PICK j \in DOMAIN bs : i < j /\ u = bs[j]  BY <2>7
    <3>2. j \in 1..c /\ i < j  BY <1>2, <3>1
    <3>3. (a + b) + ((c - j) + 1) \in 1..(k - 1)  BY <1>1, <2>2, <3>2
    <3>4. u = ids[(a + b) + ((c - j) + 1)]  BY <1>1, <3>1, <3>2
    <3> QED  BY <1>4, <3>3, <3>4
  <2> QED  BY <2>5, <2>6, <2>7
<1>10. k \in 1..a \/ k \in (a + 1)..(a + b) \/ k \in ((a + b) + 1)..((a + b) + c)
  BY <1>1
<1> QED  BY <1>7, <1>8, <1>9, <1>10

-----------------------------------------------------------------------------
(* Every step of a receiver *)

LEMMA GathersKept ==
  ASSUME NEW place, NEW l, NEW K, NEW h, Gathers(place, l, K, h),
         NEW K2, K \subseteq K2, NEW h2, place # "idle" => h2 = h
  PROVE  Gathers(place, l, K2, h2)
BY GatherKnown DEF Gathers

\* Where nothing is gathered nothing has been.
LEMMA GathersNone ==
  ASSUME NEW place, NEW l, l.newMerkles = <<>>, l.newTxs = <<>>, NEW K, NEW h,
         place \notin {"sendWalk", "verdict", "recvBlocks", "request", "recvEntity"}
  PROVE  Gathers(place, l, K, h)
BY DEF Gathers

LEMMA GoesGathers ==
  ASSUME IInv, GatherInv, NEW p \in Peer, NEW place, NEW l, GoTo(p, place, l),
         UNCHANGED <<known, curHead>>, Gathers(place, l, known[p], curHead[p])
  PROVE  GatherInv'
<1> SUFFICES ASSUME NEW x \in Peer  PROVE Gathers(pc'[x], loc'[x], known[x], curHead[x])
  BY DEF GatherInv
<1>1. DOMAIN pc = Peer /\ DOMAIN loc = Peer  BY DEF IInv, TypeOK
<1>2. CASE x = p
  <2>1. pc'[x] = place /\ loc'[x] = l  BY <1>1, <1>2 DEF GoTo
  <2> QED  BY <1>2, <2>1
<1>3. CASE x # p
  <2>1. pc'[x] = pc[x] /\ loc'[x] = loc[x]  BY <1>1, <1>3 DEF GoTo
  <2> QED  BY <2>1 DEF GatherInv
<1> QED  BY <1>2, <1>3

LEMMA ReadGathers ==
  ASSUME BalancedTrees, IInv, GatherInv, \A x \in Peer : Orderly(curHead[x]),
         NEW p \in Peer, Read(p)
  PROVE  GatherInv'
<1> DEFINE q == Other(p)
           m == Head(inbox[p])
           l == loc[p]
<1>1. q \in Peer /\ Other(q) = p  BY OtherFacts
<1>2. inbox[p] # <<>> /\ UNCHANGED <<known, curHead>>  BY ReadFacts DEF nodeVars
<1>3. Gathers(pc[p], l, known[p], curHead[p])  BY DEF GatherInv
<1>4. /\ l \in Locals /\ l.needed \in Seq(Block \ {Zero}) /\ l.lcaId \in Block
      /\ l.idQueue \in Seq(Tx \cup Merkle) /\ l.asked \in Tx \cup Merkle \cup {Zero}
      /\ l.newMerkles \in Seq(Merkle) /\ l.newTxs \in Seq(Tx)
  BY EndTyped DEF Locals
<1>5. /\ NoLocals.newMerkles = <<>> /\ NoLocals.newTxs = <<>>
      /\ \A K, h : Gathers("idle", NoLocals, K, h)
  <2>1. NoLocals.newMerkles = <<>> /\ NoLocals.newTxs = <<>>  BY DEF NoLocals
  <2> QED  BY <2>1, GathersNone
<1>6. Fits(p, m)  BY <1>2, ReadsFit DEF NoMisread, Read
<1>7. CASE GoTo(p, "idle", NoLocals)  BY <1>2, <1>5, <1>7, GoesGathers
<1>8. CASE pc[p] \in {"hello", "offered", "cancelled", "serve", "complete", "recvRole"}
  <2>1. l.newMerkles = <<>> /\ l.newTxs = <<>>  BY <1>3, <1>8 DEF Gathers
  <2>2. CASE pc[p] = "hello"
    <3> DEFINE l1 == [l EXCEPT !.theirWork = m.work]
    <3>1. GoTo(p, "cancelled", l) \/ GoTo(p, "offered", l1)
      BY <1>6, <2>2, ReadFacts DEF ReadHello, Continue
    <3>2. l1.newMerkles = <<>> /\ l1.newTxs = <<>>  BY <1>4, <2>1 DEF Locals
    <3> HIDE DEF l1
    <3>3. /\ Gathers("cancelled", l, known[p], curHead[p])
          /\ Gathers("offered", l1, known[p], curHead[p])
      BY <2>1, <3>2, GathersNone
    <3> QED  BY <1>2, <3>1, <3>3, GoesGathers
  <2>3. CASE pc[p] = "offered"
    <3>1. \/ GoTo(p, "idle", NoLocals)
          \/ GoTo(p, "sendRole", l) \/ GoTo(p, "recvRole", l)
      BY <1>6, <2>3, ReadFacts DEF ReadAnswer, Continue, Return
    <3>2. /\ Gathers("sendRole", l, known[p], curHead[p])
          /\ Gathers("recvRole", l, known[p], curHead[p])
      BY <2>1, GathersNone
    <3> QED  BY <1>2, <1>7, <3>1, <3>2, GoesGathers
  <2>4. CASE pc[p] \in {"cancelled", "complete"}
    <3>1. GoTo(p, "idle", NoLocals)
      BY <1>6, <2>4, ReadFacts DEF ReadAnswerCancelled, ReadComplete, Return
    <3> QED  BY <1>7, <3>1
  <2>5. CASE pc[p] = "serve"
    <3>1. \/ GoTo(p, "idle", NoLocals)
          \/ GoTo(p, "complete", l) \/ GoTo(p, "serve", l)
      BY <1>6, <2>5, ReadFacts DEF ReadRequest, Stay, Continue, Fail
    <3>2. /\ Gathers("complete", l, known[p], curHead[p])
          /\ Gathers("serve", l, known[p], curHead[p])
      BY <2>1, GathersNone
    <3> QED  BY <1>2, <1>7, <3>1, <3>2, GoesGathers
  <2>6. CASE pc[p] = "recvRole"
    <3>1. GoTo(p, "recvWalk", l)
      BY <1>6, <2>6, ReadFacts DEF ReadRoleToReceive, Continue
    <3>2. Gathers("recvWalk", l, known[p], curHead[p])  BY <2>1, GathersNone
    <3> QED  BY <1>2, <3>1, <3>2, GoesGathers
  <2> QED  BY <1>8, <2>2, <2>3, <2>4, <2>5, <2>6
<1>9. CASE pc[p] = "sendRole"
  <2> DEFINE h == curHead[p]
             l1 == [l EXCEPT !.lcaId = h]
  <2>1. l.newMerkles = <<>> /\ l.newTxs = <<>>  BY <1>3, <1>9 DEF Gathers
  <2>2. l.needed = <<>>  BY <1>9, StageOf DEF IInv, Deciding, Fresh
  <2>3. GoTo(p, "sendWalk", l1)  BY <1>6, <1>9, ReadFacts DEF ReadRoleToSend, Continue
  <2>4. /\ l1.newMerkles = <<>> /\ l1.newTxs = <<>> /\ l1.needed = <<>> /\ l1.lcaId = h
    BY <1>4, <2>1, <2>2 DEF Locals
  <2> HIDE DEF l1
  <2>5. Gathers("sendWalk", l1, known[p], h)  BY <2>4 DEF Gathers
  <2> QED  BY <1>2, <2>3, <2>5, GoesGathers
<1>10. CASE pc[p] = "sendWalk"
  <2> DEFINE at == l.lcaId
             new == Append(l.needed, at)
             l1 == [l EXCEPT !.lcaId = BlockOf[at].prev, !.needed = new]
  <2>1. /\ l.newMerkles = <<>> /\ l.newTxs = <<>>
        /\ curHead[p] = IF l.needed = <<>> THEN at ELSE l.needed[1]
    BY <1>3, <1>10 DEF Gathers
  <2>2. \/ GoTo(p, "idle", NoLocals)
        \/ GoTo(p, "sendWalk", l1) \/ GoTo(p, "verdict", l)
    BY <1>6, <1>10, ReadFacts DEF ReadWalkReply, Stay, Continue, Fail
  <2>3. new # <<>> /\ new[1] = IF l.needed = <<>> THEN at ELSE l.needed[1]
    <3> DEFINE s == l.needed
               n == Len(s)
    <3>1. s \in Seq(Block) /\ n \in Nat /\ (s = <<>> <=> n = 0)  BY <1>4
    <3>2. /\ new \in Seq(Block) /\ Len(new) = n + 1 /\ new[n + 1] = at
          /\ \A i \in 1..n : new[i] = s[i]
      BY <1>4, <3>1, AppendProperties
    <3> HIDE DEF s, n, new
    <3>3. Len(new) # 0  BY <3>1, <3>2
    <3>4. new # <<>>  BY <3>3
    <3>5. n # 0 => 1 \in 1..n  BY <3>1
    <3> QED  BY <3>1, <3>2, <3>4, <3>5 DEF s
  <2> HIDE DEF new
  <2>4. l1.newMerkles = <<>> /\ l1.newTxs = <<>> /\ l1.needed = new
    BY <1>4, <2>1 DEF Locals
  <2> HIDE DEF l1
  <2>5. Gathers("sendWalk", l1, known[p], curHead[p])  BY <2>1, <2>3, <2>4 DEF Gathers
  <2>6. Gathers("verdict", l, known[p], curHead[p])  BY <2>1 DEF Gathers
  <2> QED  BY <1>2, <1>7, <2>2, <2>5, <2>6, GoesGathers
<1>11. CASE pc[p] = "verdict"
  <2>1. l.newMerkles = <<>> /\ l.newTxs = <<>>  BY <1>3, <1>11 DEF Gathers
  <2>2. GoTo(p, "idle", NoLocals) \/ GoTo(p, "serve", l)
    BY <1>6, <1>11, ReadFacts DEF ReadVerdict, Continue, Fail
  <2>3. Gathers("serve", l, known[p], curHead[p])  BY <2>1, GathersNone
  <2> QED  BY <1>2, <1>7, <2>2, <2>3, GoesGathers
<1>12. CASE pc[p] = "recvWalk"
  <2> DEFINE l1 == [l EXCEPT !.needed = Append(@, m.id)]
             l2 == [l EXCEPT !.lcaId = m.id]
  <2>1. l.newMerkles = <<>> /\ l.newTxs = <<>>  BY <1>3, <1>12 DEF Gathers
  <2>2. \/ GoTo(p, "idle", NoLocals)
        \/ GoTo(p, "recvWalk", l1)
        \/ GoTo(p, "recvBlocks", l2) /\ m.id \in known[p]
    BY <1>6, <1>12, ReadFacts DEF ReadWalkId, Stay, Continue, Fail
  <2>3. /\ l1.newMerkles = <<>> /\ l1.newTxs = <<>>
        /\ l2.newMerkles = <<>> /\ l2.newTxs = <<>> /\ l2.lcaId = m.id
    BY <1>4, <2>1 DEF Locals
  <2> HIDE DEF l1, l2, m
  <2>4. Gathers("recvWalk", l1, known[p], curHead[p])  BY <2>3, GathersNone
  <2>5. m.id \in known[p] => Gathers("recvBlocks", l2, known[p], curHead[p])
    BY <2>3 DEF Gathers
  <2> QED  BY <1>2, <1>7, <2>2, <2>4, <2>5, GoesGathers
<1>13. CASE pc[p] = "recvBlocks"
  <2> DEFINE bs == l.needed
             at == l.lcaId
             roots == [i \in DOMAIN bs |-> BlockOf[bs[i]].merkleRoot]
             l1 == [l EXCEPT !.got = l.got + 1]
             l2 == [l EXCEPT !.got = l.got + 1, !.idQueue = roots]
  <2>1. l.newMerkles = <<>> /\ l.newTxs = <<>> /\ at \in known[p]
    BY <1>3, <1>13 DEF Gathers
  <2>2. \/ GoTo(p, "recvBlocks", l1)
        \/ GoTo(p, "request", l2) /\ QuickVerifyChain(p)
        \/ GoTo(p, "panicked", l)
    BY <1>6, <1>13, ReadFacts DEF ReadBlock, Stay, Continue
  <2>3. /\ l1.newMerkles = <<>> /\ l1.newTxs = <<>> /\ l1.lcaId = at
        /\ l2.newMerkles = <<>> /\ l2.newTxs = <<>> /\ l2.lcaId = at /\ l2.needed = bs
        /\ l2.idQueue = roots
    BY <1>4, <2>1 DEF Locals
  <2>4. Gathers("recvBlocks", l1, known[p], curHead[p])  BY <2>1, <2>3 DEF Gathers
  <2>5. Gathers("panicked", l, known[p], curHead[p])  BY <2>1, GathersNone
  <2>6. ASSUME QuickVerifyChain(p)  PROVE Gathers("request", l2, known[p], curHead[p])
    <3>1. SendingBlocks(q)
      <4>1. ~Walking(q)  BY <1>1, <1>2, <1>13 DEF Walking
      <4> QED  BY <1>13, <4>1, StageOf DEF IInv
    <3>2. pc[q] = "verdict" /\ bs = loc[q].needed /\ l.got < Len(bs)
      BY <1>1, <3>1 DEF SendingBlocks, SameNeeded
    <3>3. bs # <<>>
      <4>1. Len(bs) # 0  BY <3>2, EndTyped
      <4> QED  BY <4>1
    <3>4. bs[1] = curHead[q]
      <4>1. Gathers("verdict", loc[q], known[q], curHead[q])  BY <1>1, <3>2 DEF GatherInv
      <4> QED  BY <3>2, <3>3, <4>1 DEF Gathers
    <3>5. Descent(bs, at)
      <4>1. /\ \A i \in 1..(Len(bs) - 1) : BlockOf[bs[i]].prev = bs[i + 1]
            /\ BlockOf[bs[Len(bs)]].prev = at
        BY <2>6 DEF QuickVerifyChain
      <4>2. Orderly(bs[1])  BY <1>1, <3>4
      <4> QED  BY <1>4, <3>3, <4>1, <4>2 DEF Descent
    <3> HIDE DEF bs, at
    <3>6. Gathered(bs, known[p], <<>>, <<>>, roots)  BY <3>5, GatherStart
    <3>7. Awaited("request", l2) = roots  BY <2>3 DEF Awaited
    <3> HIDE DEF l2, roots
    <3> QED  BY <2>1, <2>3, <3>5, <3>6, <3>7 DEF Gathers
  <2> HIDE DEF l1, l2
  <2> QED  BY <1>2, <2>2, <2>4, <2>5, <2>6, GoesGathers
<1>14. CASE pc[p] = "recvEntity"
  <2> DEFINE bs == l.needed
             id == l.asked
             w == <<id>> \o l.idQueue
             pair == <<MerkleOf[id].l, MerkleOf[id].r>>
             l1 == [l EXCEPT !.newTxs = Append(@, id)]
             l2 == [l EXCEPT !.newMerkles = Append(@, id), !.idQueue = @ \o pair]
  <2>1. /\ Descent(bs, l.lcaId) /\ l.lcaId \in known[p]
        /\ Gathered(bs, known[p], l.newMerkles, l.newTxs, w)
    BY <1>3, <1>14 DEF Gathers, Awaited
  <2>2. m.id = id  BY <1>6, <1>14, FitsFacts
  <2>3. \/ GoTo(p, "request", l1) /\ id \in Tx
        \/ GoTo(p, "request", l2) /\ id \notin Tx
    BY <1>6, <1>14, <2>2, ReadFacts DEF ReadEntity, Continue
  <2>4. id \in Tx \cup Merkle
    <3>1. id \in known[q] \ Block  BY <1>1, <1>14, StageOf DEF IInv, SendingEntities
    <3>2. Zero \in Block  BY EntitiesAssumption
    <3> QED  BY <1>4, <3>1, <3>2
  <2>5. /\ l1.newMerkles = l.newMerkles /\ l1.newTxs = Append(l.newTxs, id)
        /\ l1.idQueue = l.idQueue /\ l1.lcaId = l.lcaId /\ l1.needed = bs
        /\ l2.newMerkles = Append(l.newMerkles, id) /\ l2.newTxs = l.newTxs
        /\ l2.idQueue = l.idQueue \o pair /\ l2.lcaId = l.lcaId /\ l2.needed = bs
    BY <1>4 DEF Locals
  <2>6. w \in Seq(Tx \cup Merkle) /\ w # <<>> /\ Head(w) = id /\ Tail(w) = l.idQueue
    <3> DEFINE s == l.idQueue
    <3>1. s \in Seq(Tx \cup Merkle)  BY <1>4
    <3> HIDE DEF s, id
    <3>2. /\ <<id>> \o s \in Seq(Tx \cup Merkle) /\ <<id>> \o s # <<>>
          /\ Head(<<id>> \o s) = id /\ Tail(<<id>> \o s) = s
      BY <2>4, <3>1
    <3> QED  BY <3>2 DEF s
  <2> HIDE DEF bs, id, w, pair, l1, l2
  <2>7. CASE id \in Tx
    <3>1. Gathered(bs, known[p], l.newMerkles, Append(l.newTxs, id), l.idQueue)
      BY <1>4, <2>1, <2>6, <2>7, GatherTx
    <3>2. Gathers("request", l1, known[p], curHead[p])
      BY <2>1, <2>5, <3>1 DEF Gathers, Awaited
    <3> QED  BY <1>2, <2>3, <2>7, <3>2, GoesGathers
  <2>8. CASE id \notin Tx
    <3>1. Gathered(bs, known[p], Append(l.newMerkles, id), l.newTxs, l.idQueue \o pair)
      BY <1>4, <2>1, <2>4, <2>6, <2>8, GatherMerkle DEF pair
    <3>2. Gathers("request", l2, known[p], curHead[p])
      BY <2>1, <2>5, <3>1 DEF Gathers, Awaited
    <3> QED  BY <1>2, <2>3, <2>8, <3>2, GoesGathers
  <2> QED  BY <2>7, <2>8
<1>15. pc[p] \in {"hello", "cancelled", "offered", "sendRole", "sendWalk", "verdict",
                  "serve", "complete", "recvRole", "recvWalk", "recvBlocks", "recvEntity"}
  BY DEF Read, Expects
<1> QED  BY <1>8, <1>9, <1>10, <1>11, <1>12, <1>13, <1>14, <1>15

LEMMA RequestGathers ==
  ASSUME IInv, GatherInv, NEW p \in Peer, RequestNext(p)
  PROVE  GatherInv'
<1> DEFINE l == loc[p]
           w == l.idQueue
           id == Head(w)
           K == known[p]
           l1 == [l EXCEPT !.idQueue = Tail(w)]
           l2 == [l1 EXCEPT !.asked = id]
<1>1. /\ l \in Locals /\ w \in Seq(Tx \cup Merkle)
      /\ l.newMerkles \in Seq(Merkle) /\ l.newTxs \in Seq(Tx)
  BY EndTyped DEF Locals
<1>2. /\ pc[p] = "request" /\ w # <<>> /\ UNCHANGED <<known, curHead>>
      /\ \/ /\ GoTo(p, "request", l1)
            /\ id \in K \cup ToSet(l.newMerkles \o l.newTxs)
         \/ GoTo(p, "recvEntity", l2)
  BY DEF RequestNext, Stay, Continue, nodeVars
<1>3. /\ Descent(l.needed, l.lcaId) /\ l.lcaId \in K
      /\ Gathered(l.needed, K, l.newMerkles, l.newTxs, w)
  BY <1>2 DEF GatherInv, Gathers, Awaited
<1>4. id \in Tx \cup Merkle /\ Tail(w) \in Seq(Tx \cup Merkle)  BY <1>1, <1>2, QueueRest
<1>5. ToSet(l.newMerkles \o l.newTxs) = ToSet(l.newMerkles) \cup ToSet(l.newTxs)
  <2>1. l.newMerkles \in Seq(Tx \cup Merkle) /\ l.newTxs \in Seq(Tx \cup Merkle)  BY <1>1
  <2> QED  BY <2>1, ConcatRange
<1>6. /\ l1.newMerkles = l.newMerkles /\ l1.newTxs = l.newTxs
      /\ l1.idQueue = Tail(w) /\ l1.lcaId = l.lcaId /\ l1.needed = l.needed
      /\ l2.newMerkles = l.newMerkles /\ l2.newTxs = l.newTxs
      /\ l2.idQueue = Tail(w) /\ l2.lcaId = l.lcaId /\ l2.needed = l.needed /\ l2.asked = id
  BY <1>1 DEF Locals
<1>7. <<id>> \o Tail(w) = w
  <2> DEFINE s == w
  <2>1. s \in Seq(Tx \cup Merkle) /\ s # <<>>  BY <1>1, <1>2
  <2> HIDE DEF s
  <2>2. <<Head(s)>> \o Tail(s) = s  BY <2>1, HeadTailProperties
  <2> QED  BY <2>2 DEF s
<1> HIDE DEF l1, l2, id
<1>8. CASE GoTo(p, "request", l1) /\ id \in K \cup ToSet(l.newMerkles \o l.newTxs)
  <2>1. id \in K \cup ToSet(l.newMerkles) \cup ToSet(l.newTxs)  BY <1>5, <1>8
  <2>2. Gathered(l.needed, K, l.newMerkles, l.newTxs, Tail(w))
    BY <1>1, <1>2, <1>3, <2>1, GatherSkip DEF id
  <2>3. Gathers("request", l1, K, curHead[p])  BY <1>3, <1>6, <2>2 DEF Gathers, Awaited
  <2> QED  BY <1>2, <1>8, <2>3, GoesGathers
<1>9. CASE GoTo(p, "recvEntity", l2)
  <2>1. Awaited("recvEntity", l2) = w  BY <1>6, <1>7 DEF Awaited
  <2>2. Gathers("recvEntity", l2, K, curHead[p])  BY <1>3, <1>6, <2>1 DEF Gathers
  <2> QED  BY <1>2, <1>9, <2>2, GoesGathers
<1> QED  BY <1>2, <1>8, <1>9

LEMMA GatherInit == Init => GatherInv
<1> SUFFICES ASSUME Init, NEW p \in Peer
             PROVE  Gathers(pc[p], loc[p], known[p], curHead[p])
  BY DEF GatherInv
<1>1. pc[p] = "idle" /\ loc[p] = NoLocals  BY DEF Init
<1>2. NoLocals.newMerkles = <<>> /\ NoLocals.newTxs = <<>>  BY DEF NoLocals
<1> QED  BY <1>1, <1>2, GathersNone

LEMMA GatherNext ==
  ASSUME BalancedTrees, IInv, GatherInv, \A p \in Peer : Orderly(curHead[p]), [Next]_vars
  PROVE  GatherInv'
<1>1. ASSUME UNCHANGED <<pc, loc>>,
             \A p \in Peer : known[p] \subseteq known'[p],
             \A p \in Peer : pc[p] # "idle" => curHead'[p] = curHead[p]
      PROVE  GatherInv'
  BY <1>1, GathersKept DEF GatherInv
<1>2. CASE UNCHANGED vars  BY <1>1, <1>2 DEF vars, nodeVars, endVars
<1>3. ASSUME NEW p \in Peer, TakeHead(p)  PROVE GatherInv'
  <2>1. /\ pc[p] = "idle" /\ UNCHANGED <<known, pc, loc>>
        /\ curHead' = [curHead EXCEPT ![p] = Head(validated[p])]
    BY <1>3 DEF TakeHead, nodeVars
  <2>2. curHead \in [Peer -> Block]  BY DEF IInv, TypeOK
  <2>3. \A x \in Peer : pc[x] # "idle" => curHead'[x] = curHead[x]  BY <2>1, <2>2
  <2> QED  BY <1>1, <2>1, <2>3
<1>4. ASSUME EnterHandler  PROVE GatherInv'
  <2> SUFFICES ASSUME NEW p \in Peer  PROVE Gathers(pc'[p], loc'[p], known'[p], curHead'[p])
    BY DEF GatherInv
  <2>1. pc[p] = "idle" /\ pc'[p] = "hello" /\ loc' = loc  BY <1>4 DEF EnterHandler
  <2>2. loc[p].newMerkles = <<>> /\ loc[p].newTxs = <<>>  BY <2>1 DEF GatherInv, Gathers
  <2> QED  BY <2>1, <2>2, GathersNone
<1>5. ASSUME NEW p \in Peer, FinishReceiving(p)  PROVE GatherInv'
  <2>1. GoTo(p, "idle", NoLocals) /\ UNCHANGED <<known, curHead>>
    BY <1>5 DEF FinishReceiving, Return
  <2>2. NoLocals.newMerkles = <<>> /\ NoLocals.newTxs = <<>>  BY DEF NoLocals
  <2>3. Gathers("idle", NoLocals, known[p], curHead[p])  BY <2>2, GathersNone
  <2> QED  BY <2>1, <2>3, GoesGathers
<1>6. ASSUME NEW p \in Peer, EndStep(p)  PROVE GatherInv'
  <2>1. CASE Serve(p)  BY <1>4, <2>1 DEF Serve
  <2>2. CASE Read(p)  BY <2>2, ReadGathers
  <2>3. CASE RequestNext(p)  BY <2>3, RequestGathers
  <2> QED  BY <1>3, <1>5, <1>6, <2>1, <2>2, <2>3 DEF EndStep
<1>7. CASE BothStep  BY <1>4, <1>7 DEF BothStep, ServeAcceptorFirst, ServeInitiatorSecond
<1>8. ASSUME NEW p \in Peer, NodeStep(p)  PROVE GatherInv'
  <2>1. UNCHANGED <<curHead, pc, loc>>  BY <1>8 DEF NodeStep, StoreNext, Adopt, endVars
  <2>2. known \in [Peer -> SUBSET Entity]  BY DEF IInv, TypeOK
  <2>3. known' = known \/ \E id : known' = [known EXCEPT ![p] = @ \cup {id}]
    BY <1>8 DEF NodeStep, StoreNext, Adopt
  <2>4. \A x \in Peer : known[x] \subseteq known'[x]  BY <2>2, <2>3
  <2> QED  BY <1>1, <2>1, <2>4
<1>9. ASSUME NEW p \in Peer, NEW e \in others[p], OtherPublishes(p, e)  PROVE GatherInv'
  <2>1. UNCHANGED <<known, curHead, pc, loc>>  BY <1>9 DEF OtherPublishes, endVars
  <2> QED  BY <1>1, <2>1
<1> QED  BY <1>2, <1>6, <1>7, <1>8, <1>9 DEF Next, Rest

\* What is handed over at the end of a sync, while the invariants hold.
LEMMA FinishStorable ==
  ASSUME BalancedTrees, IInv, GatherInv, NEW p \in Peer, FinishReceiving(p)
  PROVE  LET e == Last(handed'[p])
             ids == Pending(e)
         IN  /\ e.head \in Range(e.blocks)
             /\ \A i \in DOMAIN ids : Refs(ids[i]) \subseteq known[p] \cup Before(ids, i)
<1> DEFINE l == loc[p]
           e == Handover(l)
           bs == l.needed
           ids == Pending(e)
<1>1. /\ pc[p] = "request" /\ l.idQueue = <<>>
      /\ handed' = [handed EXCEPT ![p] = Append(@, e)]
  BY DEF FinishReceiving
<1>2. /\ l \in Locals /\ bs \in Seq(Block \ {Zero}) /\ l.lcaId \in Block
      /\ l.newMerkles \in Seq(Merkle) /\ l.newTxs \in Seq(Tx)
      /\ known[p] \in SUBSET Entity /\ Closed(known[p])
  BY EndTyped DEF Locals
<1>3. /\ Descent(bs, l.lcaId) /\ l.lcaId \in known[p]
      /\ Gathered(bs, known[p], l.newMerkles, l.newTxs, <<>>)
  BY <1>1 DEF GatherInv, Gathers, Awaited
<1>4. /\ e.head = Head(bs) /\ e.blocks = Reverse(bs)
      /\ e.merkles = Reverse(l.newMerkles) /\ e.txs = Reverse(l.newTxs)
  BY DEF Handover
<1>5. e \in Event
  <2>1. bs # <<>>  BY <1>3 DEF Descent
  <2> QED  BY <1>2, <2>1, HandoverTyped
<1> HIDE DEF e
<1>6. Last(handed'[p]) = e
  <2> DEFINE s == handed[p]
             n == Len(s)
  <2>1. handed'[p] = Append(s, e) /\ s \in Seq(Event)  BY <1>1 DEF IInv, TypeOK
  <2> HIDE DEF s
  <2>2. n \in Nat /\ Len(Append(s, e)) = n + 1 /\ Append(s, e)[n + 1] = e
    BY <1>5, <2>1, AppendProperties
  <2> HIDE DEF n
  <2> QED  BY <2>1, <2>2 DEF Last
<1>7. ids = Reverse(l.newTxs) \o Reverse(l.newMerkles) \o Reverse(bs)
  BY <1>4 DEF Pending
<1> HIDE DEF ids, l, bs
<1>8. \A i \in DOMAIN ids : Refs(ids[i]) \subseteq known[p] \cup Before(ids, i)
  BY <1>2, <1>3, <1>7, GatheredStorable
<1>9. e.head \in Range(e.blocks)
  <2> DEFINE n == Len(bs)
             r == Reverse(bs)
  <2>1. bs # <<>>  BY <1>3 DEF Descent
  <2>2. n \in Nat /\ n # 0 /\ Head(bs) = bs[1] /\ r = [i \in 1..n |-> bs[(n - i) + 1]]
    BY <1>2, <2>1 DEF Reverse
  <2> HIDE DEF n, r
  <2>3. n \in DOMAIN r /\ (n - n) + 1 = 1  BY <2>2
  <2>4. r[n] = bs[1]  BY <2>2, <2>3
  <2> QED  BY <1>4, <2>2, <2>3, <2>4 DEF Range, r
<1> QED  BY <1>6, <1>8, <1>9 DEF ids

\* Over balanced trees and orderly chains, everything a sync hands to the chain can be
\* stored in the order in which it is handed over.
THEOREM HandoverIsStorable ==
  Spec /\ BalancedTrees /\ [](\A p \in Peer : Orderly(curHead[p])) => HandoverStorable
<1> DEFINE Heads == \A p \in Peer : Orderly(curHead[p])
           Storables ==
              \A p \in Peer : FinishReceiving(p) =>
                LET e == Last(handed'[p])
                    ids == Pending(e)
                IN  /\ e.head \in Range(e.blocks)
                    /\ \A i \in DOMAIN ids :
                          Refs(ids[i]) \subseteq known[p] \cup Before(ids, i)
<1> SUFFICES ASSUME BalancedTrees  PROVE Spec /\ []Heads => [][Storables]_vars
  BY DEF HandoverStorable
<1>1. Init => GatherInv  BY GatherInit
<1>2. IInv /\ Heads /\ GatherInv /\ [Next]_vars => GatherInv'  BY GatherNext
<1>3. IInv /\ GatherInv /\ [Next]_vars => [Storables]_vars  BY FinishStorable
<1> HIDE DEF Heads, Storables
<1> QED  BY <1>1, <1>2, <1>3, Invariance, PTL DEF Spec

=============================================================================
