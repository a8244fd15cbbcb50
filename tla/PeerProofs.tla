----------------------------- MODULE PeerProofs -----------------------------
(***************************************************************************)
(* The two ends of a connection: for any commands that their topics ask    *)
(* for, what an end publishes is what the other issued, none waits in vain *)
(* and nothing is lost.                                                    *)
(***************************************************************************)
EXTENDS PeerInvariant, SequenceTheorems, TLAPS

USE DEF Deaf

-----------------------------------------------------------------------------
(* Streams of messages *)

Message ==
    [kind : {"string", "addrs", "txId", "wanted", "tx", "hello", "noise", "eof"},
     val : Val \ {<<"cmd", Unknown>>}]

LEMMA HeadTail ==
  ASSUME NEW S, NEW m \in S, NEW t \in Seq(S)
  PROVE  /\ <<m>> \o t \in Seq(S) /\ <<m>> \o t # <<>>
         /\ Head(<<m>> \o t) = m /\ Tail(<<m>> \o t) = t
         /\ <<m>> \in Seq(S) /\ <<m>> # <<>> /\ Head(<<m>>) = m /\ Tail(<<m>>) = <<>>
OBVIOUS

LEMMA Joining ==
  ASSUME NEW S, NEW s \in Seq(S), NEW t \in Seq(S), NEW u \in Seq(S)
  PROVE  /\ s \o t \in Seq(S) /\ <<>> \in Seq(S) /\ <<>> \o s = s /\ s \o <<>> = s
         /\ (s \o t) \o u = s \o (t \o u)
OBVIOUS

LEMMA JoinedElements ==
  ASSUME NEW S, NEW s \in Seq(S), NEW t \in Seq(S)
  PROVE  ToSet(s \o t) = ToSet(s) \cup ToSet(t)
<1>1. /\ DOMAIN s = 1..Len(s) /\ DOMAIN t = 1..Len(t) /\ Len(s) \in Nat /\ Len(t) \in Nat
      /\ DOMAIN (s \o t) = 1..(Len(s) + Len(t))
      /\ \A i \in 1..(Len(s) + Len(t)) :
            (s \o t)[i] = IF i <= Len(s) THEN s[i] ELSE t[i - Len(s)]
  OBVIOUS
<1>2. ASSUME NEW i \in DOMAIN (s \o t)  PROVE (s \o t)[i] \in ToSet(s) \cup ToSet(t)
  <2>1. CASE i <= Len(s)
    <3>1. i \in DOMAIN s /\ (s \o t)[i] = s[i]  BY <1>1, <2>1
    <3> QED  BY <3>1 DEF ToSet
  <2>2. CASE ~(i <= Len(s))
    <3>1. i - Len(s) \in DOMAIN t /\ (s \o t)[i] = t[i - Len(s)]  BY <1>1, <2>2
    <3> QED  BY <3>1 DEF ToSet
  <2> QED  BY <2>1, <2>2
<1>3. ASSUME NEW i \in DOMAIN s  PROVE s[i] \in ToSet(s \o t)
  <2>1. i \in DOMAIN (s \o t) /\ (s \o t)[i] = s[i]  BY <1>1
  <2> QED  BY <2>1 DEF ToSet
<1>4. ASSUME NEW i \in DOMAIN t  PROVE t[i] \in ToSet(s \o t)
  <2>1. i + Len(s) \in DOMAIN (s \o t) /\ (s \o t)[i + Len(s)] = t[i]  BY <1>1
  <2> QED  BY <2>1 DEF ToSet
<1> QED  BY <1>2, <1>3, <1>4 DEF ToSet

LEMMA Elements ==
  ASSUME NEW S, NEW s \in Seq(S), s # <<>>
  PROVE  /\ Head(s) \in S /\ Tail(s) \in Seq(S)
         /\ ToSet(s) = {Head(s)} \cup ToSet(Tail(s))
         /\ s = <<Head(s)>> \o Tail(s)
<1>1. /\ Head(s) \in S /\ Tail(s) \in Seq(S) /\ Head(s) = s[1] /\ Len(s) \in Nat \ {0}
      /\ DOMAIN s = 1..Len(s) /\ DOMAIN Tail(s) = 1..(Len(s) - 1)
      /\ \A i \in 1..(Len(s) - 1) : Tail(s)[i] = s[i + 1]
  OBVIOUS
<1>2. ASSUME NEW i \in DOMAIN s  PROVE s[i] \in {Head(s)} \cup ToSet(Tail(s))
  <2>1. CASE i = 1  BY <1>1, <2>1
  <2>2. CASE i # 1
    <3>1. i - 1 \in DOMAIN Tail(s) /\ Tail(s)[i - 1] = s[i]  BY <1>1, <2>2
    <3> QED  BY <3>1 DEF ToSet
  <2> QED  BY <2>1, <2>2
<1>3. ASSUME NEW i \in DOMAIN Tail(s)  PROVE Tail(s)[i] \in ToSet(s)
  <2>1. i + 1 \in DOMAIN s /\ Tail(s)[i] = s[i + 1]  BY <1>1
  <2> QED  BY <2>1 DEF ToSet
<1>4. Head(s) \in ToSet(s)
  <2>1. 1 \in DOMAIN s  BY <1>1
  <2> QED  BY <1>1, <2>1 DEF ToSet
<1>5. s = <<Head(s)>> \o Tail(s)  OBVIOUS
<1> QED  BY <1>1, <1>2, <1>3, <1>4, <1>5 DEF ToSet

LEMMA ToSetShort ==
  /\ ToSet(<<>>) = {} /\ \A m : ToSet(<<m>>) = {m}
  /\ \A m, n : ToSet(<<m, n>>) = {m, n} /\ <<m, n>> = <<m>> \o <<n>>
<1>1. ToSet(<<>>) = {}  BY DEF ToSet
<1>2. \A m : ToSet(<<m>>) = {m}  BY DEF ToSet
<1>3. ASSUME NEW m, NEW n  PROVE ToSet(<<m, n>>) = {m, n}
  <2>1. DOMAIN <<m, n>> = {1, 2} /\ <<m, n>>[1] = m /\ <<m, n>>[2] = n  OBVIOUS
  <2> QED  BY <2>1 DEF ToSet
<1>4. ASSUME NEW m, NEW n  PROVE <<m, n>> = <<m>> \o <<n>>
  <2> DEFINE S == {m, n}
  <2>1. <<m, n>> \in Seq(S) /\ <<m, n>> # <<>> /\ Head(<<m, n>>) = m /\ Tail(<<m, n>>) = <<n>>
    OBVIOUS
  <2> QED  BY <2>1, Elements
<1> QED  BY <1>1, <1>2, <1>3, <1>4

-----------------------------------------------------------------------------
(* Messages, and reads of them *)

LEMMA Peers ==
  /\ Initiator # Acceptor /\ Peer = {Initiator, Acceptor}
  /\ Other(Initiator) = Acceptor /\ Other(Acceptor) = Initiator
  /\ \A p \in Peer : Other(p) \in Peer /\ Other(p) # p /\ Other(Other(p)) = p
BY PeerAssumption DEF Peer, Other

LEMMA Commands ==
  /\ Command = {"sync-chain", "addrs-request", "peer-addrs", "announce-addr", "new-tx"}
  /\ None \notin Command /\ "close" \notin Command
  /\ Unknown \notin Command /\ Unknown # None /\ Unknown # "close"
BY DEF Command, None, Unknown

\* What an acceptor may owe: a command, or what it took for one.
Owable == Command \cup {Unknown}

LEMMA MessageFacts ==
  /\ Noise \in Message /\ Noise.kind = "noise" /\ Noise.val = Garbage
  /\ Eof \in Message /\ Eof.kind = "eof" /\ Eof.val = Garbage
  /\ Garbage \in Val /\ Garbage = <<"garbage", None>>
  /\ \A c \in Command \cup {"close"} :
        /\ Cmd(c) \in Message /\ Cmd(c).kind = "string" /\ Cmd(c).val = <<"cmd", c>>
  /\ Ack(Unknown) \in Message /\ Ack(Unknown).val = <<"ack", Unknown>>
  /\ \A c \in Command :
        /\ Ack(c) \in Message /\ Ack(c).kind = "string" /\ Ack(c).val = <<"ack", c>>
  /\ \A p \in Peer :
        /\ String("addr", p) \in Message /\ String("addr", p).kind = "string"
        /\ String("addr", p).val = <<"addr", p>>
        /\ \A x \in {"addrs", "txId", "tx", "hello"} :
              /\ Raw(x, p) \in Message /\ Raw(x, p).kind = x /\ Raw(x, p).val = <<x, p>>
  /\ \A y \in {"yes", "no"} :
        /\ Raw("wanted", y) \in Message /\ Raw("wanted", y).kind = "wanted"
        /\ Raw("wanted", y).val = <<"wanted", y>>
BY DEF Noise, Eof, Garbage, Cmd, Ack, String, Raw, Message, Val, Command, None, Unknown

LEMMA FinalFacts ==
  ASSUME NEW p \in Peer, NEW x \in FinalReads
  PROVE  /\ Final(p, x) \in Message /\ Final(p, x).val = <<x, p>>
         /\ Final(p, x).kind = IF x = "addr" THEN "string" ELSE x
BY MessageFacts DEF Final, FinalReads

\* A message of the kind that is read is read.
LEMMA CleanRead ==
  ASSUME NEW s, NEW kind, NEW r \in Outcomes(s, kind), Head(s) # Eof, Head(s).kind = kind
  PROVE  r.ok /\ r.val = Head(s).val /\ r.rest = Tail(s)
BY DEF Outcomes

LEMMA GarbledIs ==
  ASSUME NEW s, NEW rest \in Garbled(s)
  PROVE  rest \in {<<Eof>>, <<Noise>>, <<>>} /\ rest \in Seq(Message)
<1>1. rest \in {<<Eof>>, <<Noise>>, <<>>}  BY DEF Garbled
<1>2. Eof \in Message /\ Noise \in Message  BY MessageFacts
<1>3. <<Eof>> \in Seq(Message) /\ <<Noise>> \in Seq(Message) /\ <<>> \in Seq(Message)
  BY <1>2
<1> QED  BY <1>1, <1>3

\* Another is garbage, or looks like a command, and takes the rest of the stream with it.
LEMMA DirtyRead ==
  ASSUME NEW s, NEW kind, kind # "eof", NEW r \in Outcomes(s, kind),
         Head(s) = Eof \/ Head(s).kind # kind
  PROVE  /\ r.ok \in BOOLEAN
         /\ \/ r.val = Garbage
            \/ /\ r.ok /\ kind = "string" /\ r.val = <<"cmd", Unknown>>
               /\ r.rest # <<Noise>>
         /\ Head(s) = Eof => ~r.ok /\ r.rest = s
         /\ Head(s) # Eof => r.rest \in Garbled(s)
<1>1. CASE Head(s) = Eof
  <2>1. Outcomes(s, kind) = {[ok |-> FALSE, val |-> Garbage, rest |-> s]}
    BY <1>1, MessageFacts DEF Outcomes
  <2>2. r = [ok |-> FALSE, val |-> Garbage, rest |-> s]  BY <2>1
  <2>3. r.ok = FALSE /\ r.val = Garbage /\ r.rest = s  BY <2>2
  <2> QED  BY <1>1, <2>3
<1>2. CASE Head(s) # Eof
  <2>1. r \in [ok : BOOLEAN, val : {Garbage}, rest : Garbled(s)]
                  \cup [ok : {TRUE}, val : MisreadCommands(kind), rest : Garbled(s) \ {<<Noise>>}]
    BY <1>2 DEF Outcomes
  <2>2. CASE r \in [ok : BOOLEAN, val : {Garbage}, rest : Garbled(s)]  BY <1>2, <2>2
  <2>3. CASE r \in [ok : {TRUE}, val : MisreadCommands(kind), rest : Garbled(s) \ {<<Noise>>}]
    <3>1. /\ r.ok = TRUE /\ r.val \in MisreadCommands(kind)
          /\ r.rest \in Garbled(s) /\ r.rest # <<Noise>>
      BY <2>3
    <3>2. kind = "string" /\ r.val = <<"cmd", Unknown>>  BY <3>1 DEF MisreadCommands
    <3> QED  BY <1>2, <3>1, <3>2
  <2> QED  BY <2>1, <2>2, <2>3
<1> QED  BY <1>1, <1>2

LEMMA OutcomesTyped ==
  ASSUME NEW s \in Seq(Message), s # <<>>, NEW kind, kind # "eof",
         NEW r \in Outcomes(s, kind)
  PROVE  r.ok \in BOOLEAN /\ r.val \in Val /\ r.rest \in Seq(Message)
<1>1. CASE Head(s) # Eof /\ Head(s).kind = kind
  <2>1. r.ok /\ r.val = Head(s).val /\ r.rest = Tail(s)  BY <1>1, CleanRead
  <2>2. Head(s) \in Message /\ Tail(s) \in Seq(Message)  BY Elements
  <2> QED  BY <2>1, <2>2 DEF Message
<1>2. CASE Head(s) = Eof \/ Head(s).kind # kind
  <2>1. /\ r.rest = s \/ r.rest \in Garbled(s)
        /\ r.val \in {Garbage, <<"cmd", Unknown>>} /\ r.ok \in BOOLEAN
    BY <1>2, DirtyRead
  <2>2. <<"cmd", Unknown>> \in Val  BY DEF Val
  <2> QED  BY <2>1, <2>2, MessageFacts, GarbledIs
<1> QED  BY <1>1, <1>2

-----------------------------------------------------------------------------
(* The handlers *)

Handler == [at : Waits \cup {"loop"}, out : Seq(Message), pub : SUBSET (Command \X Val)]

LEMMA MessageSeqs ==
  /\ <<>> \in Seq(Message)
  /\ \A m \in Message : <<m>> \in Seq(Message)
  /\ \A m, n \in Message : <<m, n>> \in Seq(Message)
OBVIOUS

LEMMA ServeIs ==
  ASSUME NEW p \in Peer
  PROVE  /\ Serve(p, "addrs-request") =
               [at |-> "loop", out |-> <<Ack("addrs-request")>>,
                pub |-> DataOf(Other(p), "addrs-request")]
         /\ Serve(p, "peer-addrs") = Then("addrs", <<Ack("peer-addrs")>>)
         /\ Serve(p, "announce-addr") = Then("addr", <<Ack("announce-addr")>>)
         /\ Serve(p, "new-tx") = Then("txId", <<Ack("new-tx")>>)
         /\ Serve(p, "sync-chain") =
               Then("hello", <<Ack("sync-chain"), Raw("hello", p)>>)
         /\ Serve(p, Unknown) = Then("loop", <<Ack(Unknown)>>)
BY DEF Serve, DataOf, Unknown

LEMMA WriteIs ==
  ASSUME NEW p \in Peer
  PROVE  /\ Write(p, "addrs-request") = Then("loop", <<>>)
         /\ Write(p, "peer-addrs") = Then("loop", <<Final(p, "addrs")>>)
         /\ Write(p, "announce-addr") = Then("loop", <<Final(p, "addr")>>)
         /\ Write(p, "new-tx") = Then("wanted", <<Raw("txId", p)>>)
         /\ Write(p, "sync-chain") = Then("hello", <<Final(p, "hello")>>)
BY DEF Write, Final

LEMMA DataIs ==
  ASSUME NEW p \in Peer
  PROVE  /\ DataOf(p, "addrs-request") = {<<"addrs-request", <<None, p>>>>}
         /\ DataOf(p, "peer-addrs") = {<<"peer-addrs", <<"addrs", p>>>>}
         /\ DataOf(p, "announce-addr") = {<<"announce-addr", <<"addr", p>>>>}
         /\ DataOf(p, "new-tx") = {<<"new-tx", <<"tx", p>>>>}
         /\ DataOf(p, "sync-chain") = {}
         /\ \A c \in Command : DataOf(p, c) \subseteq Command \X Val
<1>1. /\ DataOf(p, "addrs-request") = {<<"addrs-request", <<None, p>>>>}
      /\ DataOf(p, "peer-addrs") = {<<"peer-addrs", <<"addrs", p>>>>}
      /\ DataOf(p, "announce-addr") = {<<"announce-addr", <<"addr", p>>>>}
      /\ DataOf(p, "new-tx") = {<<"new-tx", <<"tx", p>>>>}
      /\ DataOf(p, "sync-chain") = {}
  BY DEF DataOf
<1>2. \A x \in {None, "addrs", "addr", "tx"} : <<x, p>> \in Val  BY DEF Val
<1> QED  BY <1>1, <1>2, Commands

LEMMA ThenTyped ==
  ASSUME NEW place \in Waits \cup {"loop"}, NEW out \in Seq(Message)
  PROVE  /\ Then(place, out) \in Handler /\ Then(place, out).at = place
         /\ Then(place, out).out = out /\ Then(place, out).pub = {}
BY DEF Then, Handler

LEMMA ServeOwable ==
  ASSUME NEW p \in Peer, NEW c \in Owable
  PROVE  /\ Serve(p, c) \in Handler
         /\ Serve(p, c).at \in {"loop", "addrs", "addr", "txId", "hello"}
         /\ Serve(p, c).at = "loop" <=> c \in {"addrs-request", Unknown}
         /\ Serve(p, c).pub = IF c = "addrs-request" THEN DataOf(Other(p), c) ELSE {}
         /\ Answer(p, c) = Serve(p, c).out
         /\ Answer(p, c) = IF c = "sync-chain" THEN <<Ack(c), Final(p, "hello")>>
                           ELSE <<Ack(c)>>
<1>1. /\ Ack(c) \in Message /\ Raw("hello", p) \in Message /\ Other(p) \in Peer
      /\ Raw("hello", p) = Final(p, "hello")
  BY MessageFacts, Peers DEF Final, Owable
<1>2. {"loop", "addrs", "addr", "txId", "hello"} \subseteq Waits \cup {"loop"}  BY DEF Waits
<1>3. CASE c = "addrs-request"
  <2> DEFINE s == Serve(p, c)
  <2>1. DataOf(Other(p), c) \in SUBSET (Command \X Val)  BY <1>1, <1>3, DataIs, Commands
  <2>2. s = [at |-> "loop", out |-> <<Ack(c)>>, pub |-> DataOf(Other(p), c)]  BY <1>3, ServeIs
  <2>3. s.at = "loop" /\ s.out = <<Ack(c)>> /\ s.pub = DataOf(Other(p), c)  BY <2>2
  <2>4. s \in Handler  BY <1>1, <2>1, <2>2, MessageSeqs DEF Handler
  <2> HIDE DEF s
  <2> QED  BY <1>3, <2>3, <2>4 DEF Answer, s
<1>4. ASSUME c # "addrs-request",
             NEW place \in {"loop", "addrs", "addr", "txId", "hello"}, NEW out \in Seq(Message),
             Serve(p, c) = Then(place, out)
      PROVE  /\ Serve(p, c) \in Handler /\ Serve(p, c).at = place
             /\ Serve(p, c).pub = {} /\ Answer(p, c) = Serve(p, c).out
             /\ Answer(p, c) = out
  <2>1. place \in Waits \cup {"loop"}  BY <1>2
  <2>2. /\ Then(place, out) \in Handler /\ Then(place, out).at = place
        /\ Then(place, out).out = out /\ Then(place, out).pub = {}
    BY <2>1, ThenTyped
  <2> QED  BY <1>4, <2>1, <2>2 DEF Answer
<1>5. <<Ack(c)>> \in Seq(Message) /\ <<Ack(c), Final(p, "hello")>> \in Seq(Message)
  BY <1>1, MessageSeqs
<1>6. CASE c = "peer-addrs"
  <2>1. Serve(p, c) = Then("addrs", <<Ack(c)>>)  BY <1>6, ServeIs
  <2> QED  BY <1>4, <1>5, <1>6, <2>1 DEF Unknown
<1>7. CASE c = "announce-addr"
  <2>1. Serve(p, c) = Then("addr", <<Ack(c)>>)  BY <1>7, ServeIs
  <2> QED  BY <1>4, <1>5, <1>7, <2>1 DEF Unknown
<1>8. CASE c = "new-tx"
  <2>1. Serve(p, c) = Then("txId", <<Ack(c)>>)  BY <1>8, ServeIs
  <2> QED  BY <1>4, <1>5, <1>8, <2>1 DEF Unknown
<1>9. CASE c = "sync-chain"
  <2>1. Serve(p, c) = Then("hello", <<Ack(c), Final(p, "hello")>>)  BY <1>1, <1>9, ServeIs
  <2> QED  BY <1>4, <1>5, <1>9, <2>1 DEF Unknown
<1>10. CASE c = Unknown
  <2>1. Serve(p, c) = Then("loop", <<Ack(c)>>)  BY <1>10, ServeIs
  <2>2. c # "addrs-request" /\ c # "sync-chain"  BY <1>10, Commands
  <2> QED  BY <1>4, <1>5, <1>10, <2>1, <2>2
<1> QED  BY <1>3, <1>6, <1>7, <1>8, <1>9, <1>10, Commands DEF Owable

LEMMA ServeFacts ==
  ASSUME NEW p \in Peer, NEW c \in Command
  PROVE  /\ Serve(p, c) \in Handler
         /\ Serve(p, c).at \in {"loop", "addrs", "addr", "txId", "hello"}
         /\ Serve(p, c).at = "loop" <=> c = "addrs-request"
         /\ Serve(p, c).pub = IF c = "addrs-request" THEN DataOf(Other(p), c) ELSE {}
         /\ Answer(p, c) = Serve(p, c).out
         /\ Answer(p, c) = IF c = "sync-chain" THEN <<Ack(c), Final(p, "hello")>>
                           ELSE <<Ack(c)>>
<1>1. c \in Owable /\ c # Unknown  BY Commands DEF Owable
<1> QED  BY <1>1, ServeOwable

LEMMA WriteTyped ==
  ASSUME NEW p \in Peer, NEW c \in Command
  PROVE  /\ Write(p, c) \in Handler /\ Write(p, c).at \in {"loop", "wanted", "hello"}
         /\ Write(p, c).pub = {}
<1>1. {"loop", "wanted", "hello"} \subseteq Waits \cup {"loop"}  BY DEF Waits
<1>2. /\ Raw("txId", p) \in Message /\ {"addr", "addrs", "hello"} \subseteq FinalReads
      /\ \A x \in {"addr", "addrs", "hello"} : Final(p, x) \in Message
  BY MessageFacts, FinalFacts DEF FinalReads
<1>3. /\ <<Final(p, "addrs")>> \in Seq(Message) /\ <<Final(p, "addr")>> \in Seq(Message)
      /\ <<Final(p, "hello")>> \in Seq(Message) /\ <<Raw("txId", p)>> \in Seq(Message)
      /\ <<>> \in Seq(Message)
  BY <1>2, MessageSeqs
<1>4. ASSUME NEW place \in {"loop", "wanted", "hello"}, NEW out \in Seq(Message),
             Write(p, c) = Then(place, out)
      PROVE  Write(p, c) \in Handler /\ Write(p, c).at = place /\ Write(p, c).pub = {}
  BY <1>1, <1>4, ThenTyped
<1>5. \E place \in {"loop", "wanted", "hello"} : \E out \in Seq(Message) :
         Write(p, c) = Then(place, out)
  <2>1. CASE c = "addrs-request"  BY <1>3, <2>1, WriteIs
  <2>2. CASE c = "peer-addrs"  BY <1>3, <2>2, WriteIs
  <2>3. CASE c = "announce-addr"  BY <1>3, <2>3, WriteIs
  <2>4. CASE c = "new-tx"  BY <1>3, <2>4, WriteIs
  <2>5. CASE c = "sync-chain"  BY <1>3, <2>5, WriteIs
  <2> QED  BY <2>1, <2>2, <2>3, <2>4, <2>5, Commands
<1> QED  BY <1>4, <1>5

DataPlaces == {"addr", "addrs", "txId", "wanted", "tx", "hello"}

LEMMA ReceivedTyped ==
  ASSUME NEW p \in Peer, NEW place \in DataPlaces, NEW val \in Val, NEW h \in Received(p, place, val)
  PROVE  h \in Handler /\ h.at \in {"loop", "tx"}
<1>1. /\ Raw("tx", p) \in Message /\ Raw("wanted", "no") \in Message
      /\ Raw("wanted", "yes") \in Message
  BY MessageFacts
<1>2. {"loop", "tx"} \subseteq Waits \cup {"loop"}  BY DEF Waits
<1>3. \A c \in {"announce-addr", "peer-addrs", "new-tx"} :
         /\ Publish(<<c, val>>) \in Handler /\ Publish(<<c, val>>).at = "loop"
  BY Commands DEF Publish, Handler
<1>4. /\ <<Raw("tx", p)>> \in Seq(Message) /\ <<Raw("wanted", "no")>> \in Seq(Message)
      /\ <<Raw("wanted", "yes")>> \in Seq(Message) /\ <<>> \in Seq(Message)
  BY <1>1, MessageSeqs
<1>5. ASSUME NEW to \in {"loop", "tx"}, NEW out \in Seq(Message)
      PROVE  Then(to, out) \in Handler /\ Then(to, out).at = to
  BY <1>2, ThenTyped
<1>6. CASE place = "addr"  BY <1>3, <1>6 DEF Received
<1>7. CASE place = "addrs"  BY <1>3, <1>7 DEF Received
<1>8. CASE place = "txId"
  <2>1. h \in {Then("loop", <<Raw("wanted", "no")>>), Then("tx", <<Raw("wanted", "yes")>>)}
    BY <1>8 DEF Received
  <2> QED  BY <1>4, <1>5, <2>1
<1>9. CASE place = "wanted"
  <2>1. PICK yes \in BOOLEAN : h = Then("loop", IF yes THEN <<Raw("tx", p)>> ELSE <<>>)
    BY <1>9 DEF Received
  <2> QED  BY <1>4, <1>5, <2>1
<1>10. CASE place = "tx"  BY <1>3, <1>10 DEF Received
<1>11. CASE place = "hello"
  <2>1. h = Then("loop", <<>>)  BY <1>11 DEF Received
  <2> QED  BY <1>4, <1>5, <2>1
<1> QED  BY <1>6, <1>7, <1>8, <1>9, <1>10, <1>11 DEF DataPlaces

-----------------------------------------------------------------------------
(* A handler runs to its next read *)

\* Where it leaves its end, and what it writes and publishes on the way.
Moves(p, place, o, rest, out, pub) ==
    /\ pc' = [pc EXCEPT ![p] = place] /\ owed' = [owed EXCEPT ![p] = o]
    /\ Exchange(p, rest, out)
    /\ heard' = [heard EXCEPT ![p] = @ \cup pub]
    /\ UNCHANGED <<refuses, coming, stalled>>

Step(p, place, c, o, rest, out, pub) ==
    /\ Moves(p, place, o, rest, out, pub)
    /\ issued' = [issued EXCEPT ![p] = c] /\ said' = said

Outcome(p, h, mine, place, o, out, pub) ==
    \/ h.at # "loop" /\ place = h.at /\ o = owed[p] /\ out = h.out /\ pub = h.pub
    \/ /\ h.at = "loop" /\ owed[p] = None /\ o = None /\ out = h.out /\ pub = h.pub
       /\ place = IF mine = None THEN "loop" ELSE "ackAfter"
    \/ /\ h.at = "loop" /\ owed[p] \in Owable /\ o = None
       /\ place = Serve(p, owed[p]).at
       /\ out = h.out \o Answer(p, owed[p]) /\ pub = h.pub \cup Serve(p, owed[p]).pub

LEMMA ProceedIs ==
  ASSUME TypeOK, NEW p \in Peer, NEW h \in Handler, NEW rest \in Seq(Message), NEW mine,
         Proceed(p, h, rest, mine), owed[p] # None => mine = None
  PROVE  \E place \in Waits \cup {"loop"} : \E o \in Owable \cup {None} :
            \E out \in Seq(Message) : \E pub \in SUBSET (Command \X Val) :
               Moves(p, place, o, rest, out, pub) /\ Outcome(p, h, mine, place, o, out, pub)
<1>1. owed \in [Peer -> Owable \cup {None}] /\ owed[p] \in Owable \cup {None}
  BY DEF TypeOK, Owable
<1>2. /\ h.at \in Waits \cup {"loop"} /\ h.out \in Seq(Message)
      /\ h.pub \in SUBSET (Command \X Val) /\ h.out \o <<>> = h.out
  BY DEF Handler
<1>3. UNCHANGED <<refuses, coming, stalled>>  BY DEF Proceed
<1>4. CASE h.at # "loop"
  <2>1. /\ pc' = [pc EXCEPT ![p] = h.at] /\ owed' = [owed EXCEPT ![p] = @]
        /\ Exchange(p, rest, h.out \o <<>>)
        /\ heard' = [heard EXCEPT ![p] = @ \cup h.pub \cup {}]
    BY <1>4 DEF Proceed, Then
  <2>2. Moves(p, h.at, owed[p], rest, h.out, h.pub)
    <3>1. heard' = [heard EXCEPT ![p] = @ \cup h.pub]  BY <2>1
    <3>2. owed' = [owed EXCEPT ![p] = owed[p]]  BY <2>1
    <3> QED  BY <1>2, <1>3, <2>1, <3>1, <3>2 DEF Moves
  <2> QED  BY <1>1, <1>2, <1>4, <2>2 DEF Outcome
<1>5. CASE h.at = "loop" /\ owed[p] = None
  <2> DEFINE place == IF mine = None THEN "loop" ELSE "ackAfter"
  <2>1. /\ pc' = [pc EXCEPT ![p] = place] /\ owed' = [owed EXCEPT ![p] = None]
        /\ Exchange(p, rest, h.out \o <<>>)
        /\ heard' = [heard EXCEPT ![p] = @ \cup h.pub \cup {}]
    BY <1>5 DEF Proceed, Then
  <2>2. Moves(p, place, None, rest, h.out, h.pub)
    <3>1. heard' = [heard EXCEPT ![p] = @ \cup h.pub]  BY <2>1
    <3> QED  BY <1>2, <1>3, <2>1, <3>1 DEF Moves
  <2>3. place \in Waits \cup {"loop"}  BY DEF Waits
  <2> HIDE DEF place
  <2>4. Outcome(p, h, mine, place, None, h.out, h.pub)  BY <1>5 DEF Outcome, place
  <2> QED  BY <1>2, <2>2, <2>3, <2>4
<1>6. CASE h.at = "loop" /\ owed[p] \in Owable
  <2> DEFINE s == Serve(p, owed[p])
             out == h.out \o s.out
             pub == h.pub \cup s.pub
  <2>0. owed[p] # None  BY <1>6, Commands DEF Owable
  <2>1. mine = None  BY <2>0
  <2>2. /\ pc' = [pc EXCEPT ![p] = s.at] /\ owed' = [owed EXCEPT ![p] = None]
        /\ Exchange(p, rest, out)
        /\ heard' = [heard EXCEPT ![p] = @ \cup h.pub \cup s.pub]
    BY <1>6, <2>0, <2>1 DEF Proceed
  <2>3. Moves(p, s.at, None, rest, out, pub)
    <3>1. heard' = [heard EXCEPT ![p] = @ \cup pub]  BY <2>2
    <3> QED  BY <1>3, <2>2, <3>1 DEF Moves
  <2>4. s \in Handler /\ s.out = Answer(p, owed[p])  BY <1>6, ServeOwable
  <2>5. /\ s.at \in Waits \cup {"loop"} /\ s.out \in Seq(Message)
        /\ s.pub \in SUBSET (Command \X Val)
    BY <2>4 DEF Handler
  <2>6. out \in Seq(Message) /\ pub \in SUBSET (Command \X Val)  BY <1>2, <2>5
  <2>7. Outcome(p, h, mine, s.at, None, out, pub)  BY <1>6, <2>4 DEF Outcome
  <2> QED  BY <2>3, <2>5, <2>6, <2>7
<1> QED  BY <1>1, <1>4, <1>5, <1>6

-----------------------------------------------------------------------------
(* Types *)

LEMMA Typed ==
  ASSUME TypeOK, NEW p \in Peer
  PROVE  /\ inbox \in [Peer -> Seq(Message)] /\ inbox[p] \in Seq(Message)
         /\ issued[p] \in Command \cup {None} /\ owed[p] \in Owable \cup {None}
         /\ pc[p] \in Waits \cup {"loop"} \cup Deaf
         /\ pc \in [Peer -> Waits \cup {"loop"} \cup Deaf]
         /\ issued \in [Peer -> Command \cup {None}] /\ owed \in [Peer -> Owable \cup {None}]
         /\ heard \in [Peer -> SUBSET (Command \X Val)]
         /\ said \in [Peer -> SUBSET (Command \X Val)]
BY DEF TypeOK, Message, Owable

\* Who receives what an end writes.
LEMMA ExchangeIs ==
  ASSUME TypeOK, NEW p \in Peer, NEW rest \in Seq(Message), NEW msgs \in Seq(Message),
         Exchange(p, rest, msgs)
  PROVE  /\ inbox' \in [Peer -> Seq(Message)] /\ inbox'[p] = rest
         /\ inbox'[Other(p)] =
               IF pc[Other(p)] \in Deaf \/ inbox[Other(p)] = <<Noise>>
               THEN inbox[Other(p)] ELSE inbox[Other(p)] \o msgs
<1>1. inbox \in [Peer -> Seq(Message)]  BY Typed
<1>2. Other(p) \in Peer /\ Other(p) # p  BY Peers
<1>3. inbox[Other(p)] \o msgs \in Seq(Message)  BY <1>1, <1>2
<1> QED  BY <1>1, <1>2, <1>3 DEF Exchange

\* What the type invariant says of an end's place.
Placed(p, place, c, o) ==
    /\ o # None => p = Acceptor /\ place \in {"ownAck", "wanted", "hello"}
    /\ place \in {"ack", "ownAck", "ackAfter"} => c # None
    /\ place \in {"loop"} \cup Deaf => c = None
    /\ o # None /\ place # "ownAck" => c = None

LEMMA PlacedIs ==
  TypeOK /\ PlacesOK => \A p \in Peer : Placed(p, pc[p], issued[p], owed[p])
BY DEF TypeOK, PlacesOK, Placed

\* Types hold again once one end has moved.
LEMMA OneMoved ==
  ASSUME TypeOK, PlacesOK, NEW p \in Peer,
         pc' \in [Peer -> Waits \cup {"loop"} \cup Deaf],
         issued' \in [Peer -> Command \cup {None}], owed' \in [Peer -> Owable \cup {None}],
         \A x \in Peer \ {p} : pc'[x] = pc[x] /\ issued'[x] = issued[x] /\ owed'[x] = owed[x],
         Placed(p, pc'[p], issued'[p], owed'[p]),
         inbox' \in [Peer -> Seq(Message)], coming' \in [Peer -> [Command -> Nat]],
         heard' \in [Peer -> SUBSET (Command \X Val)],
         said' \in [Peer -> SUBSET (Command \X Val)],
         refuses' = refuses, stalled' \in BOOLEAN
  PROVE  TypeOK' /\ PlacesOK'
<1>1. \A x \in Peer : Placed(x, pc'[x], issued'[x], owed'[x])
  <2> TAKE x \in Peer
  <2>1. CASE x = p  BY <2>1
  <2>2. CASE x # p
    <3>1. pc'[x] = pc[x] /\ issued'[x] = issued[x] /\ owed'[x] = owed[x]  BY <2>2
    <3>2. Placed(x, pc[x], issued[x], owed[x])  BY PlacedIs
    <3> QED  BY <3>1, <3>2
  <2> QED  BY <2>1, <2>2
<1>2. PlacesOK'  BY <1>1 DEF PlacesOK, Placed
<1>3. refuses' \in [Peer -> BOOLEAN]  BY DEF TypeOK
<1>4. \A x \in Peer :
         /\ owed'[x] # None => x = Acceptor /\ pc'[x] \in {"ownAck", "wanted", "hello"}
         /\ pc'[x] \in {"ack", "ownAck", "ackAfter"} => issued'[x] # None
         /\ pc'[x] \in {"loop"} \cup Deaf => issued'[x] = None
  BY <1>1 DEF Placed
<1>5. owed' \in [Peer -> Command \cup {Unknown, None}]
  <2>1. Owable \cup {None} = Command \cup {Unknown, None}  BY DEF Owable
  <2> QED  BY <2>1
<1>6. {heard', said'} \subseteq [Peer -> SUBSET (Command \X Val)]  OBVIOUS
<1> QED  BY <1>2, <1>3, <1>4, <1>5, <1>6 DEF TypeOK, Message

LEMMA MovesTyped ==
  ASSUME TypeOK, PlacesOK, NEW p \in Peer, NEW place \in Waits \cup {"loop"},
         NEW o \in Owable \cup {None}, NEW rest \in Seq(Message), NEW out \in Seq(Message),
         NEW pub \in SUBSET (Command \X Val), Moves(p, place, o, rest, out, pub),
         NEW c \in Command \cup {None}, issued' = [issued EXCEPT ![p] = c], said' = said,
         Placed(p, place, c, o)
  PROVE  TypeOK' /\ PlacesOK'
<1>1. inbox' \in [Peer -> Seq(Message)]  BY ExchangeIs DEF Moves
<1>2. /\ heard' \in [Peer -> SUBSET (Command \X Val)]
      /\ said' \in [Peer -> SUBSET (Command \X Val)]
  BY Typed DEF Moves
<1>3. /\ pc' \in [Peer -> Waits \cup {"loop"} \cup Deaf]
      /\ issued' \in [Peer -> Command \cup {None}] /\ owed' \in [Peer -> Owable \cup {None}]
      /\ \A x \in Peer \ {p} : pc'[x] = pc[x] /\ issued'[x] = issued[x] /\ owed'[x] = owed[x]
      /\ pc'[p] = place /\ issued'[p] = c /\ owed'[p] = o
  BY Typed DEF Moves
<1>4. coming' \in [Peer -> [Command -> Nat]] /\ refuses' = refuses /\ stalled' \in BOOLEAN
  BY DEF Moves, TypeOK
<1> QED  BY <1>1, <1>2, <1>3, <1>4, OneMoved

\* A handler of an end with nothing left to issue but mine.
LEMMA ProceedTyped ==
  ASSUME TypeOK, PlacesOK, NEW p \in Peer, NEW h \in Handler, NEW rest \in Seq(Message),
         NEW mine \in Command \cup {None}, Proceed(p, h, rest, mine),
         issued' = [issued EXCEPT ![p] = mine], said' = said,
         owed[p] # None => mine = None /\ p = Acceptor /\ h.at \in {"loop", "wanted", "hello"},
         h.at \notin {"ack", "ownAck", "ackAfter"}
  PROVE  TypeOK' /\ PlacesOK'
<1>1. PICK place \in Waits \cup {"loop"} : \E o \in Owable \cup {None} :
         \E out \in Seq(Message) : \E pub \in SUBSET (Command \X Val) :
            Moves(p, place, o, rest, out, pub) /\ Outcome(p, h, mine, place, o, out, pub)
  BY ProceedIs
<1>2. PICK o \in Owable \cup {None}, out \in Seq(Message), pub \in SUBSET (Command \X Val) :
         Moves(p, place, o, rest, out, pub) /\ Outcome(p, h, mine, place, o, out, pub)
  BY <1>1
<1>3. Placed(p, place, mine, o)
  <2>1. CASE h.at # "loop" /\ place = h.at /\ o = owed[p]
    <3>1. h.at \notin Deaf  BY <2>1 DEF Waits
    <3> QED  BY <2>1, <3>1 DEF Placed
  <2>2. CASE o = None /\ place = IF mine = None THEN "loop" ELSE "ackAfter"
    BY <2>2 DEF Placed
  <2>3. CASE owed[p] \in Owable /\ o = None /\ place = Serve(p, owed[p]).at
    <3>1. place \in {"loop", "addrs", "addr", "txId", "hello"}  BY <2>3, ServeOwable
    <3>2. mine = None  BY <2>3, Commands DEF Owable
    <3> QED  BY <2>3, <3>1, <3>2 DEF Placed
  <2> QED  BY <1>2, <2>1, <2>2, <2>3 DEF Outcome
<1> QED  BY <1>2, <1>3, MovesTyped

LEMMA AbandonTyped ==
  ASSUME TypeOK, PlacesOK, NEW p \in Peer, Abandon(p, <<>>, <<>>), stalled' \in BOOLEAN
  PROVE  TypeOK' /\ PlacesOK'
<1>1. inbox' \in [Peer -> Seq(Message)]  BY ExchangeIs, MessageSeqs DEF Abandon
<1>2. /\ pc' \in [Peer -> Waits \cup {"loop"} \cup Deaf]
      /\ issued' \in [Peer -> Command \cup {None}] /\ owed' \in [Peer -> Owable \cup {None}]
      /\ \A x \in Peer \ {p} : pc'[x] = pc[x] /\ issued'[x] = issued[x] /\ owed'[x] = owed[x]
      /\ pc'[p] = "loop" /\ issued'[p] = None /\ owed'[p] = None
  BY Typed DEF Abandon
<1>3. Placed(p, pc'[p], issued'[p], owed'[p])  BY <1>2 DEF Placed
<1>4. /\ heard' \in [Peer -> SUBSET (Command \X Val)] /\ refuses' = refuses
      /\ said' \in [Peer -> SUBSET (Command \X Val)] /\ coming' \in [Peer -> [Command -> Nat]]
  BY Typed DEF Abandon, TypeOK
<1> QED  BY <1>1, <1>2, <1>3, <1>4, OneMoved

\* An end that ends or spins, whatever is left in the streams.
LEMMA EndTyped ==
  ASSUME TypeOK, PlacesOK, NEW p \in Peer, NEW place \in {"ended", "spinning"},
         pc' = [pc EXCEPT ![p] = place], coming' \in [Peer -> [Command -> Nat]],
         issued' = [issued EXCEPT ![p] = None], owed' = [owed EXCEPT ![p] = None],
         inbox' \in [Peer -> Seq(Message)], UNCHANGED <<refuses, heard, said, stalled>>
  PROVE  TypeOK' /\ PlacesOK'
<1>1. /\ pc' \in [Peer -> Waits \cup {"loop"} \cup Deaf]
      /\ issued' \in [Peer -> Command \cup {None}] /\ owed' \in [Peer -> Owable \cup {None}]
      /\ \A x \in Peer \ {p} : pc'[x] = pc[x] /\ issued'[x] = issued[x] /\ owed'[x] = owed[x]
      /\ pc'[p] = place /\ issued'[p] = None /\ owed'[p] = None
  BY Typed
<1>2. Placed(p, pc'[p], issued'[p], owed'[p])  BY <1>1 DEF Placed
<1>3. /\ heard' \in [Peer -> SUBSET (Command \X Val)] /\ refuses' = refuses
      /\ said' \in [Peer -> SUBSET (Command \X Val)] /\ stalled' \in BOOLEAN
  BY Typed DEF TypeOK
<1> QED  BY <1>1, <1>2, <1>3, OneMoved

\* It takes no more events.
LEMMA NoMoreEvents ==
  ASSUME TypeOK, NEW p \in Peer
  PROVE  [coming EXCEPT ![p] = NoEvents] \in [Peer -> [Command -> Nat]]
<1>1. NoEvents \in [Command -> Nat]  BY DEF NoEvents
<1> QED  BY <1>1 DEF TypeOK

LEMMA IssueTyped ==
  ASSUME TypeOK, PlacesOK, NEW p \in Peer, NEW c \in Command, Issue(p, c)
  PROVE  TypeOK' /\ PlacesOK'
<1>1. Cmd(c) \in Message /\ <<Cmd(c)>> \in Seq(Message)  BY MessageFacts, MessageSeqs
<1>2. inbox' \in [Peer -> Seq(Message)]  BY <1>1, Typed, ExchangeIs DEF Issue
<1>3. /\ pc' \in [Peer -> Waits \cup {"loop"} \cup Deaf]
      /\ issued' \in [Peer -> Command \cup {None}] /\ owed' \in [Peer -> Owable \cup {None}]
      /\ \A x \in Peer \ {p} : pc'[x] = pc[x] /\ issued'[x] = issued[x] /\ owed'[x] = owed[x]
      /\ pc'[p] = "ack" /\ issued'[p] = c /\ owed'[p] = owed[p]
  BY Typed DEF Issue, Waits
<1>4. Placed(p, pc'[p], issued'[p], owed'[p])
  <2>1. Placed(p, "loop", issued[p], owed[p])  BY PlacedIs DEF Issue
  <2> QED  BY <1>3, <2>1, Commands DEF Placed
<1>5. DataOf(p, c) \subseteq Command \X Val  BY DataIs
<1>7. coming' \in [Peer -> [Command -> Nat]]
  <2>1. coming[p] \in [Command -> Nat] /\ coming[p][c] - 1 \in Nat  BY DEF TypeOK, Issue
  <2>2. [coming[p] EXCEPT ![c] = coming[p][c] - 1] \in [Command -> Nat]  BY <2>1
  <2>3. coming' = [coming EXCEPT ![p] = [coming[p] EXCEPT ![c] = coming[p][c] - 1]]
    BY DEF Issue, TypeOK
  <2> QED  BY <2>2, <2>3 DEF TypeOK
<1>6. /\ heard' \in [Peer -> SUBSET (Command \X Val)] /\ refuses' = refuses
      /\ said' \in [Peer -> SUBSET (Command \X Val)] /\ stalled' \in BOOLEAN
  BY <1>5, Typed DEF Issue, TypeOK
<1> QED  BY <1>2, <1>3, <1>4, <1>6, <1>7, OneMoved

-----------------------------------------------------------------------------
(* What each read may do *)

Clean(p, kind) == Head(inbox[p]) # Eof /\ Head(inbox[p]).kind = kind

\* What a read may leave of the stream.
Lefts(p, kind) ==
    IF Clean(p, kind) THEN {Tail(inbox[p])}
    ELSE IF Head(inbox[p]) = Eof THEN {inbox[p]} ELSE Garbled(inbox[p])

DataKind(place) == IF place = "addr" THEN "string" ELSE place

LEMMA ReadIs ==
  ASSUME TypeOK, NEW p \in Peer, inbox[p] # <<>>, NEW kind, kind # "eof",
         NEW r \in Outcomes(inbox[p], kind)
  PROVE  /\ r.ok \in BOOLEAN /\ r.val \in Val /\ r.rest \in Seq(Message)
         /\ r.rest \in Lefts(p, kind)
         /\ Clean(p, kind) =>
               /\ r.ok /\ r.val = Head(inbox[p]).val /\ r.rest = Tail(inbox[p])
               /\ r.val # <<"cmd", Unknown>>
         /\ ~Clean(p, kind) =>
               \/ r.val = Garbage
               \/ /\ r.ok /\ kind = "string" /\ r.val = <<"cmd", Unknown>>
                  /\ r.rest \in {<<>>, <<Eof>>}
         /\ Head(inbox[p]) = Eof => ~r.ok
<1>1. inbox[p] \in Seq(Message)  BY Typed
<1>2. r.ok \in BOOLEAN /\ r.val \in Val /\ r.rest \in Seq(Message)  BY <1>1, OutcomesTyped
<1>3. CASE Clean(p, kind)
  <2>1. r.ok /\ r.val = Head(inbox[p]).val /\ r.rest = Tail(inbox[p])
    BY <1>3, CleanRead DEF Clean
  <2>2. Head(inbox[p]) \in Message  BY <1>1, Elements
  <2>3. Head(inbox[p]).val # <<"cmd", Unknown>>  BY <2>2 DEF Message
  <2> QED  BY <1>2, <1>3, <2>1, <2>3 DEF Lefts, Clean
<1>4. CASE ~Clean(p, kind)
  <2>1. Head(inbox[p]) = Eof \/ Head(inbox[p]).kind # kind  BY <1>4 DEF Clean
  <2>2. Head(inbox[p]) = Eof => ~r.ok /\ r.rest = inbox[p]  BY <2>1, DirtyRead
  <2>3. Head(inbox[p]) # Eof => r.rest \in Garbled(inbox[p])  BY <2>1, DirtyRead
  <2>4. r.rest \in Lefts(p, kind)  BY <1>4, <2>2, <2>3 DEF Lefts
  <2>5. \/ r.val = Garbage
        \/ /\ r.ok /\ kind = "string" /\ r.val = <<"cmd", Unknown>>
           /\ r.rest # <<Noise>>
    BY <2>1, DirtyRead
  <2>6. r.ok /\ r.rest # <<Noise>> => r.rest \in {<<>>, <<Eof>>}  BY <2>2, <2>3, GarbledIs
  <2> QED  BY <1>2, <1>4, <2>2, <2>4, <2>5, <2>6
<1> QED  BY <1>3, <1>4

LEMMA ByValue ==
  ASSUME NEW m \in Message, m.kind = "string", NEW c
  PROVE  /\ m.val = <<"cmd", c>> => m = Cmd(c)
         /\ m.val = <<"ack", c>> => m = Ack(c)
BY DEF Message, Cmd, Ack, String

LEMMA GarbageIsNoCommand ==
  \A val \in {Garbage, <<"cmd", Unknown>>} :
     CommandsIn(val) = {} /\ val # <<"cmd", "close">> /\ \A c : val # <<"ack", c>>
<1>1. CommandsIn(Garbage) = {} /\ Garbage # <<"cmd", "close">> /\ \A c : Garbage # <<"ack", c>>
  BY DEF CommandsIn, Garbage
<1>2. /\ CommandsIn(<<"cmd", Unknown>>) = {} /\ <<"cmd", Unknown>> # <<"cmd", "close">>
      /\ \A c : <<"cmd", Unknown>> # <<"ack", c>>
  BY Commands DEF CommandsIn
<1> QED  BY <1>1, <1>2

\* A command, an acknowledgement, or neither.
LEMMA StringIs ==
  ASSUME TypeOK, NEW p \in Peer, inbox[p] # <<>>, NEW r \in Outcomes(inbox[p], "string")
  PROVE  /\ \A c \in CommandsIn(r.val) :
               c \in Command /\ Head(inbox[p]) = Cmd(c) /\ r.rest = Tail(inbox[p])
         /\ r.val = <<"cmd", "close">> => Head(inbox[p]) = Cmd("close")
         /\ \A c \in Command : r.val = <<"ack", c>> =>
               Head(inbox[p]) = Ack(c) /\ r.rest = Tail(inbox[p])
         /\ \A c \in Command : Head(inbox[p]) = Cmd(c) => r.ok /\ CommandsIn(r.val) = {c}
         /\ \A c \in Command : Head(inbox[p]) = Ack(c) => r.ok /\ r.val = <<"ack", c>>
         /\ Head(inbox[p]) = Cmd("close") => r.ok /\ r.val = <<"cmd", "close">>
<1> DEFINE m == Head(inbox[p])
<1>1. m \in Message
  <2>1. inbox[p] \in Seq(Message)  BY Typed
  <2> QED  BY <2>1, Elements
<1>2. /\ Clean(p, "string") => r.ok /\ r.val = m.val /\ r.rest = Tail(inbox[p])
      /\ ~Clean(p, "string") => r.val \in {Garbage, <<"cmd", Unknown>>}
  BY ReadIs
<1>3. CASE Clean(p, "string")
  <2>1. m.kind = "string" /\ r.ok /\ r.val = m.val /\ r.rest = Tail(inbox[p])
    BY <1>2, <1>3 DEF Clean
  <2>2. \A c \in Command \cup {"close"} : Cmd(c).val = <<"cmd", c>>  BY MessageFacts
  <2>3. \A c \in Command : Ack(c).val = <<"ack", c>>  BY MessageFacts
  <2>4. \A c : (m.val = <<"cmd", c>> => m = Cmd(c)) /\ (m.val = <<"ack", c>> => m = Ack(c))
    BY <1>1, <2>1, ByValue
  <2> HIDE DEF m
  <2>5. CommandsIn(r.val) = {c \in Command : m.val = <<"cmd", c>>}  BY <2>1 DEF CommandsIn
  <2> QED  BY <2>1, <2>2, <2>3, <2>4, <2>5 DEF m
<1>4. CASE ~Clean(p, "string")
  <2>1. r.val \in {Garbage, <<"cmd", Unknown>>}  BY <1>2, <1>4
  <2>2. m = Eof \/ m.kind # "string"  BY <1>4 DEF Clean
  <2>3. /\ \A c \in Command \cup {"close"} : Cmd(c).kind = "string"
        /\ \A c \in Command : Ack(c).kind = "string"
        /\ Eof.kind # "string"
    BY MessageFacts
  <2> HIDE DEF m
  <2>4. /\ \A c \in Command \cup {"close"} : m # Cmd(c)
        /\ \A c \in Command : m # Ack(c)
    BY <2>2, <2>3
  <2> QED  BY <2>1, <2>4, GarbageIsNoCommand DEF m
<1> QED  BY <1>3, <1>4

Served(p) ==
    \E c \in Command :
        /\ Head(inbox[p]) = Cmd(c) /\ Proceed(p, Serve(p, c), Tail(inbox[p]), issued[p])
        /\ UNCHANGED <<issued, said>>

\* It is back in its loop; it may have acknowledged what was no command.
GivenUp(p, kind) ==
    \E rest \in Lefts(p, kind) : \E out \in {<<>>, <<Ack(Unknown)>>} :
        Step(p, "loop", None, None, rest, out, {})

Ends(p, kind) == \E rest \in Lefts(p, kind) : End(p, rest)

Postponed(p) ==
    \E c \in Command :
        /\ Head(inbox[p]) = Cmd(c) /\ owed' = [owed EXCEPT ![p] = c]
        /\ pc' = [pc EXCEPT ![p] = "ownAck"]
        /\ inbox' = [inbox EXCEPT ![p] = Tail(inbox[p])]
        /\ UNCHANGED <<refuses, coming, issued, heard, said, stalled>>

\* It owes what was no command.
Misled(p) ==
    /\ ~Clean(p, "string") /\ owed' = [owed EXCEPT ![p] = Unknown]
    /\ pc' = [pc EXCEPT ![p] = "ownAck"]
    /\ \E rest \in {<<>>, <<Eof>>} : inbox' = [inbox EXCEPT ![p] = rest]
    /\ UNCHANGED <<refuses, coming, issued, heard, said, stalled>>

RanIssued(p) == Head(inbox[p]) = Ack(issued[p]) /\ RunIssued(p, Tail(inbox[p]))

Handled(p) ==
    \E val \in Val, rest \in Lefts(p, DataKind(pc[p])) : \E h \in Received(p, pc[p], val) :
        /\ Head(inbox[p]) # Eof
        /\ Clean(p, DataKind(pc[p])) => val = Head(inbox[p]).val
        /\ Proceed(p, h, rest, issued[p])
        /\ UNCHANGED <<issued, said>>

\* What an end does that gives up, in the words of a step.
LEMMA AbandonSteps ==
  ASSUME TypeOK, NEW p \in Peer, NEW kind, NEW rest \in Lefts(p, kind),
         NEW out \in {<<>>, <<Ack(Unknown)>>}, Abandon(p, rest, out), stalled' = stalled
  PROVE  GivenUp(p, kind)
<1>1. heard' = [heard EXCEPT ![p] = @ \cup {}]  BY Typed DEF Abandon
<1>2. Step(p, "loop", None, None, rest, out, {})  BY <1>1 DEF Abandon, Step, Moves
<1> QED  BY <1>2 DEF GivenUp

LEMMA ReadCommandIs ==
  ASSUME TypeOK, NEW p \in Peer, ReadCommand(p)
  PROVE  /\ pc[p] = "loop" /\ inbox[p] # <<>>
         /\ \/ Served(p)
            \/ /\ GivenUp(p, "string") \/ Ends(p, "string")
               /\ \A c \in Command : Head(inbox[p]) # Cmd(c)
<1>1. pc[p] = "loop" /\ inbox[p] # <<>>  BY DEF ReadCommand
<1>2. PICK r \in Outcomes(inbox[p], "string") :
         IF Broken(r) \/ (r.ok /\ r.val = <<"cmd", "close">>)
         THEN End(p, r.rest)
         ELSE /\ IF r.ok /\ CommandsIn(r.val) # {}
                 THEN \E c \in CommandsIn(r.val) : Proceed(p, Serve(p, c), r.rest, issued[p])
                 ELSE /\ Exchange(p, r.rest, IF r.ok THEN Reply(r.val) ELSE <<>>)
                      /\ UNCHANGED <<refuses, coming, pc, owed, heard, stalled>>
              /\ UNCHANGED <<issued, said>>
  BY DEF ReadCommand
<1>3. r.rest \in Lefts(p, "string") /\ r.ok \in BOOLEAN  BY <1>1, ReadIs
<1>4. /\ \A c \in CommandsIn(r.val) :
            c \in Command /\ Head(inbox[p]) = Cmd(c) /\ r.rest = Tail(inbox[p])
      /\ \A c \in Command : Head(inbox[p]) = Cmd(c) => r.ok /\ CommandsIn(r.val) = {c}
  BY <1>1, StringIs
<1>5. CASE Broken(r) \/ (r.ok /\ r.val = <<"cmd", "close">>)
  <2>1. Ends(p, "string")  BY <1>2, <1>3, <1>5 DEF Ends
  <2>2. ASSUME NEW c \in Command, Head(inbox[p]) = Cmd(c)  PROVE FALSE
    <3>1. r.ok /\ CommandsIn(r.val) = {c}  BY <1>4, <2>2
    <3>2. r.val = <<"cmd", "close">>  BY <1>5, <3>1 DEF Broken
    <3> QED  BY <3>1, <3>2, Commands DEF CommandsIn
  <2> QED  BY <1>1, <2>1, <2>2
<1>6. CASE ~(Broken(r) \/ (r.ok /\ r.val = <<"cmd", "close">>))
  <2>1. CASE r.ok /\ CommandsIn(r.val) # {}
    <3>1. PICK c \in CommandsIn(r.val) : Proceed(p, Serve(p, c), r.rest, issued[p])
      BY <1>2, <1>6, <2>1
    <3>2. c \in Command /\ Head(inbox[p]) = Cmd(c) /\ r.rest = Tail(inbox[p])
      BY <1>4
    <3>3. UNCHANGED <<issued, said>>  BY <1>2, <1>6
    <3>4. Served(p)  BY <3>1, <3>2, <3>3 DEF Served
    <3> QED  BY <1>1, <3>4
  <2>2. CASE ~(r.ok /\ CommandsIn(r.val) # {})
    <3> DEFINE out == IF r.ok THEN Reply(r.val) ELSE <<>>
    <3>1. /\ Exchange(p, r.rest, out)
          /\ UNCHANGED <<refuses, coming, pc, issued, owed, heard, said, stalled>>
      BY <1>2, <1>6, <2>2
    <3>2. \A c \in Command : Head(inbox[p]) # Cmd(c)  BY <1>4, <2>2
    <3>3. out \in {<<>>, <<Ack(Unknown)>>}  BY DEF Reply
    <3> HIDE DEF out
    <3>4. issued[p] = None /\ owed[p] = None  BY <1>1 DEF TypeOK
    <3>5. Abandon(p, r.rest, out)  BY <1>1, <3>1, <3>4, Typed DEF Abandon
    <3>6. GivenUp(p, "string")  BY <1>3, <3>1, <3>3, <3>5, AbandonSteps
    <3> QED  BY <1>1, <3>2, <3>6
  <2> QED  BY <2>1, <2>2
<1> QED  BY <1>5, <1>6

LEMMA ReadAnswerIs ==
  ASSUME TypeOK, NEW p \in Peer, ReadAnswer(p)
  PROVE  /\ pc[p] = "ack" /\ inbox[p] # <<>> /\ issued[p] \in Command
         /\ \/ RanIssued(p)
            \/ Ends(p, "string") /\ Head(inbox[p]) = Cmd("close")
            \/ p = Initiator /\ Served(p)
            \/ p = Acceptor /\ (Postponed(p) \/ Misled(p))
            \/ /\ GivenUp(p, "string") /\ Head(inbox[p]) # Ack(issued[p])
               /\ \A c \in Command : Head(inbox[p]) # Cmd(c)
<1>1. pc[p] = "ack" /\ inbox[p] # <<>>  BY DEF ReadAnswer
<1>2. issued[p] \in Command  BY <1>1, Typed DEF TypeOK
<1>3. PICK r \in Outcomes(inbox[p], "string") :
         \/ /\ r.ok /\ r.val = <<"ack", issued[p]>>
            /\ RunIssued(p, r.rest)
         \/ /\ r.ok /\ r.val = <<"cmd", "close">>
            /\ End(p, r.rest)
         \/ /\ r.ok /\ TheirsFirst(p)
            /\ \E c \in CommandsIn(r.val) : Proceed(p, Serve(p, c), r.rest, issued[p])
            /\ UNCHANGED <<issued, said>>
         \/ /\ r.ok /\ ~TheirsFirst(p)
            /\ owed' \in {[owed EXCEPT ![p] = c] :
                            c \in {d \in Command \cup {Unknown} : r.val = <<"cmd", d>>}}
            /\ pc' = [pc EXCEPT ![p] = "ownAck"]
            /\ inbox' = [inbox EXCEPT ![p] = r.rest]
            /\ UNCHANGED <<refuses, coming, issued, heard, said, stalled>>
         \/ /\ r.ok => /\ r.val \notin {<<"ack", issued[p]>>, <<"cmd", "close">>}
                       /\ CommandsIn(r.val) = {}
                       /\ r.val = <<"cmd", Unknown>> => TheirsFirst(p)
            /\ Abandon(p, r.rest, IF r.ok THEN Reply(r.val) ELSE <<>>)
            /\ UNCHANGED stalled
  BY DEF ReadAnswer
<1>4. /\ r.rest \in Lefts(p, "string")
      /\ Clean(p, "string") => r.val # <<"cmd", Unknown>>
      /\ ~Clean(p, "string") => r.val = Garbage \/ r.rest \in {<<>>, <<Eof>>}
  BY <1>1, ReadIs
<1>5. /\ \A c \in CommandsIn(r.val) :
            c \in Command /\ Head(inbox[p]) = Cmd(c) /\ r.rest = Tail(inbox[p])
      /\ r.val = <<"cmd", "close">> => Head(inbox[p]) = Cmd("close")
      /\ \A c \in Command : r.val = <<"ack", c>> =>
            Head(inbox[p]) = Ack(c) /\ r.rest = Tail(inbox[p])
      /\ \A c \in Command : Head(inbox[p]) = Cmd(c) => r.ok /\ CommandsIn(r.val) = {c}
      /\ \A c \in Command : Head(inbox[p]) = Ack(c) => r.ok /\ r.val = <<"ack", c>>
  BY <1>1, StringIs
<1>6. CASE r.val = <<"ack", issued[p]>> /\ RunIssued(p, r.rest)
  BY <1>1, <1>2, <1>5, <1>6 DEF RanIssued
<1>7. CASE r.val = <<"cmd", "close">> /\ End(p, r.rest)
  BY <1>1, <1>2, <1>4, <1>5, <1>7 DEF Ends
<1>8. CASE /\ TheirsFirst(p) /\ UNCHANGED <<issued, said>>
           /\ \E c \in CommandsIn(r.val) : Proceed(p, Serve(p, c), r.rest, issued[p])
  BY <1>1, <1>2, <1>5, <1>8 DEF Served, TheirsFirst
<1>9. CASE /\ ~TheirsFirst(p)
           /\ owed' \in {[owed EXCEPT ![p] = c] :
                           c \in {d \in Command \cup {Unknown} : r.val = <<"cmd", d>>}}
           /\ pc' = [pc EXCEPT ![p] = "ownAck"]
           /\ inbox' = [inbox EXCEPT ![p] = r.rest]
           /\ UNCHANGED <<refuses, coming, issued, heard, said, stalled>>
  <2>1. PICK c \in Command \cup {Unknown} :
           r.val = <<"cmd", c>> /\ owed' = [owed EXCEPT ![p] = c]
    BY <1>9
  <2>2. p = Acceptor  BY <1>9, Peers DEF TheirsFirst
  <2>3. CASE c \in Command
    <3>1. c \in CommandsIn(r.val)  BY <2>1, <2>3 DEF CommandsIn
    <3>2. Head(inbox[p]) = Cmd(c) /\ r.rest = Tail(inbox[p])  BY <1>5, <3>1
    <3> QED  BY <1>1, <1>2, <1>9, <2>1, <2>2, <2>3, <3>2 DEF Postponed
  <2>4. CASE c = Unknown
    <3>1. ~Clean(p, "string")  BY <1>4, <2>1, <2>4
    <3>2. r.val # Garbage  BY <2>1 DEF Garbage
    <3>3. r.rest \in {<<>>, <<Eof>>}  BY <1>4, <3>1, <3>2
    <3> QED  BY <1>1, <1>2, <1>9, <2>1, <2>2, <2>4, <3>1, <3>3 DEF Misled
  <2> QED  BY <2>1, <2>3, <2>4
<1>10. CASE /\ r.ok => /\ r.val \notin {<<"ack", issued[p]>>, <<"cmd", "close">>}
                       /\ CommandsIn(r.val) = {}
            /\ Abandon(p, r.rest, IF r.ok THEN Reply(r.val) ELSE <<>>)
            /\ UNCHANGED stalled
  <2>1. Head(inbox[p]) # Ack(issued[p])  BY <1>2, <1>5, <1>10
  <2>2. \A c \in Command : Head(inbox[p]) # Cmd(c)  BY <1>5, <1>10
  <2>3. (IF r.ok THEN Reply(r.val) ELSE <<>>) \in {<<>>, <<Ack(Unknown)>>}  BY DEF Reply
  <2>4. GivenUp(p, "string")  BY <1>4, <1>10, <2>3, AbandonSteps
  <2> QED  BY <1>1, <1>2, <2>1, <2>2, <2>4
<1> QED  BY <1>3, <1>6, <1>7, <1>8, <1>9, <1>10

LEMMA ReadOwnAckIs ==
  ASSUME TypeOK, NEW p \in Peer, ReadOwnAck(p)
  PROVE  /\ pc[p] \in {"ownAck", "ackAfter"} /\ inbox[p] # <<>> /\ issued[p] \in Command
         /\ RanIssued(p) \/ (GivenUp(p, "string") /\ Head(inbox[p]) # Ack(issued[p]))
<1>1. pc[p] \in {"ownAck", "ackAfter"} /\ inbox[p] # <<>>  BY DEF ReadOwnAck
<1>2. issued[p] \in Command  BY <1>1, Typed DEF TypeOK
<1>3. PICK r \in Outcomes(inbox[p], "string") :
         IF r.ok /\ r.val = <<"ack", issued[p]>>
         THEN RunIssued(p, r.rest)
         ELSE Abandon(p, r.rest, <<>>) /\ UNCHANGED stalled
  BY DEF ReadOwnAck
<1>4. r.rest \in Lefts(p, "string")  BY <1>1, ReadIs
<1>5. /\ r.val = <<"ack", issued[p]>> =>
            Head(inbox[p]) = Ack(issued[p]) /\ r.rest = Tail(inbox[p])
      /\ Head(inbox[p]) = Ack(issued[p]) => r.ok /\ r.val = <<"ack", issued[p]>>
  BY <1>1, <1>2, StringIs
<1>6. CASE r.ok /\ r.val = <<"ack", issued[p]>>
  BY <1>1, <1>2, <1>3, <1>5, <1>6 DEF RanIssued
<1>7. CASE ~(r.ok /\ r.val = <<"ack", issued[p]>>)
  <2>1. GivenUp(p, "string")  BY <1>3, <1>4, <1>7, AbandonSteps
  <2> QED  BY <1>1, <1>2, <1>5, <1>7, <2>1
<1> QED  BY <1>6, <1>7

LEMMA ReadDataIs ==
  ASSUME TypeOK, NEW p \in Peer, ReadData(p)
  PROVE  /\ pc[p] \in DataPlaces /\ inbox[p] # <<>>
         /\ \/ Handled(p)
            \/ /\ \/ GivenUp(p, DataKind(pc[p]))
                  \/ Spin(p) \/ Ends(p, DataKind(pc[p]))
               /\ ~Clean(p, DataKind(pc[p])) \/ Head(inbox[p]).val = Garbage
<1> DEFINE kind == DataKind(pc[p])
<1>1. pc[p] \in DataPlaces /\ inbox[p] # <<>>  BY DEF ReadData, DataPlaces
<1>2. PICK r \in Outcomes(inbox[p], kind) :
         \/ /\ Acceptable(pc[p], r)
            /\ \E h \in Received(p, pc[p], r.val) : Proceed(p, h, r.rest, issued[p])
            /\ UNCHANGED <<issued, said>>
         \/ /\ ~Acceptable(pc[p], r)
            /\ Abandon(p, r.rest, <<>>)
            /\ UNCHANGED stalled
         \/ r.ok /\ r.val = Garbage /\ pc[p] \in Counted /\ Spin(p)
         \/ r.ok /\ r.val = Garbage /\ pc[p] \in Sized /\ End(p, r.rest)
  BY DEF ReadData, DataKind
<1>3. kind # "eof"  BY <1>1 DEF DataKind, DataPlaces
<1> HIDE DEF kind
<1>4. /\ r.val \in Val /\ r.rest \in Lefts(p, kind)
      /\ Clean(p, kind) => r.ok /\ r.val = Head(inbox[p]).val
      /\ Head(inbox[p]) = Eof => ~r.ok
  BY <1>1, <1>3, ReadIs
<1>5. CASE /\ Acceptable(pc[p], r)
           /\ \E h \in Received(p, pc[p], r.val) : Proceed(p, h, r.rest, issued[p])
           /\ UNCHANGED <<issued, said>>
  <2>1. PICK h \in Received(p, pc[p], r.val) : Proceed(p, h, r.rest, issued[p])
    BY <1>5
  <2>2. r.ok  BY <1>5 DEF Acceptable
  <2>3. Handled(p)  BY <1>4, <1>5, <2>1, <2>2 DEF Handled, kind
  <2> QED  BY <1>1, <2>3
<1>6. CASE ~Acceptable(pc[p], r) /\ Abandon(p, r.rest, <<>>) /\ UNCHANGED stalled
  <2>1. ~Clean(p, kind) \/ Head(inbox[p]).val = Garbage  BY <1>4, <1>6 DEF Acceptable
  <2>2. GivenUp(p, kind)  BY <1>4, <1>6, AbandonSteps
  <2> QED  BY <1>1, <2>1, <2>2 DEF kind
<1>7. CASE r.val = Garbage /\ (Spin(p) \/ End(p, r.rest))
  BY <1>1, <1>4, <1>7 DEF Ends, kind
<1> QED  BY <1>2, <1>5, <1>6, <1>7

-----------------------------------------------------------------------------
(* Types are kept *)

LEMMA LeftTyped ==
  ASSUME TypeOK, NEW p \in Peer, inbox[p] # <<>>, NEW kind
  PROVE  /\ \A rest \in Lefts(p, kind) : rest \in Seq(Message)
         /\ Head(inbox[p]) \in Message /\ Tail(inbox[p]) \in Seq(Message)
         /\ \A rest \in Garbled(inbox[p]) : rest \in Seq(Message)
<1>1. inbox[p] \in Seq(Message)  BY Typed
<1>2. Tail(inbox[p]) \in Seq(Message) /\ Head(inbox[p]) \in Message  BY <1>1, Elements
<1>3. \A rest \in Garbled(inbox[p]) : rest \in Seq(Message)  BY GarbledIs
<1> QED  BY <1>1, <1>2, <1>3 DEF Lefts

\* With nothing left to issue, an end that owes a command is not in a read of an answer.
LEMMA OwesWhere ==
  ASSUME TypeOK, PlacesOK, NEW p \in Peer, owed[p] # None
  PROVE  /\ p = Acceptor /\ pc[p] \in {"ownAck", "wanted", "hello"}
         /\ pc[p] # "ownAck" => issued[p] = None
BY DEF TypeOK, PlacesOK

LEMMA ServedTyped ==
  ASSUME TypeOK, PlacesOK, NEW p \in Peer, inbox[p] # <<>>, pc[p] \in {"loop", "ack"}, Served(p)
  PROVE  TypeOK' /\ PlacesOK'
<1>1. PICK c \in Command :
         /\ Head(inbox[p]) = Cmd(c) /\ Proceed(p, Serve(p, c), Tail(inbox[p]), issued[p])
         /\ UNCHANGED <<issued, said>>
  BY DEF Served
<1>2. owed[p] = None  BY OwesWhere
<1>3. Serve(p, c) \in Handler /\ Serve(p, c).at \in {"loop", "addrs", "addr", "txId", "hello"}
  BY ServeFacts
<1>4. Tail(inbox[p]) \in Seq(Message)  BY LeftTyped
<1>5. issued[p] \in Command \cup {None} /\ issued' = [issued EXCEPT ![p] = issued[p]]
  BY <1>1, Typed
<1> QED  BY <1>1, <1>2, <1>3, <1>4, <1>5, ProceedTyped

LEMMA RanIssuedTyped ==
  ASSUME TypeOK, PlacesOK, NEW p \in Peer, inbox[p] # <<>>, issued[p] \in Command, RanIssued(p)
  PROVE  TypeOK' /\ PlacesOK'
<1>1. /\ issued' = [issued EXCEPT ![p] = None] /\ said' = said
      /\ Proceed(p, Write(p, issued[p]), Tail(inbox[p]), None)
  BY DEF RanIssued, RunIssued
<1>2. /\ Write(p, issued[p]) \in Handler
      /\ Write(p, issued[p]).at \in {"loop", "wanted", "hello"}
  BY WriteTyped
<1>3. Tail(inbox[p]) \in Seq(Message)  BY LeftTyped
<1>4. owed[p] # None => p = Acceptor  BY OwesWhere
<1> QED  BY <1>1, <1>2, <1>3, <1>4, ProceedTyped

LEMMA HandledTyped ==
  ASSUME TypeOK, PlacesOK, NEW p \in Peer, inbox[p] # <<>>, pc[p] \in DataPlaces, Handled(p)
  PROVE  TypeOK' /\ PlacesOK'
<1>0. PICK val \in Val, rest \in Lefts(p, DataKind(pc[p])) : \E h \in Received(p, pc[p], val) :
         Proceed(p, h, rest, issued[p]) /\ UNCHANGED <<issued, said>>
  BY DEF Handled
<1>1. PICK h \in Received(p, pc[p], val) :
         Proceed(p, h, rest, issued[p]) /\ UNCHANGED <<issued, said>>
  BY <1>0
<1>2. h \in Handler /\ h.at \in {"loop", "tx"}  BY ReceivedTyped
<1>3. rest \in Seq(Message)  BY LeftTyped
<1>4. pc[p] \in {"wanted", "hello"} => h.at = "loop"
  <2>1. CASE pc[p] = "wanted"  BY <2>1, ThenTyped DEF Received, Then
  <2>2. CASE pc[p] = "hello"  BY <2>2 DEF Received, Then
  <2> QED  BY <2>1, <2>2
<1>5. owed[p] # None => issued[p] = None /\ p = Acceptor /\ h.at = "loop"
  BY <1>4, OwesWhere DEF DataPlaces
<1>6. issued[p] \in Command \cup {None} /\ issued' = [issued EXCEPT ![p] = issued[p]]
  BY <1>1, Typed
<1> QED  BY <1>1, <1>2, <1>3, <1>5, <1>6, ProceedTyped

\* Only the streams change.
LEMMA StreamTyped ==
  ASSUME TypeOK, PlacesOK, inbox' \in [Peer -> Seq(Message)], stalled' \in BOOLEAN,
         UNCHANGED <<refuses, coming, pc, issued, owed, heard, said>>
  PROVE  TypeOK' /\ PlacesOK'
<1>1. PlacesOK'  BY DEF PlacesOK
<1>2. /\ \A x \in Peer :
            /\ owed'[x] # None => x = Acceptor /\ pc'[x] \in {"ownAck", "wanted", "hello"}
            /\ pc'[x] \in {"ack", "ownAck", "ackAfter"} => issued'[x] # None
            /\ pc'[x] \in {"loop"} \cup Deaf => issued'[x] = None
      /\ refuses' \in [Peer -> BOOLEAN] /\ coming' \in [Peer -> [Command -> Nat]]
      /\ pc' \in [Peer -> Waits \cup {"loop"} \cup Deaf]
      /\ issued' \in [Peer -> Command \cup {None}]
      /\ owed' \in [Peer -> Command \cup {Unknown, None}]
      /\ {heard', said'} \subseteq [Peer -> SUBSET (Command \X Val)]
  BY DEF TypeOK
<1> QED  BY <1>1, <1>2 DEF TypeOK, Message

LEMMA OwesTyped ==
  ASSUME TypeOK, PlacesOK, NEW p \in Peer, p = Acceptor, issued[p] \in Command,
         NEW c \in Owable, NEW rest \in Seq(Message),
         owed' = [owed EXCEPT ![p] = c], pc' = [pc EXCEPT ![p] = "ownAck"],
         inbox' = [inbox EXCEPT ![p] = rest],
         UNCHANGED <<refuses, coming, issued, heard, said, stalled>>
  PROVE  TypeOK' /\ PlacesOK'
<1>1. /\ pc' \in [Peer -> Waits \cup {"loop"} \cup Deaf]
      /\ issued' \in [Peer -> Command \cup {None}] /\ owed' \in [Peer -> Owable \cup {None}]
      /\ inbox' \in [Peer -> Seq(Message)]
      /\ \A x \in Peer \ {p} : pc'[x] = pc[x] /\ issued'[x] = issued[x] /\ owed'[x] = owed[x]
      /\ pc'[p] = "ownAck" /\ issued'[p] = issued[p] /\ owed'[p] = c
  BY Typed DEF Waits
<1>2. Placed(p, pc'[p], issued'[p], owed'[p])  BY <1>1, Commands DEF Placed
<1>3. /\ heard' \in [Peer -> SUBSET (Command \X Val)] /\ refuses' = refuses
      /\ said' \in [Peer -> SUBSET (Command \X Val)] /\ coming' \in [Peer -> [Command -> Nat]]
      /\ stalled' \in BOOLEAN
  BY Typed DEF TypeOK
<1> QED  BY <1>1, <1>2, <1>3, OneMoved

LEMMA PostponedTyped ==
  ASSUME TypeOK, PlacesOK, NEW p \in Peer, p = Acceptor, inbox[p] # <<>>,
         issued[p] \in Command, Postponed(p) \/ Misled(p)
  PROVE  TypeOK' /\ PlacesOK'
<1>1. Command \subseteq Owable /\ Unknown \in Owable  BY DEF Owable
<1>2. CASE Postponed(p)
  <2>1. PICK c \in Command :
           /\ owed' = [owed EXCEPT ![p] = c] /\ pc' = [pc EXCEPT ![p] = "ownAck"]
           /\ inbox' = [inbox EXCEPT ![p] = Tail(inbox[p])]
           /\ UNCHANGED <<refuses, coming, issued, heard, said, stalled>>
    BY <1>2 DEF Postponed
  <2>2. Tail(inbox[p]) \in Seq(Message)  BY LeftTyped
  <2> QED  BY <1>1, <2>1, <2>2, OwesTyped
<1>3. CASE Misled(p)
  <2>1. PICK rest \in {<<>>, <<Eof>>} : inbox' = [inbox EXCEPT ![p] = rest]
    BY <1>3 DEF Misled
  <2>2. rest \in Seq(Message)  BY MessageFacts, MessageSeqs
  <2> QED  BY <1>1, <1>3, <2>1, <2>2, OwesTyped DEF Misled
<1> QED  BY <1>2, <1>3

LEMMA EndsTyped ==
  ASSUME TypeOK, PlacesOK, NEW p \in Peer, inbox[p] # <<>>, NEW kind, Ends(p, kind)
  PROVE  TypeOK' /\ PlacesOK'
<1>1. PICK rest \in Lefts(p, kind) : End(p, rest)  BY DEF Ends
<1>2. inbox' \in [Peer -> Seq(Message)]  BY <1>1, LeftTyped, Typed DEF End
<1>3. coming' \in [Peer -> [Command -> Nat]]  BY <1>1, NoMoreEvents DEF End
<1> QED  BY <1>1, <1>2, <1>3, EndTyped DEF End

LEMMA GivenUpTyped ==
  ASSUME TypeOK, PlacesOK, NEW p \in Peer, inbox[p] # <<>>, NEW kind, GivenUp(p, kind)
  PROVE  TypeOK' /\ PlacesOK'
<1>1. PICK rest \in Lefts(p, kind), out \in {<<>>, <<Ack(Unknown)>>} :
         Step(p, "loop", None, None, rest, out, {})
  BY DEF GivenUp
<1>2. rest \in Seq(Message)  BY LeftTyped
<1>3. Ack(Unknown) \in Message  BY MessageFacts
<1>4. out \in Seq(Message)  BY <1>3, MessageSeqs
<1>5. Placed(p, "loop", None, None)  BY DEF Placed
<1>6. /\ "loop" \in Waits \cup {"loop"} /\ None \in Owable \cup {None}
      /\ None \in Command \cup {None} /\ {} \in SUBSET (Command \X Val)
  OBVIOUS
<1>7. Moves(p, "loop", None, rest, out, {}) /\ issued' = [issued EXCEPT ![p] = None]
      /\ said' = said
  BY <1>1 DEF Step
<1> QED  BY <1>2, <1>4, <1>5, <1>6, <1>7, MovesTyped

LEMMA ReceiveTyped ==
  ASSUME TypeOK, PlacesOK, NEW p \in Peer, Receive(p)
  PROVE  TypeOK' /\ PlacesOK'
<1>1. ASSUME Spin(p)  PROVE TypeOK' /\ PlacesOK'
  <2>1. inbox' \in [Peer -> Seq(Message)] /\ coming' \in [Peer -> [Command -> Nat]]
    BY <1>1, MessageSeqs, Typed DEF Spin, TypeOK
  <2> QED  BY <1>1, <2>1, EndTyped DEF Spin
<1>2. CASE ReadCommand(p)  BY <1>2, ReadCommandIs, ServedTyped, GivenUpTyped, EndsTyped
<1>3. CASE ReadAnswer(p)
  BY <1>3, ReadAnswerIs, ServedTyped, RanIssuedTyped, PostponedTyped, GivenUpTyped, EndsTyped
<1>4. CASE ReadOwnAck(p)  BY <1>4, ReadOwnAckIs, RanIssuedTyped, GivenUpTyped
<1>5. CASE ReadData(p)  BY <1>1, <1>5, ReadDataIs, HandledTyped, GivenUpTyped, EndsTyped
<1> QED  BY <1>2, <1>3, <1>4, <1>5 DEF Receive

\* What is in the stream of an end whose other end is closed.
LEMMA ClosedTyped ==
  ASSUME TypeOK, NEW q \in Peer
  PROVE  Closed(inbox[q]) \in Seq(Message)
<1>1. Eof \in Message /\ inbox[q] \in Seq(Message)  BY MessageFacts, Typed
<1>2. <<Eof>> \in Seq(Message) /\ Append(inbox[q], Eof) \in Seq(Message)  BY <1>1
<1> QED  BY <1>2 DEF Closed

LEMMA TypesStep ==
  ASSUME TypeOK, PlacesOK, [Next]_vars
  PROVE  TypeOK' /\ PlacesOK'
<1>1. ASSUME NEW p \in Peer, Receive(p)  PROVE TypeOK' /\ PlacesOK'  BY <1>1, ReceiveTyped
<1>2. ASSUME NEW p \in Peer, IssueAny(p)  PROVE TypeOK' /\ PlacesOK'
  BY <1>2, IssueTyped DEF IssueAny
<1>3. ASSUME NEW p \in Peer, Timeout(p)  PROVE TypeOK' /\ PlacesOK'
  <2>1. Abandon(p, <<>>, <<>>) /\ stalled' \in BOOLEAN  BY <1>3 DEF Timeout
  <2> QED  BY <2>1, AbandonTyped
<1>4. ASSUME NEW p \in Peer, LoseByte(p)  PROVE TypeOK' /\ PlacesOK'
  <2>1. inbox' \in [Peer -> Seq(Message)] /\ stalled' \in BOOLEAN
    BY <1>4, LeftTyped, Typed DEF LoseByte
  <2> QED  BY <1>4, <2>1, StreamTyped DEF LoseByte
<1>5. ASSUME NEW p \in Peer, Hangup(p)  PROVE TypeOK' /\ PlacesOK'
  <2>1. /\ <<>> \in Seq(Message) /\ Other(p) \in Peer /\ Other(p) # p
        /\ Closed(inbox[Other(p)]) \in Seq(Message)
    BY MessageSeqs, Peers, ClosedTyped
  <2>2. inbox' \in [Peer -> Seq(Message)]  BY <1>5, <2>1, Typed DEF Hangup
  <2>3. coming' \in [Peer -> [Command -> Nat]]  BY <1>5, NoMoreEvents DEF Hangup
  <2> QED  BY <1>5, <2>2, <2>3, EndTyped DEF Hangup
<1>6. ASSUME NEW p \in Peer, Collect(p)  PROVE TypeOK' /\ PlacesOK'
  <2>1. Other(p) \in Peer /\ Closed(inbox[Other(p)]) \in Seq(Message)  BY Peers, ClosedTyped
  <2>2. inbox' \in [Peer -> Seq(Message)]  BY <1>6, <2>1, Typed DEF Collect
  <2>3. stalled' \in BOOLEAN  BY <1>6 DEF Collect, TypeOK
  <2> QED  BY <1>6, <2>2, <2>3, StreamTyped DEF Collect
<1>7. CASE UNCHANGED vars
  <2>1. inbox' \in [Peer -> Seq(Message)] /\ stalled' \in BOOLEAN
    BY <1>7, Typed DEF vars, TypeOK
  <2> QED  BY <1>7, <2>1, StreamTyped DEF vars
<1> QED  BY <1>1, <1>2, <1>3, <1>4, <1>5, <1>6, <1>7 DEF Next

LEMMA TypesInit ==
  ASSUME Init
  PROVE  TypeOK /\ PlacesOK
<1>1. /\ refuses \in [Peer -> BOOLEAN] /\ coming \in [Peer -> [Command -> Nat]]
      /\ pc \in [Peer -> Waits \cup {"loop"} \cup Deaf]
      /\ owed = [p \in Peer |-> None] /\ heard = [p \in Peer |-> {}] /\ stalled = FALSE
  <2>1. NoEvents \in [Command -> Nat]  BY DEF NoEvents
  <2>2. PICK events \in Events :
          coming = [p \in Peer |-> IF refuses[p] THEN NoEvents ELSE events[p]]
    BY DEF Init
  <2>3. coming \in [Peer -> [Command -> Nat]]  BY <2>1, <2>2, PeerAssumption
  <2> QED  BY <2>3 DEF Init, Waits
<1>2. issued = [p \in Peer |-> IF pc[p] = "ack" THEN "sync-chain" ELSE None]  BY DEF Init
<1>3. issued \in [Peer -> Command \cup {None}]  BY <1>2, Commands
<1>4. said \in [Peer -> SUBSET (Command \X Val)]
  <2>1. said = [p \in Peer |-> IF refuses[p] THEN DataOf(p, "peer-addrs") ELSE {}]  BY DEF Init
  <2>2. \A p \in Peer : DataOf(p, "peer-addrs") \in SUBSET (Command \X Val)
    BY DataIs, Commands
  <2> QED  BY <2>1, <2>2
<1>5. inbox \in [Peer -> Seq(Message)]
  <2>1. PICK refusal \in [Peer -> UNION {Refusals(p) : p \in Peer}] :
           /\ \A p \in Peer : refusal[p] \in Refusals(Other(p))
           /\ inbox = [p \in Peer |->
                      CASE refuses[p] -> <<>>
                        [] refuses[Other(p)] -> refusal[p]
                        [] issued[Other(p)] # None -> <<Cmd(issued[Other(p)])>>
                        [] OTHER -> <<>>]
    BY DEF Init
  <2>2. ASSUME NEW p \in Peer  PROVE refusal[p] \in Seq(Message)
    <3>1. refusal[p] \in Refusals(Other(p)) /\ Other(p) \in Peer  BY <2>1, Peers
    <3>2. Cmd("close") \in Message /\ Cmd("peer-addrs") \in Message
          /\ Raw("addrs", Other(p)) \in Message
      BY <3>1, MessageFacts, Commands
    <3>3. /\ <<Cmd("close")>> \in Seq(Message)
          /\ <<Cmd("peer-addrs"), Raw("addrs", Other(p)), Cmd("close")>> \in Seq(Message)
      BY <3>2
    <3> QED  BY <3>1, <3>3 DEF Refusals
  <2>3. ASSUME NEW p \in Peer, issued[p] # None  PROVE <<Cmd(issued[p])>> \in Seq(Message)
    <3>1. issued[p] \in Command  BY <1>3, <2>3
    <3> QED  BY <3>1, MessageFacts, MessageSeqs
  <2>4. \A p \in Peer : Other(p) \in Peer  BY Peers
  <2>5. ASSUME NEW p \in Peer
        PROVE  (CASE refuses[p] -> <<>>
                  [] refuses[Other(p)] -> refusal[p]
                  [] issued[Other(p)] # None -> <<Cmd(issued[Other(p)])>>
                  [] OTHER -> <<>>) \in Seq(Message)
    BY <1>1, <2>2, <2>3, <2>4, MessageSeqs
  <2> QED  BY <2>1, <2>5
<1>6. /\ \A p \in Peer :
           /\ owed[p] # None => p = Acceptor /\ pc[p] \in {"ownAck", "wanted", "hello"}
           /\ pc[p] \in {"ack", "ownAck", "ackAfter"} => issued[p] # None
           /\ pc[p] \in {"loop"} \cup Deaf => issued[p] = None
      /\ PlacesOK
  <2>1. \A p \in Peer : pc[p] \in {"closing", "ack", "loop"}  BY DEF Init
  <2> QED  BY <1>1, <1>2, <2>1, Commands DEF PlacesOK
<1> QED  BY <1>1, <1>3, <1>4, <1>5, <1>6, Commands DEF TypeOK, Message

\* The ends of a connection are where the module says, and read and write what it
\* says: the loop, issueCommand and the handlers.
THEOREM PeerTypeCorrect == Spec => []TypeOK
<1>1. Init => TypeOK /\ PlacesOK  BY TypesInit
<1>2. (TypeOK /\ PlacesOK) /\ [Next]_vars => (TypeOK /\ PlacesOK)'  BY TypesStep
<1> QED  BY <1>1, <1>2, PTL DEF Spec

-----------------------------------------------------------------------------
(* An end that is not a peer takes no part *)

LEMMA ReceivesWhere ==
  ASSUME NEW p \in Peer, Receive(p)
  PROVE  pc[p] \in {"loop", "ack", "ownAck", "ackAfter"} \cup DataPlaces /\ inbox[p] # <<>>
<1>1. CASE ReadCommand(p)  BY <1>1 DEF ReadCommand
<1>2. CASE ReadAnswer(p)  BY <1>2 DEF ReadAnswer
<1>3. CASE ReadOwnAck(p)  BY <1>3 DEF ReadOwnAck
<1>4. CASE ReadData(p)  BY <1>4 DEF ReadData, DataPlaces
<1> QED  BY <1>1, <1>2, <1>3, <1>4 DEF Receive

\* A read moves nobody but its end.
LEMMA ReceiveMoves ==
  ASSUME TypeOK, PlacesOK, NEW p \in Peer, Receive(p)
  PROVE  /\ refuses' = refuses /\ stalled' = stalled /\ said' = said
         /\ \A x \in Peer \ {p} : pc'[x] = pc[x]
<1>1. ASSUME NEW h, NEW rest, NEW mine, Proceed(p, h, rest, mine)
      PROVE  refuses' = refuses /\ stalled' = stalled /\ \A x \in Peer \ {p} : pc'[x] = pc[x]
  <2>1. pc \in [Peer -> Waits \cup {"loop"} \cup Deaf]  BY Typed
  <2>2. UNCHANGED <<refuses, coming, stalled>> /\ \E at : pc' = [pc EXCEPT ![p] = at]
    BY <1>1 DEF Proceed
  <2> QED  BY <2>1, <2>2
<1>2. ASSUME NEW kind, GivenUp(p, kind)
      PROVE  /\ refuses' = refuses /\ stalled' = stalled /\ said' = said
             /\ \A x \in Peer \ {p} : pc'[x] = pc[x]
  <2>1. PICK rest, out : Step(p, "loop", None, None, rest, out, {})  BY <1>2 DEF GivenUp
  <2> QED  BY <2>1, Typed DEF Step, Moves
<1>3. ASSUME Spin(p) \/ \E kind : Ends(p, kind)
      PROVE  /\ refuses' = refuses /\ stalled' = stalled /\ said' = said
             /\ \A x \in Peer \ {p} : pc'[x] = pc[x]
  BY <1>3, Typed DEF Spin, Ends, End
<1>4. CASE ReadCommand(p)
  <2>1. CASE Served(p)  BY <1>1, <2>1 DEF Served
  <2> QED  BY <1>2, <1>3, <1>4, <2>1, ReadCommandIs
<1>5. CASE ReadAnswer(p)
  <2>1. CASE RanIssued(p)  BY <1>1, <2>1 DEF RanIssued, RunIssued
  <2>2. CASE Served(p)  BY <1>1, <2>2 DEF Served
  <2>3. CASE Postponed(p) \/ Misled(p)  BY <2>3, Typed DEF Postponed, Misled
  <2> QED  BY <1>2, <1>3, <1>5, <2>1, <2>2, <2>3, ReadAnswerIs
<1>6. CASE ReadOwnAck(p)
  <2>1. CASE RanIssued(p)  BY <1>1, <2>1 DEF RanIssued, RunIssued
  <2> QED  BY <1>2, <1>6, <2>1, ReadOwnAckIs
<1>7. CASE ReadData(p)
  <2>1. CASE Handled(p)  BY <1>1, <2>1 DEF Handled
  <2> QED  BY <1>2, <1>3, <1>7, <2>1, ReadDataIs
<1> QED  BY <1>4, <1>5, <1>6, <1>7 DEF Receive

LEMMA RefusersInit == Init => Refusers
BY DEF Init, Refusers

LEMMA RefusersStep ==
  ASSUME TypeOK, PlacesOK, Refusers, [Next]_vars
  PROVE  Refusers'
<1>1. ASSUME NEW p \in Peer, refuses' = refuses, \A x \in Peer \ {p} : pc'[x] = pc[x],
             pc[p] \notin Deaf \/ pc'[p] = "ended"
      PROVE  Refusers'
  <2> SUFFICES ASSUME NEW x \in Peer, refuses'[x]  PROVE pc'[x] \in Deaf
    BY DEF Refusers
  <2>1. pc[x] \in Deaf  BY <1>1 DEF Refusers
  <2> QED  BY <1>1, <2>1
<1>2. ASSUME NEW p \in Peer, Receive(p)  PROVE Refusers'
  <2>1. pc[p] \notin Deaf  BY <1>2, ReceivesWhere DEF DataPlaces
  <2> QED  BY <1>1, <1>2, <2>1, ReceiveMoves
<1>3. ASSUME NEW p \in Peer, IssueAny(p)  PROVE Refusers'
  BY <1>1, <1>3, Typed DEF IssueAny, Issue
<1>4. ASSUME NEW p \in Peer, Timeout(p)  PROVE Refusers'
  BY <1>1, <1>4, Typed DEF Timeout, TimedReads, Waits, Abandon
<1>5. ASSUME NEW p \in Peer, LoseByte(p)  PROVE Refusers'
  BY <1>5 DEF LoseByte, Refusers
<1>6. ASSUME NEW p \in Peer, Hangup(p)  PROVE Refusers'
  BY <1>1, <1>6, Typed DEF Hangup
<1>7. ASSUME NEW p \in Peer, Collect(p)  PROVE Refusers'
  BY <1>7 DEF Collect, Refusers
<1>8. CASE UNCHANGED vars  BY <1>8 DEF vars, Refusers
<1> QED  BY <1>2, <1>3, <1>4, <1>5, <1>6, <1>7, <1>8 DEF Next

-----------------------------------------------------------------------------
(* One step of an end, and what it does to the other *)

Reads(q) == pc[q] \notin Deaf /\ inbox[q] # <<Noise>>

Became(p, place, c, o, s) ==
    pc'[p] = place /\ issued'[p] = c /\ owed'[p] = o /\ inbox'[p] = s

\* The other end stays, with more to read.
Kept(q, m) ==
    /\ pc'[q] = pc[q] /\ issued'[q] = issued[q] /\ owed'[q] = owed[q]
    /\ inbox'[q] = inbox[q] \o m

Heard(p, pub) ==
    /\ heard'[p] = heard[p] \cup pub /\ heard'[Other(p)] = heard[Other(p)]
    /\ said' = said /\ refuses' = refuses /\ stalled' = stalled

LEMMA StepIs ==
  ASSUME TypeOK, NEW p \in Peer, NEW place, NEW c, NEW o, NEW rest \in Seq(Message),
         NEW out \in Seq(Message), NEW pub, Step(p, place, c, o, rest, out, pub)
  PROVE  /\ Became(p, place, c, o, rest) /\ Heard(p, pub)
         /\ Reads(Other(p)) \/ out = <<>> => Kept(Other(p), out)
         /\ ~Reads(Other(p)) => Kept(Other(p), <<>>)
<1>1. Other(p) \in Peer /\ Other(p) # p  BY Peers
<1>2. Moves(p, place, o, rest, out, pub) /\ issued' = [issued EXCEPT ![p] = c] /\ said' = said
  BY DEF Step
<1>3. Exchange(p, rest, out)  BY <1>2 DEF Moves
<1>4. /\ inbox'[p] = rest
      /\ inbox'[Other(p)] =
            IF pc[Other(p)] \in Deaf \/ inbox[Other(p)] = <<Noise>>
            THEN inbox[Other(p)] ELSE inbox[Other(p)] \o out
  BY <1>3, ExchangeIs
<1>5. inbox[Other(p)] \o <<>> = inbox[Other(p)]  BY <1>1, Typed, Joining
<1>6. /\ Reads(Other(p)) => inbox'[Other(p)] = inbox[Other(p)] \o out
      /\ ~Reads(Other(p)) => inbox'[Other(p)] = inbox[Other(p)] \o <<>>
      /\ out = <<>> => inbox'[Other(p)] = inbox[Other(p)] \o out
  BY <1>4, <1>5 DEF Reads
<1>7. /\ pc'[p] = place /\ issued'[p] = c /\ owed'[p] = o
      /\ pc'[Other(p)] = pc[Other(p)] /\ issued'[Other(p)] = issued[Other(p)]
      /\ owed'[Other(p)] = owed[Other(p)]
  BY <1>1, <1>2, Typed DEF Moves
<1>8. heard'[p] = heard[p] \cup pub /\ heard'[Other(p)] = heard[Other(p)]
  BY <1>1, <1>2, Typed DEF Moves
<1>9. refuses' = refuses /\ stalled' = stalled  BY <1>2 DEF Moves
<1> QED  BY <1>2, <1>4, <1>6, <1>7, <1>8, <1>9 DEF Became, Kept, Heard

\* The result of a handler, step and all.
StepsTo(p, h, mine, rest) ==
    \E place \in Waits \cup {"loop"} : \E o \in Owable \cup {None} :
       \E out \in Seq(Message) : \E pub \in SUBSET (Command \X Val) :
          Step(p, place, mine, o, rest, out, pub) /\ Outcome(p, h, mine, place, o, out, pub)

LEMMA ServedSteps ==
  ASSUME TypeOK, PlacesOK, NEW p \in Peer, inbox[p] # <<>>, pc[p] \in {"loop", "ack"}, Served(p)
  PROVE  \E c \in Command :
            /\ Head(inbox[p]) = Cmd(c) /\ owed[p] = None
            /\ StepsTo(p, Serve(p, c), issued[p], Tail(inbox[p]))
<1>1. PICK c \in Command :
         /\ Head(inbox[p]) = Cmd(c) /\ Proceed(p, Serve(p, c), Tail(inbox[p]), issued[p])
         /\ UNCHANGED <<issued, said>>
  BY DEF Served
<1>2. owed[p] = None  BY OwesWhere
<1>3. Serve(p, c) \in Handler  BY ServeFacts
<1>4. Tail(inbox[p]) \in Seq(Message)  BY LeftTyped
<1>5. issued' = [issued EXCEPT ![p] = issued[p]] /\ said' = said  BY <1>1, Typed
<1>6. StepsTo(p, Serve(p, c), issued[p], Tail(inbox[p]))
  BY <1>1, <1>2, <1>3, <1>4, <1>5, ProceedIs DEF StepsTo, Step
<1> QED  BY <1>1, <1>2, <1>6

LEMMA RanIssuedSteps ==
  ASSUME TypeOK, PlacesOK, NEW p \in Peer, inbox[p] # <<>>, issued[p] \in Command, RanIssued(p)
  PROVE  /\ Head(inbox[p]) = Ack(issued[p])
         /\ StepsTo(p, Write(p, issued[p]), None, Tail(inbox[p]))
<1>1. /\ issued' = [issued EXCEPT ![p] = None] /\ said' = said
      /\ Proceed(p, Write(p, issued[p]), Tail(inbox[p]), None)
      /\ Head(inbox[p]) = Ack(issued[p])
  BY DEF RanIssued, RunIssued
<1>2. Write(p, issued[p]) \in Handler  BY WriteTyped
<1>3. Tail(inbox[p]) \in Seq(Message)  BY LeftTyped
<1>4. StepsTo(p, Write(p, issued[p]), None, Tail(inbox[p]))
  BY <1>1, <1>2, <1>3, ProceedIs DEF StepsTo, Step
<1> QED  BY <1>1, <1>4

LEMMA HandledGoes ==
  ASSUME TypeOK, PlacesOK, NEW p \in Peer, inbox[p] # <<>>, pc[p] \in DataPlaces, Handled(p)
  PROVE  \E val \in Val, rest \in Lefts(p, DataKind(pc[p])) :
            \E h \in Received(p, pc[p], val) :
               /\ Head(inbox[p]) # Eof /\ (Clean(p, DataKind(pc[p])) => val = Head(inbox[p]).val)
               /\ h \in Handler /\ StepsTo(p, h, issued[p], rest)
<1>1. PICK val \in Val, rest \in Lefts(p, DataKind(pc[p])) :
         \E h \in Received(p, pc[p], val) :
            /\ Head(inbox[p]) # Eof
            /\ Clean(p, DataKind(pc[p])) => val = Head(inbox[p]).val
            /\ Proceed(p, h, rest, issued[p])
            /\ UNCHANGED <<issued, said>>
  BY DEF Handled
<1>2. PICK h \in Received(p, pc[p], val) :
         Proceed(p, h, rest, issued[p]) /\ UNCHANGED <<issued, said>>
  BY <1>1
<1>3. h \in Handler  BY ReceivedTyped
<1>4. rest \in Seq(Message)  BY LeftTyped
<1>5. issued' = [issued EXCEPT ![p] = issued[p]] /\ said' = said  BY <1>2, Typed
<1>6. owed[p] # None => issued[p] = None  BY OwesWhere DEF DataPlaces
<1>7. StepsTo(p, h, issued[p], rest)
  BY <1>2, <1>3, <1>4, <1>5, <1>6, ProceedIs DEF StepsTo, Step
<1> QED  BY <1>1, <1>3, <1>7

\* Of a message of the right kind.
LEMMA HandledSteps ==
  ASSUME TypeOK, PlacesOK, NEW p \in Peer, inbox[p] # <<>>, pc[p] \in DataPlaces, Handled(p),
         Clean(p, DataKind(pc[p]))
  PROVE  \E h \in Received(p, pc[p], Head(inbox[p]).val) :
            h \in Handler /\ StepsTo(p, h, issued[p], Tail(inbox[p]))
<1>1. PICK val \in Val, rest \in Lefts(p, DataKind(pc[p])) :
         \E h \in Received(p, pc[p], val) :
            /\ Head(inbox[p]) # Eof /\ (Clean(p, DataKind(pc[p])) => val = Head(inbox[p]).val)
            /\ h \in Handler /\ StepsTo(p, h, issued[p], rest)
  BY HandledGoes
<1>2. rest = Tail(inbox[p])  BY DEF Lefts
<1> QED  BY <1>1, <1>2

-----------------------------------------------------------------------------
(* Reads of what is waited for *)

Readable(p) ==
    /\ pc[p] \in {"loop", "ack"} =>
          \/ \E c \in Command : Head(inbox[p]) = Cmd(c)
          \/ pc[p] = "ack" /\ Head(inbox[p]) = Ack(issued[p])
    /\ pc[p] \in {"ownAck", "ackAfter"} => Head(inbox[p]) = Ack(issued[p])
    /\ pc[p] \in FinalReads => Head(inbox[p]) = Final(Other(p), pc[p])
    /\ pc[p] = "txId" => Head(inbox[p]) = Raw("txId", Other(p))
    /\ pc[p] = "wanted" => Head(inbox[p]) \in {Raw("wanted", "yes"), Raw("wanted", "no")}

LEMMA PlaceSets ==
  /\ FinalReads = {"addr", "addrs", "tx", "hello"}
  /\ DataPlaces = FinalReads \cup {"txId", "wanted"}
  /\ "loop" \notin DataPlaces /\ "ack" \notin DataPlaces /\ "ownAck" \notin DataPlaces
  /\ "ackAfter" \notin DataPlaces
BY DEF FinalReads, DataPlaces

\* A message of a handler is of the kind that is read.
LEMMA CleanData ==
  ASSUME TypeOK, NEW p \in Peer, pc[p] \in DataPlaces, Readable(p)
  PROVE  Clean(p, DataKind(pc[p])) /\ Head(inbox[p]).val # Garbage
<1>0. Other(p) \in Peer  BY Peers
<1>1. Eof.kind = "eof" /\ Garbage = <<"garbage", None>>  BY MessageFacts
<1>2. ASSUME pc[p] \in FinalReads  PROVE Clean(p, DataKind(pc[p])) /\ Head(inbox[p]).val # Garbage
  <2>1. Head(inbox[p]) = Final(Other(p), pc[p])  BY <1>2 DEF Readable
  <2>2. /\ Final(Other(p), pc[p]).val = <<pc[p], Other(p)>>
        /\ Final(Other(p), pc[p]).kind = DataKind(pc[p])
    BY <1>0, <1>2, FinalFacts DEF DataKind
  <2>3. Head(inbox[p]).kind = DataKind(pc[p]) /\ Head(inbox[p]).val = <<pc[p], Other(p)>>
    BY <2>1, <2>2
  <2>4. pc[p] # "garbage" /\ DataKind(pc[p]) # "eof"  BY <1>2 DEF FinalReads, DataKind
  <2>5. Head(inbox[p]) # Eof  BY <1>1, <2>3, <2>4
  <2>6. Head(inbox[p]).val # Garbage  BY <1>1, <2>3, <2>4
  <2> QED  BY <2>3, <2>5, <2>6 DEF Clean
<1>3. CASE pc[p] = "txId"
  <2>1. Head(inbox[p]) = Raw("txId", Other(p))  BY <1>3 DEF Readable
  <2>2. Head(inbox[p]).kind = "txId" /\ Head(inbox[p]).val = <<"txId", Other(p)>>
    BY <1>0, <2>1, MessageFacts
  <2>3. DataKind(pc[p]) = "txId" /\ <<"txId", Other(p)>> # Garbage
    BY <1>3 DEF DataKind, Garbage
  <2> QED  BY <1>1, <2>2, <2>3 DEF Clean
<1>4. CASE pc[p] = "wanted"
  <2>1. PICK y \in {"yes", "no"} : Head(inbox[p]) = Raw("wanted", y)  BY <1>4 DEF Readable
  <2>2. Head(inbox[p]).kind = "wanted" /\ Head(inbox[p]).val = <<"wanted", y>>
    BY <2>1, MessageFacts
  <2>3. DataKind(pc[p]) = "wanted" /\ <<"wanted", y>> # Garbage
    BY <1>4 DEF DataKind, Garbage
  <2> QED  BY <1>1, <2>2, <2>3 DEF Clean
<1> QED  BY <1>2, <1>3, <1>4, PlaceSets

\* Then no read fails, and nothing is passed over.
LEMMA CleanReceive ==
  ASSUME TypeOK, PlacesOK, NEW p \in Peer, Receive(p), Readable(p)
  PROVE  /\ inbox[p] # <<>>
         /\ \/ pc[p] \in {"loop", "ack"} /\ (pc[p] = "ack" => p = Initiator) /\ Served(p)
            \/ pc[p] = "ack" /\ p = Acceptor /\ Postponed(p)
            \/ /\ pc[p] \in {"ack", "ownAck", "ackAfter"} /\ issued[p] \in Command
               /\ RanIssued(p)
            \/ pc[p] \in DataPlaces /\ Handled(p) /\ Clean(p, DataKind(pc[p]))
<1>0. inbox[p] # <<>>  BY ReceivesWhere
<1>1. CASE ReadCommand(p)
  <2>1. pc[p] = "loop" /\ \E c \in Command : Head(inbox[p]) = Cmd(c)
    BY <1>1, ReadCommandIs DEF Readable
  <2>2. Served(p)  BY <1>1, <2>1, ReadCommandIs
  <2> QED  BY <1>0, <2>1, <2>2
<1>2. CASE ReadAnswer(p)
  <2>1. pc[p] = "ack" /\ issued[p] \in Command  BY <1>2, ReadAnswerIs
  <2>2. (\E c \in Command : Head(inbox[p]) = Cmd(c)) \/ Head(inbox[p]) = Ack(issued[p])
    BY <2>1 DEF Readable
  <2>3. Head(inbox[p]) # Cmd("close")
    <3>1. \A c \in Command \cup {"close"} : Cmd(c).val = <<"cmd", c>>  BY MessageFacts
    <3>2. \A c \in Command : Ack(c).val = <<"ack", c>>  BY MessageFacts
    <3>3. CASE \E c \in Command : Head(inbox[p]) = Cmd(c)  BY <3>1, <3>3, Commands
    <3>4. CASE Head(inbox[p]) = Ack(issued[p])  BY <2>1, <3>1, <3>2, <3>4
    <3> QED  BY <2>2, <3>3, <3>4
  <2>4. ~Misled(p)
    <3>1. /\ \A c \in Command : Cmd(c).kind = "string" /\ Ack(c).kind = "string"
          /\ Eof.kind # "string"
      BY MessageFacts
    <3>2. Clean(p, "string")  BY <2>1, <2>2, <3>1 DEF Clean
    <3> QED  BY <3>2 DEF Misled
  <2> QED  BY <1>0, <1>2, <2>1, <2>2, <2>3, <2>4, ReadAnswerIs
<1>3. CASE ReadOwnAck(p)
  <2>1. pc[p] \in {"ownAck", "ackAfter"} /\ issued[p] \in Command  BY <1>3, ReadOwnAckIs
  <2>2. Head(inbox[p]) = Ack(issued[p])  BY <2>1 DEF Readable
  <2> QED  BY <1>0, <1>3, <2>1, <2>2, ReadOwnAckIs
<1>4. CASE ReadData(p)
  <2>1. pc[p] \in DataPlaces  BY <1>4, ReadDataIs
  <2> QED  BY <1>0, <1>4, <2>1, ReadDataIs, CleanData
<1> QED  BY <1>1, <1>2, <1>3, <1>4 DEF Receive

\* Where a handler's result leads.
LEMMA StepsToIs ==
  ASSUME TypeOK, NEW p \in Peer, NEW h, NEW mine, NEW rest, StepsTo(p, h, mine, rest)
  PROVE  /\ h.at # "loop" => Step(p, h.at, mine, owed[p], rest, h.out, h.pub)
         /\ h.at = "loop" /\ owed[p] = None =>
               Step(p, IF mine = None THEN "loop" ELSE "ackAfter", mine, None, rest,
                    h.out, h.pub)
         /\ h.at = "loop" /\ owed[p] # None =>
               Step(p, Serve(p, owed[p]).at, mine, None, rest,
                    h.out \o Answer(p, owed[p]), h.pub \cup Serve(p, owed[p]).pub)
<1>1. PICK place \in Waits \cup {"loop"} : \E o \in Owable \cup {None} :
         \E out \in Seq(Message) : \E pub \in SUBSET (Command \X Val) :
            Step(p, place, mine, o, rest, out, pub) /\ Outcome(p, h, mine, place, o, out, pub)
  BY DEF StepsTo
<1>2. PICK o \in Owable \cup {None}, out \in Seq(Message), pub \in SUBSET (Command \X Val) :
         Step(p, place, mine, o, rest, out, pub) /\ Outcome(p, h, mine, place, o, out, pub)
  BY <1>1
<1>3. CASE h.at # "loop" /\ place = h.at /\ o = owed[p] /\ out = h.out /\ pub = h.pub
  BY <1>2, <1>3
<1>4. CASE /\ h.at = "loop" /\ owed[p] = None /\ o = None /\ out = h.out /\ pub = h.pub
           /\ place = IF mine = None THEN "loop" ELSE "ackAfter"
  BY <1>2, <1>4
<1>5. CASE /\ h.at = "loop" /\ owed[p] \in Owable /\ o = None
           /\ place = Serve(p, owed[p]).at
           /\ out = h.out \o Answer(p, owed[p]) /\ pub = h.pub \cup Serve(p, owed[p]).pub
  BY <1>2, <1>5, Commands DEF Owable
<1> QED  BY <1>2, <1>3, <1>4, <1>5 DEF Outcome

LEMMA HandlersAre ==
  ASSUME NEW p \in Peer, NEW place \in Waits \cup {"loop"}, NEW out \in Seq(Message)
  PROVE  /\ Then(place, out).at = place /\ Then(place, out).out = out
         /\ Then(place, out).pub = {}
         /\ \A d : Publish(d).at = "loop" /\ Publish(d).out = <<>> /\ Publish(d).pub = {d}
BY DEF Then, Publish

\* The handlers of a last message: back to the loop, with the message published.
LEMMA FinalHandlers ==
  ASSUME NEW p \in Peer, NEW place \in FinalReads, NEW val, NEW h \in Received(p, place, val)
  PROVE  /\ h.at = "loop" /\ h.out = <<>>
         /\ place = "addr" => h.pub = {<<"announce-addr", val>>}
         /\ place = "addrs" => h.pub = {<<"peer-addrs", val>>}
         /\ place = "tx" => h.pub = {<<"new-tx", val>>}
         /\ place = "hello" => h.pub = {}
<1>1. CASE place = "addr"  BY <1>1 DEF Received, Publish
<1>2. CASE place = "addrs"  BY <1>2 DEF Received, Publish
<1>3. CASE place = "tx"  BY <1>3 DEF Received, Publish
<1>4. CASE place = "hello"  BY <1>4 DEF Received, Then
<1> QED  BY <1>1, <1>2, <1>3, <1>4 DEF FinalReads

LEMMA WantedHandlers ==
  ASSUME NEW p \in Peer, NEW val, NEW h \in Received(p, "wanted", val)
  PROVE  /\ h.at = "loop" /\ h.pub = {} /\ h.out \in {<<>>, <<Raw("tx", p)>>}
         /\ val # Garbage /\ val[2] = "yes" => h.out = <<Raw("tx", p)>>
         /\ val # Garbage /\ val[2] # "yes" => h.out = <<>>
<1>1. PICK yes \in IF val = Garbage THEN BOOLEAN ELSE {val[2] = "yes"} :
         h = Then("loop", IF yes THEN <<Raw("tx", p)>> ELSE <<>>)
  BY DEF Received
<1>2. h.at = "loop" /\ h.pub = {} /\ h.out = IF yes THEN <<Raw("tx", p)>> ELSE <<>>
  BY <1>1 DEF Then
<1>3. val # Garbage => yes = (val[2] = "yes")  BY <1>1
<1> QED  BY <1>2, <1>3

LEMMA IdHandlers ==
  ASSUME NEW p \in Peer, NEW val, NEW h \in Received(p, "txId", val)
  PROVE  /\ h.pub = {}
         /\ \/ h.at = "loop" /\ h.out = <<Raw("wanted", "no")>>
            \/ h.at = "tx" /\ h.out = <<Raw("wanted", "yes")>>
BY DEF Received, Then

-----------------------------------------------------------------------------
(* The joint places: the parts *)

LEMMA StepKeeps ==
  ASSUME TypeOK, NEW p \in Peer, NEW place, NEW c, NEW o, NEW rest \in Seq(Message),
         NEW out \in Seq(Message), NEW pub, Step(p, place, c, o, rest, out, pub),
         Reads(Other(p)) \/ out = <<>>
  PROVE  Kept(Other(p), out) /\ Became(p, place, c, o, rest)
<1>1. Became(p, place, c, o, rest)  BY StepIs
<1>2. Reads(Other(p)) \/ out = <<>> => Kept(Other(p), out)  BY StepIs
<1> QED  BY <1>1, <1>2

LEMMA KeptPlaces ==
  ASSUME TypeOK, NEW q \in Peer, NEW m \in Seq(Message), Kept(q, m)
  PROVE  /\ \A place, c, o, s : At(q, place, c, o, s) => At(q, place, c, o, s \o m)'
         /\ \A t \in Seq(Message) : Behind(q, t) => Behind(q, t \o m)'
         /\ \A t \in Seq(Message) : Finishing(q, t) => Finishing(q, t \o m)'
<1>0. Other(q) \in Peer  BY Peers
<1>1. \A place, c, o, s : At(q, place, c, o, s) => At(q, place, c, o, s \o m)'
  BY DEF At, Kept
<1>2. \A x \in FinalReads : \A t \in Seq(Message) :
         (<<Final(Other(q), x)>> \o t) \o m = <<Final(Other(q), x)>> \o (t \o m)
  <2> SUFFICES ASSUME NEW x \in FinalReads, NEW t \in Seq(Message)
               PROVE  (<<Final(Other(q), x)>> \o t) \o m = <<Final(Other(q), x)>> \o (t \o m)
    OBVIOUS
  <2>1. <<Final(Other(q), x)>> \in Seq(Message)  BY <1>0, FinalFacts, MessageSeqs
  <2> QED  BY <2>1, Joining
<1>3. ASSUME NEW t \in Seq(Message), Behind(q, t)  PROVE Behind(q, t \o m)'
  BY <1>2, <1>3 DEF Behind, Kept
<1>4. ASSUME NEW t \in Seq(Message), Finishing(q, t)  PROVE Finishing(q, t \o m)'
  <2>1. CASE issued[q] = None
    <3>1. Raw("wanted", "no") \in Message /\ <<Raw("wanted", "no")>> \in Seq(Message)
      BY MessageFacts, MessageSeqs
    <3>2. (<<Raw("wanted", "no")>> \o t) \o m = <<Raw("wanted", "no")>> \o (t \o m)
      BY <3>1, Joining
    <3> QED  BY <1>2, <1>4, <2>1, <3>2 DEF Finishing, Kept, None
  <2>2. CASE issued[q] = "addrs-request" /\ Behind(q, <<Ack("addrs-request")>> \o t)
    <3>1. /\ Ack("addrs-request") \in Message /\ <<Ack("addrs-request")>> \in Seq(Message)
      BY MessageFacts, MessageSeqs, Commands
    <3>2. (<<Ack("addrs-request")>> \o t) \o m = <<Ack("addrs-request")>> \o (t \o m)
      BY <3>1, Joining
    <3>3. <<Ack("addrs-request")>> \o t \in Seq(Message)  BY <3>1, Joining
    <3>4. Behind(q, <<Ack("addrs-request")>> \o (t \o m))'  BY <1>3, <2>2, <3>2, <3>3
    <3> QED  BY <2>2, <3>4 DEF Finishing, Kept
  <2> QED  BY <1>4, <2>1, <2>2 DEF Finishing
<1> QED  BY <1>1, <1>3, <1>4

\* A last message is read.
LEMMA BehindReceives ==
  ASSUME TypeOK, PlacesOK, NEW p \in Peer, NEW t \in Seq(Message), NEW c \in Command,
         Behind(p, t), issued[p] = c, pc[p] \in FinalReads, Receive(p)
  PROVE  Behind(p, t)' /\ issued'[p] = c /\ Kept(Other(p), <<>>)
<1>1. /\ p = Initiator /\ inbox[p] = <<Final(Other(p), pc[p])>> \o t /\ owed[p] = None
      /\ Final(Other(p), pc[p]) \in Message
  BY Peers, FinalFacts, PlaceSets DEF Behind
<1>2. inbox[p] # <<>> /\ Head(inbox[p]) = Final(Other(p), pc[p]) /\ Tail(inbox[p]) = t
  BY <1>1, HeadTail
<1>3. Readable(p)  BY <1>2, PlaceSets DEF Readable, FinalReads
<1>4. Handled(p) /\ Clean(p, DataKind(pc[p]))  BY <1>3, CleanReceive DEF FinalReads
<1>5. PICK h \in Received(p, pc[p], Head(inbox[p]).val) : StepsTo(p, h, issued[p], t)
  BY <1>2, <1>4, HandledSteps, PlaceSets
<1>6. h.at = "loop" /\ h.out = <<>>  BY FinalHandlers
<1>7. c # None  BY Commands
<1>8. Step(p, "ackAfter", c, None, t, <<>>, h.pub)  BY <1>1, <1>5, <1>6, <1>7, StepsToIs
<1>9. Kept(Other(p), <<>>) /\ Became(p, "ackAfter", c, None, t)
  BY <1>8, StepKeeps, MessageSeqs
<1> QED  BY <1>1, <1>9 DEF Behind, Became

\* An end that comes to its loop with no message sent gets nearer.
LEMMA FinishingReceives ==
  ASSUME TypeOK, PlacesOK, NEW p \in Peer, NEW t \in Seq(Message), Finishing(p, t),
         pc[p] # "loop", Receive(p)
  PROVE  Finishing(p, t)' /\ Kept(Other(p), <<>>)
<1>0. Other(p) \in Peer  BY Peers
<1>1. CASE /\ issued[p] = None /\ owed[p] = None /\ pc[p] \in FinalReads
           /\ inbox[p] = <<Final(Other(p), pc[p])>> \o t
  <2>1. Final(Other(p), pc[p]) \in Message  BY <1>0, <1>1, FinalFacts
  <2>2. inbox[p] # <<>> /\ Head(inbox[p]) = Final(Other(p), pc[p]) /\ Tail(inbox[p]) = t
    BY <1>1, <2>1, HeadTail
  <2>3. Readable(p)  BY <1>1, <2>2, PlaceSets DEF Readable, FinalReads
  <2>4. Handled(p) /\ Clean(p, DataKind(pc[p]))  BY <1>1, <2>3, CleanReceive DEF FinalReads
  <2>5. PICK h \in Received(p, pc[p], Head(inbox[p]).val) : StepsTo(p, h, issued[p], t)
    BY <1>1, <2>2, <2>4, HandledSteps, PlaceSets
  <2>6. h.at = "loop" /\ h.out = <<>>
    <3>1. pc[p] \in FinalReads  BY <1>1
    <3> QED  BY <3>1, FinalHandlers
  <2>7. Step(p, "loop", None, None, t, <<>>, h.pub)  BY <1>1, <2>5, <2>6, StepsToIs
  <2>8. Kept(Other(p), <<>>) /\ Became(p, "loop", None, None, t)
    BY <2>7, StepKeeps, MessageSeqs
  <2> QED  BY <2>8 DEF Finishing, Became
<1>2. CASE /\ issued[p] = None /\ owed[p] = None /\ pc[p] = "wanted"
           /\ inbox[p] = <<Raw("wanted", "no")>> \o t
  <2>1. Raw("wanted", "no") \in Message /\ Raw("wanted", "no").val = <<"wanted", "no">>
    BY MessageFacts
  <2>2. inbox[p] # <<>> /\ Head(inbox[p]) = Raw("wanted", "no") /\ Tail(inbox[p]) = t
    BY <1>2, <2>1, HeadTail
  <2>3. Readable(p)  BY <1>2, <2>2, PlaceSets DEF Readable, FinalReads
  <2>4. Handled(p) /\ Clean(p, DataKind(pc[p])) /\ pc[p] \in DataPlaces
    BY <1>2, <2>3, CleanReceive DEF DataPlaces
  <2>5. PICK h \in Received(p, "wanted", Head(inbox[p]).val) : StepsTo(p, h, issued[p], t)
    BY <1>2, <2>2, <2>4, HandledSteps
  <2>6. h.at = "loop" /\ h.out = <<>>
    <3>1. Head(inbox[p]).val[2] # "yes"  BY <2>1, <2>2
    <3> QED  BY <2>1, <2>2, <3>1, WantedHandlers DEF Garbage
  <2>7. Step(p, "loop", None, None, t, <<>>, h.pub)  BY <1>2, <2>5, <2>6, StepsToIs
  <2>8. Kept(Other(p), <<>>) /\ Became(p, "loop", None, None, t)
    BY <2>7, StepKeeps, MessageSeqs
  <2> QED  BY <2>8 DEF Finishing, Became
<1>3. CASE issued[p] = "addrs-request" /\ Behind(p, <<Ack("addrs-request")>> \o t)
  <2>1. Ack("addrs-request") \in Message  BY MessageFacts, Commands
  <2>2. <<Ack("addrs-request")>> \o t \in Seq(Message)  BY <2>1, HeadTail
  <2>3. CASE pc[p] \in FinalReads
    <3>1. "addrs-request" \in Command  BY Commands
    <3> QED  BY <1>3, <2>2, <2>3, <3>1, BehindReceives DEF Finishing
  <2>4. CASE pc[p] \notin FinalReads
    <3>1. /\ pc[p] \in {"ack", "ackAfter"} /\ inbox[p] = <<Ack("addrs-request")>> \o t
          /\ owed[p] = None
      BY <1>3, <2>4 DEF Behind
    <3>2. inbox[p] # <<>> /\ Head(inbox[p]) = Ack("addrs-request") /\ Tail(inbox[p]) = t
      BY <2>1, <3>1, HeadTail
    <3>3. Readable(p)  BY <1>3, <3>1, <3>2, PlaceSets DEF Readable, FinalReads
    <3>4. \A c \in Command : Head(inbox[p]) # Cmd(c)
      <4>1. Ack("addrs-request").val = <<"ack", "addrs-request">>  BY MessageFacts, Commands
      <4>2. \A c \in Command : Cmd(c).val = <<"cmd", c>>  BY MessageFacts
      <4> QED  BY <3>2, <4>1, <4>2
    <3>5. RanIssued(p)
      BY <3>1, <3>3, <3>4, CleanReceive DEF Served, Postponed, DataPlaces
    <3>6. StepsTo(p, Write(p, "addrs-request"), None, t)
      BY <1>3, <3>2, <3>5, RanIssuedSteps, Commands
    <3>7. Write(p, "addrs-request").at = "loop" /\ Write(p, "addrs-request").out = <<>>
      BY WriteIs DEF Then
    <3>8. Step(p, "loop", None, None, t, <<>>, Write(p, "addrs-request").pub)
      BY <3>1, <3>6, <3>7, StepsToIs
    <3>9. Kept(Other(p), <<>>) /\ Became(p, "loop", None, None, t)
      BY <3>8, StepKeeps, MessageSeqs
    <3> QED  BY <3>9 DEF Finishing, Became
  <2> QED  BY <2>3, <2>4
<1> QED  BY <1>1, <1>2, <1>3 DEF Finishing

-----------------------------------------------------------------------------
(* The joint places: commands and their answers *)

LEMMA CmdIs ==
  /\ \A c, d \in Command : Cmd(c) = Cmd(d) => c = d
  /\ \A c, d \in Command : Cmd(c) # Ack(d)
  /\ \A c, d \in Command : Ack(c) = Ack(d) => c = d
<1>1. /\ \A c \in Command : Cmd(c).val = <<"cmd", c>>
      /\ \A c \in Command : Ack(c).val = <<"ack", c>>
  BY MessageFacts
<1>2. ASSUME NEW c \in Command, NEW d \in Command, Cmd(c) = Cmd(d)  PROVE c = d
  <2>1. <<"cmd", c>> = <<"cmd", d>>  BY <1>1, <1>2
  <2> QED  BY <2>1
<1>3. ASSUME NEW c \in Command, NEW d \in Command, Ack(c) = Ack(d)  PROVE c = d
  <2>1. <<"ack", c>> = <<"ack", d>>  BY <1>1, <1>3
  <2> QED  BY <2>1
<1>4. ASSUME NEW c \in Command, NEW d \in Command, Cmd(c) = Ack(d)  PROVE FALSE
  <2>1. <<"cmd", c>> = <<"ack", d>>  BY <1>1, <1>4
  <2> QED  BY <2>1
<1> QED  BY <1>2, <1>3, <1>4

LEMMA AnswerIs ==
  ASSUME NEW q \in Peer, NEW c \in Command
  PROVE  /\ Answer(q, c) \in Seq(Message) /\ Answer(q, c) # <<>>
         /\ Head(Answer(q, c)) = Ack(c)
         /\ Answer(q, "addrs-request") = <<Ack("addrs-request")>>
         /\ c = "sync-chain" => Tail(Answer(q, c)) = <<Final(q, "hello")>>
         /\ c # "sync-chain" => Tail(Answer(q, c)) = <<>>
<1>1. Ack(c) \in Message /\ Final(q, "hello") \in Message
  BY MessageFacts, FinalFacts, PlaceSets
<1>4. Answer(q, "addrs-request") = <<Ack("addrs-request")>>  BY Commands, ServeFacts
<1>2. CASE c = "sync-chain"
  <2>1. Answer(q, c) = <<Ack(c), Final(q, "hello")>>  BY <1>2, ServeFacts
  <2>2. /\ <<Ack(c), Final(q, "hello")>> \in Seq(Message)
        /\ <<Ack(c), Final(q, "hello")>> # <<>>
        /\ Head(<<Ack(c), Final(q, "hello")>>) = Ack(c)
        /\ Tail(<<Ack(c), Final(q, "hello")>>) = <<Final(q, "hello")>>
    BY <1>1
  <2> QED  BY <1>2, <1>4, <2>1, <2>2
<1>3. CASE c # "sync-chain"
  <2>1. Answer(q, c) = <<Ack(c)>>  BY <1>3, ServeFacts
  <2> QED  BY <1>1, <1>3, <1>4, <2>1, HeadTail
<1> QED  BY <1>2, <1>3

LEMMA AnswerOwed ==
  ASSUME NEW q \in Peer, NEW c \in Owable
  PROVE  Answer(q, c) \in Seq(Message)
<1>1. Serve(q, c) \in Handler /\ Answer(q, c) = Serve(q, c).out  BY ServeOwable
<1> QED  BY <1>1 DEF Handler

\* A command is served, or waits until the end's own is done.
LEMMA CmdServed ==
  ASSUME TypeOK, PlacesOK, NEW p \in Peer, NEW c \in Command, Head(inbox[p]) = Cmd(c),
         pc[p] = "loop" \/ (pc[p] = "ack" /\ p = Initiator), Receive(p)
  PROVE  owed[p] = None /\ StepsTo(p, Serve(p, c), issued[p], Tail(inbox[p]))
<1>1. Readable(p) /\ pc[p] \notin DataPlaces  BY PlaceSets DEF Readable, FinalReads
<1>2. inbox[p] # <<>> /\ pc[p] \in {"loop", "ack"}  BY ReceivesWhere
<1>3. ~RanIssued(p) \/ issued[p] \notin Command  BY CmdIs DEF RanIssued
<1>4. Served(p)  BY <1>1, <1>3, CleanReceive, Peers
<1>5. PICK d \in Command :
         /\ Head(inbox[p]) = Cmd(d) /\ owed[p] = None
         /\ StepsTo(p, Serve(p, d), issued[p], Tail(inbox[p]))
  BY <1>2, <1>4, ServedSteps
<1>6. d = c  BY <1>5, CmdIs
<1> QED  BY <1>5, <1>6

LEMMA CmdPostponed ==
  ASSUME TypeOK, PlacesOK, NEW p \in Peer, NEW c \in Command, Head(inbox[p]) = Cmd(c),
         pc[p] = "ack", p = Acceptor, Receive(p)
  PROVE  Became(p, "ownAck", issued[p], c, Tail(inbox[p])) /\ Kept(Other(p), <<>>)
<1>1. Readable(p) /\ pc[p] \notin DataPlaces  BY PlaceSets DEF Readable, FinalReads
<1>2. inbox[p] # <<>> /\ inbox[Other(p)] \in Seq(Message) /\ Other(p) # p /\ Other(p) \in Peer
  BY ReceivesWhere, Peers, Typed
<1>3. ~RanIssued(p) \/ issued[p] \notin Command  BY CmdIs DEF RanIssued
<1>4. Postponed(p)  BY <1>1, <1>3, CleanReceive, Peers
<1>5. PICK d \in Command :
         /\ Head(inbox[p]) = Cmd(d) /\ owed' = [owed EXCEPT ![p] = d]
         /\ pc' = [pc EXCEPT ![p] = "ownAck"]
         /\ inbox' = [inbox EXCEPT ![p] = Tail(inbox[p])]
         /\ UNCHANGED <<refuses, coming, issued, heard, said, stalled>>
  BY <1>4 DEF Postponed
<1>6. d = c  BY <1>5, CmdIs
<1>7. Became(p, "ownAck", issued[p], c, Tail(inbox[p]))
  BY <1>5, <1>6, Typed DEF Became
<1>8. inbox[Other(p)] \o <<>> = inbox[Other(p)]  BY <1>2, Joining
<1>9. Kept(Other(p), <<>>)  BY <1>2, <1>5, <1>8, Typed DEF Kept
<1> QED  BY <1>7, <1>9

\* The acknowledgement of its own command is read.
LEMMA AckRuns ==
  ASSUME TypeOK, PlacesOK, NEW p \in Peer, NEW c \in Command, issued[p] = c,
         Head(inbox[p]) = Ack(c), pc[p] \in {"ack", "ownAck", "ackAfter"}, Receive(p)
  PROVE  StepsTo(p, Write(p, c), None, Tail(inbox[p]))
<1>1. Readable(p) /\ pc[p] \notin DataPlaces  BY PlaceSets DEF Readable, FinalReads
<1>2. inbox[p] # <<>>  BY ReceivesWhere
<1>3. ~Served(p) /\ ~Postponed(p)  BY CmdIs DEF Served, Postponed
<1>4. RanIssued(p)  BY <1>1, <1>3, CleanReceive
<1> QED  BY <1>2, <1>4, RanIssuedSteps

LEMMA ServeSteps ==
  ASSUME TypeOK, NEW p \in Peer, NEW c \in Command, NEW mine \in Command \cup {None}, NEW rest,
         owed[p] = None, StepsTo(p, Serve(p, c), mine, rest)
  PROVE  \E pub : Step(p, IF c # "addrs-request" THEN Serve(p, c).at
                          ELSE IF mine = None THEN "loop" ELSE "ackAfter",
                       mine, None, rest, Answer(p, c), pub)
<1>1. /\ Serve(p, c).at = "loop" <=> c = "addrs-request"
      /\ Answer(p, c) = Serve(p, c).out
  BY ServeFacts
<1>2. CASE c = "addrs-request"
  <2>1. Step(p, IF mine = None THEN "loop" ELSE "ackAfter", mine, None, rest,
             Serve(p, c).out, Serve(p, c).pub)
    BY <1>1, <1>2, StepsToIs
  <2> QED  BY <1>1, <1>2, <2>1
<1>3. CASE c # "addrs-request"
  <2>1. Step(p, Serve(p, c).at, mine, None, rest, Serve(p, c).out, Serve(p, c).pub)
    BY <1>1, <1>3, StepsToIs
  <2> QED  BY <1>1, <1>3, <2>1
<1> QED  BY <1>2, <1>3

\* The write handlers, of an end that owes nothing.
LEMMA WriteSteps ==
  ASSUME TypeOK, NEW p \in Peer, NEW c \in Command, NEW rest, owed[p] = None,
         StepsTo(p, Write(p, c), None, rest)
  PROVE  /\ c = "addrs-request" => Step(p, "loop", None, None, rest, <<>>, {})
         /\ c = "peer-addrs" => Step(p, "loop", None, None, rest, <<Final(p, "addrs")>>, {})
         /\ c = "announce-addr" => Step(p, "loop", None, None, rest, <<Final(p, "addr")>>, {})
         /\ c = "new-tx" => Step(p, "wanted", None, None, rest, <<Raw("txId", p)>>, {})
         /\ c = "sync-chain" => Step(p, "hello", None, None, rest, <<Final(p, "hello")>>, {})
<1>1. \A place, out :
         /\ Then(place, out).at = place /\ Then(place, out).out = out
         /\ Then(place, out).pub = {}
  BY DEF Then
<1>2. ASSUME NEW out, Write(p, c) = Then("loop", out)
      PROVE  Step(p, "loop", None, None, rest, out, {})
  <2>1. Write(p, c).at = "loop" /\ Write(p, c).out = out /\ Write(p, c).pub = {}
    BY <1>1, <1>2
  <2> QED  BY <2>1, StepsToIs
<1>3. ASSUME NEW place, place # "loop", NEW out, Write(p, c) = Then(place, out)
      PROVE  Step(p, place, None, None, rest, out, {})
  <2>1. Write(p, c).at = place /\ Write(p, c).out = out /\ Write(p, c).pub = {}
    BY <1>1, <1>3
  <2> QED  BY <1>3, <2>1, StepsToIs
<1>4. CASE c = "addrs-request"  BY <1>2, <1>4, WriteIs
<1>5. CASE c = "peer-addrs"  BY <1>2, <1>5, WriteIs
<1>6. CASE c = "announce-addr"  BY <1>2, <1>6, WriteIs
<1>7. CASE c = "new-tx"  BY <1>3, <1>7, WriteIs
<1>8. CASE c = "sync-chain"  BY <1>3, <1>8, WriteIs
<1> QED  BY <1>4, <1>5, <1>6, <1>7, <1>8, Commands

\* And of one that owes the other's command.
LEMMA OwingSteps ==
  ASSUME TypeOK, NEW p \in Peer, NEW c \in Command, NEW o \in Owable, NEW rest, owed[p] = o,
         StepsTo(p, Write(p, c), None, rest)
  PROVE  /\ c = "addrs-request" => \E pub :
               Step(p, Serve(p, o).at, None, None, rest, <<>> \o Answer(p, o), pub)
         /\ c = "peer-addrs" => \E pub :
               Step(p, Serve(p, o).at, None, None, rest, <<Final(p, "addrs")>> \o Answer(p, o), pub)
         /\ c = "announce-addr" => \E pub :
               Step(p, Serve(p, o).at, None, None, rest, <<Final(p, "addr")>> \o Answer(p, o), pub)
         /\ c = "new-tx" => Step(p, "wanted", None, o, rest, <<Raw("txId", p)>>, {})
         /\ c = "sync-chain" => Step(p, "hello", None, o, rest, <<Final(p, "hello")>>, {})
<1>0. o # None  BY Commands DEF Owable
<1>1. \A place, out :
         /\ Then(place, out).at = place /\ Then(place, out).out = out
         /\ Then(place, out).pub = {}
  BY DEF Then
<1>2. ASSUME NEW out, Write(p, c) = Then("loop", out)
      PROVE  \E pub : Step(p, Serve(p, o).at, None, None, rest, out \o Answer(p, o), pub)
  <2>1. Write(p, c).at = "loop" /\ Write(p, c).out = out /\ Write(p, c).pub = {}
    BY <1>1, <1>2
  <2>2. Step(p, Serve(p, o).at, None, None, rest, Write(p, c).out \o Answer(p, o),
             Write(p, c).pub \cup Serve(p, o).pub)
    BY <1>0, <2>1, StepsToIs
  <2> QED  BY <2>1, <2>2
<1>3. ASSUME NEW place, place # "loop", NEW out, Write(p, c) = Then(place, out)
      PROVE  Step(p, place, None, o, rest, out, {})
  <2>1. Write(p, c).at = place /\ Write(p, c).out = out /\ Write(p, c).pub = {}
    BY <1>1, <1>3
  <2> QED  BY <1>3, <2>1, StepsToIs
<1>4. CASE c = "addrs-request"  BY <1>2, <1>4, WriteIs
<1>5. CASE c = "peer-addrs"  BY <1>2, <1>5, WriteIs
<1>6. CASE c = "announce-addr"  BY <1>2, <1>6, WriteIs
<1>7. CASE c = "new-tx"  BY <1>3, <1>7, WriteIs
<1>8. CASE c = "sync-chain"  BY <1>3, <1>8, WriteIs
<1> QED  BY <1>4, <1>5, <1>6, <1>7, <1>8, Commands

-----------------------------------------------------------------------------
(* The joint places: each is left for another *)

LEMMA KeptEmpty ==
  ASSUME NEW q, NEW m \in Seq(Message), Kept(q, m), NEW place, NEW c, NEW o,
         At(q, place, c, o, <<>>)
  PROVE  At(q, place, c, o, m)'
<1>1. <<>> \o m = m  BY Joining
<1> QED  BY <1>1 DEF At, Kept

LEMMA KeptSame ==
  ASSUME TypeOK, NEW q \in Peer, Kept(q, <<>>), NEW place, NEW c, NEW o, NEW s,
         At(q, place, c, o, s)
  PROVE  At(q, place, c, o, s)'
<1>1. inbox[q] \o <<>> = inbox[q]  BY Typed, Joining
<1> QED  BY <1>1 DEF At, Kept

LEMMA ComesHome ==
  ASSUME NEW p \in Peer, NEW t
  PROVE  /\ Became(p, "loop", None, None, t) => Finishing(p, t)'
         /\ \A x \in FinalReads :
               /\ Became(p, x, None, None, <<Final(Other(p), x)>> \o t) => Finishing(p, t)'
               /\ At(p, x, None, None, <<Final(Other(p), x)>> \o t)' => Finishing(p, t)'
         /\ At(p, "wanted", None, None, <<Raw("wanted", "no")>> \o t)' => Finishing(p, t)'
         /\ Finishing(p, <<>>)' /\ Finishing(Other(p), <<>>)' => Joint'
<1>1. Finishing(p, <<>>)' /\ Finishing(Other(p), <<>>)' => Joint'
  <2>1. \A x \in Peer : x = p \/ x = Other(p)  BY Peers
  <2> QED  BY <2>1 DEF Joint, Apart
<1>2. /\ Became(p, "loop", None, None, t) => Finishing(p, t)'
      /\ \A x \in FinalReads :
            /\ Became(p, x, None, None, <<Final(Other(p), x)>> \o t) => Finishing(p, t)'
            /\ At(p, x, None, None, <<Final(Other(p), x)>> \o t)' => Finishing(p, t)'
      /\ At(p, "wanted", None, None, <<Raw("wanted", "no")>> \o t)' => Finishing(p, t)'
  BY DEF Finishing, Became, At
<1> QED  BY <1>1, <1>2

\* The same, with nothing behind the message.
LEMMA ComesHomeNext ==
  ASSUME NEW p \in Peer
  PROVE  /\ \A x \in FinalReads :
               /\ Became(p, x, None, None, <<Final(Other(p), x)>>) => Finishing(p, <<>>)'
               /\ At(p, x, None, None, <<Final(Other(p), x)>>)' => Finishing(p, <<>>)'
         /\ At(p, "wanted", None, None, <<Raw("wanted", "no")>>)' => Finishing(p, <<>>)'
<1>1. Other(p) \in Peer  BY Peers
<1>2. \A x \in FinalReads : <<Final(Other(p), x)>> \o <<>> = <<Final(Other(p), x)>>
  <2> SUFFICES ASSUME NEW x \in FinalReads
               PROVE  <<Final(Other(p), x)>> \o <<>> = <<Final(Other(p), x)>>
    OBVIOUS
  <2>1. <<Final(Other(p), x)>> \in Seq(Message)  BY <1>1, FinalFacts, MessageSeqs
  <2> QED  BY <2>1, Joining
<1>3. <<Raw("wanted", "no")>> \o <<>> = <<Raw("wanted", "no")>>
  BY MessageFacts, MessageSeqs, Joining
<1> QED  BY <1>2, <1>3 DEF Finishing, Became, At

\* The command is acknowledged: its handler runs at both ends.
LEMMA AnsweredReceives ==
  ASSUME TypeOK, PlacesOK, NEW p \in Peer, NEW c \in Command, Answered(p, c), Receive(p)
  PROVE  Joint'
<1> DEFINE q == Other(p)
<1>0. q \in Peer /\ Other(q) = p  BY Peers
<1>1. /\ c # "addrs-request" /\ issued[p] = c /\ Behind(p, Answer(q, c)) /\ owed[p] = None
      /\ At(q, Serve(q, c).at, None, None, <<>>)
  BY DEF Answered, Behind
<1>2. Answer(q, c) \in Seq(Message)  BY <1>0, AnswerIs
<1>3. CASE pc[p] \in FinalReads
  <2>1. Behind(p, Answer(q, c))' /\ issued'[p] = c /\ Kept(q, <<>>)
    BY <1>1, <1>2, <1>3, BehindReceives
  <2>2. At(q, Serve(q, c).at, None, None, <<>>)'  BY <1>0, <1>1, <2>1, KeptSame
  <2>3. Answered(p, c)'  BY <1>1, <2>1, <2>2 DEF Answered
  <2> QED  BY <2>3 DEF Joint
<1>4. CASE pc[p] \notin FinalReads
  <2>1. pc[p] \in {"ack", "ackAfter"} /\ inbox[p] = Answer(q, c)  BY <1>1, <1>4 DEF Behind
  <2>2. Head(inbox[p]) = Ack(c)  BY <1>0, <2>1, AnswerIs
  <2>3. StepsTo(p, Write(p, c), None, Tail(inbox[p]))  BY <1>1, <2>1, <2>2, AckRuns
  <2>4. Reads(q)
    <3>1. Serve(q, c).at \in {"loop", "addrs", "addr", "txId", "hello"}  BY <1>0, ServeFacts
    <3> QED  BY <1>1, <3>1 DEF Reads, At
  <2>5. /\ c # "sync-chain" => Tail(inbox[p]) = <<>>
        /\ c = "sync-chain" => Tail(inbox[p]) = <<Final(q, "hello")>>
        /\ <<>> \in Seq(Message) /\ Tail(inbox[p]) \in Seq(Message)
    <3>1. inbox[p] # <<>>  BY ReceivesWhere
    <3> QED  BY <1>0, <2>1, <3>1, AnswerIs, MessageSeqs, LeftTyped
  <2>6. /\ \A x \in FinalReads : Final(p, x) \in Message /\ <<Final(p, x)>> \in Seq(Message)
        /\ Raw("txId", p) \in Message /\ <<Raw("txId", p)>> \in Seq(Message)
    BY FinalFacts, MessageFacts, MessageSeqs
  <2>7. ASSUME NEW x \in FinalReads, Serve(q, c).at = x, NEW s,
               Step(p, "loop", None, None, <<>>, <<Final(p, x)>>, s)
        PROVE  Joint'
    <3>1. Kept(q, <<Final(p, x)>>) /\ Became(p, "loop", None, None, <<>>)
      BY <2>4, <2>5, <2>6, <2>7, StepKeeps
    <3>2. At(q, x, None, None, <<Final(p, x)>>)'  BY <1>1, <2>6, <2>7, <3>1, KeptEmpty
    <3>3. Finishing(p, <<>>)'  BY <3>1, ComesHome
    <3>4. Finishing(q, <<>>)'  BY <1>0, <3>2, ComesHomeNext
    <3> QED  BY <3>3, <3>4, ComesHome
  <2>8. CASE c = "peer-addrs"
    <3>1. Step(p, "loop", None, None, <<>>, <<Final(p, "addrs")>>, {})
      BY <1>1, <2>3, <2>5, <2>8, WriteSteps
    <3>2. Serve(q, c).at = "addrs"  BY <1>0, <2>8, ServeIs DEF Then
    <3> QED  BY <2>7, <3>1, <3>2, PlaceSets
  <2>9. CASE c = "announce-addr"
    <3>1. Step(p, "loop", None, None, <<>>, <<Final(p, "addr")>>, {})
      BY <1>1, <2>3, <2>5, <2>9, WriteSteps
    <3>2. Serve(q, c).at = "addr"  BY <1>0, <2>9, ServeIs DEF Then
    <3> QED  BY <2>7, <3>1, <3>2, PlaceSets
  <2>10. CASE c = "new-tx"
    <3>1. Step(p, "wanted", None, None, <<>>, <<Raw("txId", p)>>, {})
      BY <1>1, <2>3, <2>5, <2>10, WriteSteps
    <3>2. Serve(q, c).at = "txId"  BY <1>0, <2>10, ServeIs DEF Then
    <3>3. Kept(q, <<Raw("txId", p)>>) /\ Became(p, "wanted", None, None, <<>>)
      BY <2>4, <2>5, <2>6, <3>1, StepKeeps
    <3>4. At(q, "txId", None, None, <<Raw("txId", p)>>)'
      BY <1>1, <2>6, <3>2, <3>3, KeptEmpty
    <3>5. Offered(p)'  BY <3>3, <3>4 DEF Offered, Became, At
    <3> QED  BY <3>5 DEF Joint
  <2>11. CASE c = "sync-chain"
    <3>1. Step(p, "hello", None, None, <<Final(q, "hello")>>, <<Final(p, "hello")>>, {})
      BY <1>1, <2>3, <2>5, <2>11, WriteSteps
    <3>2. Serve(q, c).at = "hello"  BY <1>0, <2>11, ServeIs DEF Then
    <3>3. /\ Kept(q, <<Final(p, "hello")>>)
          /\ Became(p, "hello", None, None, <<Final(q, "hello")>>)
      BY <2>4, <2>5, <2>6, <2>11, <3>1, PlaceSets, StepKeeps
    <3>4. At(q, "hello", None, None, <<Final(p, "hello")>>)'
      BY <1>1, <2>6, <3>2, <3>3, PlaceSets, KeptEmpty
    <3>5. Finishing(p, <<>>)' /\ Finishing(q, <<>>)'
      BY <1>0, <3>3, <3>4, PlaceSets, ComesHomeNext
    <3> QED  BY <3>5, ComesHome
  <2> QED  BY <1>1, <2>8, <2>9, <2>10, <2>11, Commands
<1> QED  BY <1>3, <1>4

\* A transaction is announced: the id, the answer, the transaction.
LEMMA OfferedReceives ==
  ASSUME TypeOK, PlacesOK, NEW p \in Peer, Offered(p), NEW x \in Peer, Receive(x)
  PROVE  Joint'
<1> DEFINE q == Other(p)
<1>0. q \in Peer /\ Other(q) = p /\ (x = p \/ x = q) /\ inbox[x] # <<>>
  BY Peers, ReceivesWhere
<1>1. /\ \A y \in {"yes", "no"} :
            /\ Raw("wanted", y) \in Message /\ <<Raw("wanted", y)>> \in Seq(Message)
            /\ Raw("wanted", y).val = <<"wanted", y>>
      /\ Raw("txId", p) \in Message /\ Final(p, "tx") = Raw("tx", p)
      /\ <<Final(p, "tx")>> \in Seq(Message) /\ <<>> \in Seq(Message)
  BY MessageFacts, MessageSeqs, FinalFacts, PlaceSets DEF Final
<1>2. CASE /\ At(p, "wanted", None, None, <<>>)
           /\ At(q, "txId", None, None, <<Raw("txId", p)>>)
  <2>1. x = q  BY <1>0, <1>2 DEF At
  <2>2. Head(inbox[q]) = Raw("txId", p) /\ Tail(inbox[q]) = <<>> /\ pc[q] = "txId"
    BY <1>1, <1>2, HeadTail DEF At
  <2>3. Readable(q)  BY <1>0, <2>2, PlaceSets DEF Readable, FinalReads
  <2>4. Handled(q) /\ Clean(q, DataKind(pc[q])) /\ pc[q] \in DataPlaces
    BY <1>0, <2>1, <2>2, <2>3, CleanReceive DEF DataPlaces
  <2>5. PICK h \in Received(q, "txId", Head(inbox[q]).val) : StepsTo(q, h, None, <<>>)
    BY <1>0, <1>2, <2>1, <2>2, <2>4, HandledSteps DEF At
  <2>6. Reads(p) /\ owed[q] = None  BY <1>2 DEF Reads, At
  <2>7. CASE h.at = "loop" /\ h.out = <<Raw("wanted", "no")>>
    <3>1. Step(q, "loop", None, None, <<>>, <<Raw("wanted", "no")>>, h.pub)
      BY <1>0, <2>5, <2>6, <2>7, StepsToIs
    <3>2. Kept(p, <<Raw("wanted", "no")>>) /\ Became(q, "loop", None, None, <<>>)
      BY <1>0, <1>1, <2>6, <3>1, StepKeeps
    <3>3. At(p, "wanted", None, None, <<Raw("wanted", "no")>>)'
      BY <1>1, <1>2, <3>2, KeptEmpty
    <3>4. Finishing(p, <<>>)' /\ Finishing(q, <<>>)'
      BY <1>0, <3>2, <3>3, ComesHome, ComesHomeNext
    <3> QED  BY <3>4, ComesHome
  <2>8. CASE h.at = "tx" /\ h.out = <<Raw("wanted", "yes")>>
    <3>1. Step(q, "tx", None, None, <<>>, <<Raw("wanted", "yes")>>, h.pub)
      BY <1>0, <2>5, <2>6, <2>8, StepsToIs
    <3>2. Kept(p, <<Raw("wanted", "yes")>>) /\ Became(q, "tx", None, None, <<>>)
      BY <1>0, <1>1, <2>6, <3>1, StepKeeps
    <3>3. At(p, "wanted", None, None, <<Raw("wanted", "yes")>>)'
      BY <1>1, <1>2, <3>2, KeptEmpty
    <3>4. Offered(p)'  BY <3>2, <3>3 DEF Offered, Became, At
    <3> QED  BY <3>4 DEF Joint
  <2> QED  BY <1>0, <2>5, <2>7, <2>8, IdHandlers
<1>3. CASE /\ At(p, "wanted", None, None, <<Raw("wanted", "yes")>>)
           /\ At(q, "tx", None, None, <<>>)
  <2>1. x = p  BY <1>0, <1>3 DEF At
  <2>2. Head(inbox[p]) = Raw("wanted", "yes") /\ Tail(inbox[p]) = <<>> /\ pc[p] = "wanted"
    BY <1>1, <1>3, HeadTail DEF At
  <2>3. Readable(p)  BY <2>2, PlaceSets DEF Readable, FinalReads
  <2>4. Handled(p) /\ Clean(p, DataKind(pc[p])) /\ pc[p] \in DataPlaces
    BY <1>0, <2>1, <2>2, <2>3, CleanReceive DEF DataPlaces
  <2>5. PICK h \in Received(p, "wanted", Head(inbox[p]).val) : StepsTo(p, h, None, <<>>)
    BY <1>0, <1>3, <2>1, <2>2, <2>4, HandledSteps DEF At
  <2>6. Reads(q) /\ owed[p] = None  BY <1>3 DEF Reads, At
  <2>7. h.at = "loop" /\ h.out = <<Final(p, "tx")>>
    <3>1. Head(inbox[p]).val[2] = "yes"  BY <1>1, <2>2
    <3>2. Head(inbox[p]).val # Garbage  BY <1>1, <2>2 DEF Garbage
    <3> QED  BY <3>1, <3>2, WantedHandlers DEF Final
  <2>8. Step(p, "loop", None, None, <<>>, <<Final(p, "tx")>>, h.pub)
    BY <2>5, <2>6, <2>7, StepsToIs
  <2>9. Kept(q, <<Final(p, "tx")>>) /\ Became(p, "loop", None, None, <<>>)
    BY <1>1, <2>6, <2>8, StepKeeps
  <2>10. At(q, "tx", None, None, <<Final(p, "tx")>>)'  BY <1>1, <1>3, <2>9, KeptEmpty
  <2>11. Finishing(p, <<>>)' /\ Finishing(q, <<>>)'
    BY <1>0, <2>9, <2>10, PlaceSets, ComesHome, ComesHomeNext
  <2> QED  BY <2>11, ComesHome
<1> QED  BY <1>2, <1>3 DEF Offered

-----------------------------------------------------------------------------
(* The joint places: commands that cross *)

LEMMA FinalRuns ==
  ASSUME TypeOK, PlacesOK, NEW p \in Peer, pc[p] \in FinalReads,
         Head(inbox[p]) = Final(Other(p), pc[p]), Receive(p)
  PROVE  \E h : h.at = "loop" /\ h.out = <<>> /\ StepsTo(p, h, issued[p], Tail(inbox[p]))
<1>1. Readable(p) /\ inbox[p] # <<>>  BY ReceivesWhere, PlaceSets DEF Readable, FinalReads
<1>2. Handled(p) /\ Clean(p, DataKind(pc[p]))  BY <1>1, CleanReceive DEF FinalReads
<1>3. PICK h \in Received(p, pc[p], Head(inbox[p]).val) :
         StepsTo(p, h, issued[p], Tail(inbox[p]))
  BY <1>1, <1>2, HandledSteps, PlaceSets
<1>4. h.at = "loop" /\ h.out = <<>>  BY FinalHandlers
<1> QED  BY <1>3, <1>4

LEMMA WantedRuns ==
  ASSUME TypeOK, PlacesOK, NEW p \in Peer, pc[p] = "wanted", NEW y \in {"yes", "no"},
         Head(inbox[p]) = Raw("wanted", y), Receive(p)
  PROVE  \E h : /\ h.at = "loop" /\ StepsTo(p, h, issued[p], Tail(inbox[p]))
                /\ y = "yes" => h.out = <<Final(p, "tx")>>
                /\ y = "no" => h.out = <<>>
<1>1. Readable(p) /\ inbox[p] # <<>>  BY ReceivesWhere, PlaceSets DEF Readable, FinalReads
<1>2. Handled(p) /\ Clean(p, DataKind(pc[p])) /\ pc[p] \in DataPlaces
  BY <1>1, CleanReceive DEF DataPlaces
<1>3. PICK h \in Received(p, "wanted", Head(inbox[p]).val) :
         StepsTo(p, h, issued[p], Tail(inbox[p]))
  BY <1>1, <1>2, HandledSteps
<1>4. Head(inbox[p]).val[2] = y /\ Head(inbox[p]).val # Garbage  BY MessageFacts
<1>5. Final(p, "tx") = Raw("tx", p)  BY DEF Final
<1>6. /\ h.at = "loop" /\ (y = "yes" => h.out = <<Final(p, "tx")>>)
      /\ y = "no" => h.out = <<>>
  BY <1>4, <1>5, WantedHandlers
<1> QED  BY <1>3, <1>6

LEMMA IdRuns ==
  ASSUME TypeOK, PlacesOK, NEW p \in Peer, pc[p] = "txId",
         Head(inbox[p]) = Raw("txId", Other(p)), Receive(p)
  PROVE  \E h : /\ StepsTo(p, h, issued[p], Tail(inbox[p]))
                /\ \/ h.at = "loop" /\ h.out = <<Raw("wanted", "no")>>
                   \/ h.at = "tx" /\ h.out = <<Raw("wanted", "yes")>>
<1>1. Readable(p) /\ inbox[p] # <<>>  BY ReceivesWhere, PlaceSets DEF Readable, FinalReads
<1>2. Handled(p) /\ Clean(p, DataKind(pc[p])) /\ pc[p] \in DataPlaces
  BY <1>1, CleanReceive DEF DataPlaces
<1>3. PICK h \in Received(p, "txId", Head(inbox[p]).val) :
         StepsTo(p, h, issued[p], Tail(inbox[p]))
  BY <1>1, <1>2, HandledSteps
<1>4. \/ h.at = "loop" /\ h.out = <<Raw("wanted", "no")>>
      \/ h.at = "tx" /\ h.out = <<Raw("wanted", "yes")>>
  BY IdHandlers
<1> QED  BY <1>3, <1>4

\* The acceptor has done its own and comes to the initiator's command.
LEMMA ServesOwed ==
  ASSUME NEW c \in Command, Became(Acceptor, Serve(Acceptor, c).at, None, None, <<>>),
         issued'[Initiator] = c, Behind(Initiator, Answer(Acceptor, c))'
  PROVE  Joint'
<1>1. Initiator \in Peer /\ Acceptor \in Peer /\ Other(Initiator) = Acceptor  BY Peers
<1>2. CASE c # "addrs-request"
  <2>1. Answered(Initiator, c)'  BY <1>1, <1>2 DEF Answered, Became, At
  <2> QED  BY <1>1, <2>1 DEF Joint
<1>3. CASE c = "addrs-request"
  <2>1. Serve(Acceptor, c).at = "loop"  BY <1>1, <1>3, ServeFacts
  <2>2. Finishing(Acceptor, <<>>)'  BY <1>1, <2>1, ComesHome
  <2>3. Answer(Acceptor, c) = <<Ack("addrs-request")>> \o <<>>
    <3>1. Answer(Acceptor, c) = <<Ack("addrs-request")>>  BY <1>1, <1>3, AnswerIs
    <3>2. <<Ack("addrs-request")>> \in Seq(Message)  BY <1>3, MessageFacts, MessageSeqs
    <3> QED  BY <3>1, <3>2, Joining
  <2>4. Finishing(Initiator, <<>>)'  BY <1>3, <2>3 DEF Finishing
  <2> QED  BY <1>1, <2>2, <2>4, ComesHome
<1> QED  BY <1>2, <1>3

\* It writes what its own handler has left, and the acknowledgement.
LEMMA ServesOwedStep ==
  ASSUME TypeOK, NEW c \in Command, NEW pub, NEW left \in Seq(Message),
         Step(Acceptor, Serve(Acceptor, c).at, None, None, <<>>, left \o Answer(Acceptor, c), pub),
         NEW x, NEW s \in Seq(Message), At(Initiator, x, c, None, s),
         \/ x = "ackAfter" /\ s = <<>> /\ left = <<>>
         \/ x \in FinalReads /\ s = <<Final(Acceptor, x)>> /\ left = <<>>
         \/ x \in FinalReads /\ s = <<>> /\ left = <<Final(Acceptor, x)>>
  PROVE  Joint'
<1> DEFINE a == Answer(Acceptor, c)
<1>1. /\ Initiator \in Peer /\ Acceptor \in Peer /\ Other(Acceptor) = Initiator
      /\ Other(Initiator) = Acceptor
  BY Peers
<1>2. a \in Seq(Message) /\ left \o a \in Seq(Message) /\ <<>> \in Seq(Message)
  BY <1>1, AnswerIs, Joining
<1>3. Reads(Initiator)
  <2>1. x \notin Deaf  BY DEF FinalReads
  <2>2. s # <<Noise>>
    <3>1. ASSUME x \in FinalReads  PROVE <<Final(Acceptor, x)>> # <<Noise>>
      <4>1. Final(Acceptor, x).kind # "noise"  BY <1>1, <3>1, FinalFacts DEF FinalReads
      <4> QED  BY <4>1, MessageFacts
    <3> QED  BY <3>1
  <2> QED  BY <2>1, <2>2 DEF Reads, At
<1>4. Kept(Initiator, left \o a) /\ Became(Acceptor, Serve(Acceptor, c).at, None, None, <<>>)
  BY <1>1, <1>2, <1>3, StepKeeps
<1>5. At(Initiator, x, c, None, s \o (left \o a))'  BY <1>4 DEF At, Kept
<1>6. s \o (left \o a) = IF x = "ackAfter" THEN a ELSE <<Final(Acceptor, x)>> \o a
  <2>1. s \o (left \o a) = (s \o left) \o a
    <3>1. left \in Seq(Message) /\ s \in Seq(Message) /\ a \in Seq(Message)  BY <1>2
    <3> HIDE DEF a
    <3> QED  BY <3>1, Joining
  <2>4. <<>> \o a = a  BY <1>2, Joining
  <2>2. x # "ackAfter" => s \o left = <<Final(Acceptor, x)>>
    <3>1. x \in FinalReads => <<Final(Acceptor, x)>> \in Seq(Message)
      BY <1>1, FinalFacts, MessageSeqs
    <3> QED  BY <3>1, Joining
  <2>3. x = "ackAfter" => s \o left = <<>>  BY DEF FinalReads
  <2> QED  BY <2>1, <2>2, <2>3, <2>4
<1>7. Behind(Initiator, a)'
  <2>1. CASE x = "ackAfter"  BY <1>5, <1>6, <2>1 DEF Behind, At
  <2>2. CASE x \in FinalReads
    <3>1. x # "ackAfter"  BY <2>2 DEF FinalReads
    <3> QED  BY <1>1, <1>5, <1>6, <2>2, <3>1 DEF Behind, At
  <2> QED  BY <2>1, <2>2
<1>8. issued'[Initiator] = c  BY <1>5 DEF At
<1> QED  BY <1>4, <1>7, <1>8, ServesOwed

\* The acceptor is acknowledged while the initiator serves its command.
LEMMA OwnCommandRuns ==
  ASSUME TypeOK, PlacesOK, NEW c \in Command, NEW d \in Command, ServesFirst(c, d, <<>>),
         At(Acceptor, "ownAck", d, c, Answer(Initiator, d)), Receive(Acceptor)
  PROVE  Joint'
<1> DEFINE I == Initiator
           A == Acceptor
<1>1. I \in Peer /\ A \in Peer /\ Other(A) = I /\ Other(I) = A /\ c \in Owable
  BY Peers DEF Owable
<1>2. /\ issued[A] = d /\ owed[A] = c /\ Head(inbox[A]) = Ack(d) /\ pc[A] = "ownAck"
      /\ d # "sync-chain" => Tail(inbox[A]) = <<>>
      /\ d = "sync-chain" => Tail(inbox[A]) = <<Final(I, "hello")>>
  BY <1>1, AnswerIs DEF At
<1>3. StepsTo(A, Write(A, d), None, Tail(inbox[A]))  BY <1>1, <1>2, AckRuns
<1>4. /\ \A x \in FinalReads : <<Final(A, x)>> \in Seq(Message) /\ <<Final(I, x)>> \in Seq(Message)
      /\ <<Raw("txId", A)>> \in Seq(Message) /\ <<>> \in Seq(Message)
      /\ Final(I, "hello") = Raw("hello", I) /\ Final(A, "hello") = Raw("hello", A)
  BY <1>1, FinalFacts, MessageFacts, MessageSeqs DEF Final
<1>5. CASE d = "addrs-request"
  <2>1. \E pub : Step(A, Serve(A, c).at, None, None, <<>>, <<>> \o Answer(A, c), pub)
    BY <1>1, <1>2, <1>3, <1>5, OwingSteps
  <2>2. At(I, "ackAfter", c, None, <<>>)  BY <1>5 DEF ServesFirst
  <2> QED  BY <1>4, <2>1, <2>2, ServesOwedStep
<1>6. CASE d = "peer-addrs"
  <2>1. \E pub : Step(A, Serve(A, c).at, None, None, <<>>,
                      <<Final(A, "addrs")>> \o Answer(A, c), pub)
    BY <1>1, <1>2, <1>3, <1>6, OwingSteps
  <2>2. At(I, "addrs", c, None, <<>>)  BY <1>1, <1>6, ServeIs DEF ServesFirst, Then
  <2> QED  BY <1>4, <2>1, <2>2, ServesOwedStep, PlaceSets
<1>7. CASE d = "announce-addr"
  <2>1. \E pub : Step(A, Serve(A, c).at, None, None, <<>>,
                      <<Final(A, "addr")>> \o Answer(A, c), pub)
    BY <1>1, <1>2, <1>3, <1>7, OwingSteps
  <2>2. At(I, "addr", c, None, <<>>)  BY <1>1, <1>7, ServeIs DEF ServesFirst, Then
  <2> QED  BY <1>4, <2>1, <2>2, ServesOwedStep, PlaceSets
<1>8. CASE d = "new-tx"
  <2>1. Step(A, "wanted", None, c, <<>>, <<Raw("txId", A)>>, {})
    BY <1>1, <1>2, <1>3, <1>8, OwingSteps
  <2>2. At(I, "txId", c, None, <<>>)  BY <1>1, <1>8, ServeIs DEF ServesFirst, Then
  <2>3. Reads(I)  BY <2>2 DEF Reads, At
  <2>4. Kept(I, <<Raw("txId", A)>>) /\ Became(A, "wanted", None, c, <<>>)
    BY <1>1, <1>4, <2>1, <2>3, StepKeeps
  <2>5. At(I, "txId", c, None, <<Raw("txId", A)>>)'  BY <1>4, <2>2, <2>4, KeptEmpty
  <2>6. Owing(c)'  BY <2>4, <2>5 DEF Owing, Became, At
  <2> QED  BY <2>6 DEF Joint
<1>9. CASE d = "sync-chain"
  <2>1. Step(A, "hello", None, c, <<Final(I, "hello")>>, <<Final(A, "hello")>>, {})
    BY <1>1, <1>2, <1>3, <1>9, OwingSteps
  <2>2. At(I, "hello", c, None, <<>>)  BY <1>1, <1>9, ServeIs DEF ServesFirst, Then
  <2>3. Reads(I)  BY <2>2 DEF Reads, At
  <2>4. /\ Kept(I, <<Final(A, "hello")>>)
        /\ Became(A, "hello", None, c, <<Final(I, "hello")>>)
    BY <1>1, <1>4, <2>1, <2>3, PlaceSets, StepKeeps
  <2>5. At(I, "hello", c, None, <<Final(A, "hello")>>)'
    BY <1>4, <2>2, <2>4, PlaceSets, KeptEmpty
  <2>6. Owing(c)'  BY <1>4, <2>4, <2>5 DEF Owing, Became, At
  <2> QED  BY <2>6 DEF Joint
<1> QED  BY <1>5, <1>6, <1>7, <1>8, <1>9, Commands

\* The initiator serves the acceptor's command first.
LEMMA ServesFirstStep ==
  ASSUME TypeOK, PlacesOK, NEW c \in Command, NEW d \in Command,
         At(Initiator, "ack", c, None, <<Cmd(d)>>), Reads(Acceptor), Receive(Initiator)
  PROVE  ServesFirst(c, d, <<>>)' /\ Kept(Acceptor, Answer(Initiator, d))
<1>1. /\ Initiator \in Peer /\ Acceptor \in Peer /\ Other(Initiator) = Acceptor
      /\ Cmd(d) \in Message /\ Answer(Initiator, d) \in Seq(Message) /\ <<>> \in Seq(Message)
      /\ c # None
  BY Peers, MessageFacts, AnswerIs, MessageSeqs, Commands
<1>2. Head(inbox[Initiator]) = Cmd(d) /\ Tail(inbox[Initiator]) = <<>>
  BY <1>1, HeadTail DEF At
<1>3. owed[Initiator] = None /\ StepsTo(Initiator, Serve(Initiator, d), c, <<>>)
  BY <1>1, <1>2, CmdServed DEF At
<1>4. PICK pub : Step(Initiator, IF d # "addrs-request" THEN Serve(Initiator, d).at
                                 ELSE IF c = None THEN "loop" ELSE "ackAfter",
                      c, None, <<>>, Answer(Initiator, d), pub)
  BY <1>1, <1>3, ServeSteps
<1>5. CASE d = "addrs-request"
  <2>1. Step(Initiator, "ackAfter", c, None, <<>>, Answer(Initiator, d), pub)
    BY <1>1, <1>4, <1>5
  <2>2. Kept(Acceptor, Answer(Initiator, d)) /\ Became(Initiator, "ackAfter", c, None, <<>>)
    BY <1>1, <2>1, StepKeeps
  <2> QED  BY <1>5, <2>2 DEF ServesFirst, Became, At
<1>6. CASE d # "addrs-request"
  <2>1. Step(Initiator, Serve(Initiator, d).at, c, None, <<>>, Answer(Initiator, d), pub)
    BY <1>1, <1>4, <1>6
  <2>2. /\ Kept(Acceptor, Answer(Initiator, d))
        /\ Became(Initiator, Serve(Initiator, d).at, c, None, <<>>)
    BY <1>1, <2>1, StepKeeps
  <2> QED  BY <1>6, <2>2 DEF ServesFirst, Became, At
<1> QED  BY <1>5, <1>6

LEMMA CrossedReceives ==
  ASSUME TypeOK, PlacesOK, NEW c \in Command, NEW d \in Command, Crossed(c, d),
         NEW x \in Peer, Receive(x)
  PROVE  Joint'
<1> DEFINE I == Initiator
           A == Acceptor
<1>0. /\ I \in Peer /\ A \in Peer /\ Other(A) = I /\ (x = I \/ x = A) /\ inbox[x] # <<>>
      /\ Cmd(c) \in Message /\ Cmd(d) \in Message /\ <<Cmd(c)>> \in Seq(Message)
      /\ Answer(I, d) \in Seq(Message) /\ <<>> \in Seq(Message)
  BY Peers, ReceivesWhere, MessageFacts, MessageSeqs, AnswerIs
<1>1. Crossed(c, d)' => Joint'  BY DEF Joint
<1>2. Cmd(c) # Noise
  <2>1. Cmd(c).kind = "string"  BY MessageFacts
  <2> QED  BY <2>1, MessageFacts
<1>3. CASE x = I
  <2>1. At(I, "ack", c, None, <<Cmd(d)>>)
    <3>1. ~ServesFirst(c, d, <<>>)  BY <1>0, <1>3 DEF ServesFirst, At
    <3> QED  BY <3>1 DEF Crossed
  <2>2. At(A, "ack", d, None, <<Cmd(c)>>) \/ At(A, "ownAck", d, c, <<>>)
    <3>1. ~ServesFirst(c, d, <<>>)  BY <1>0, <1>3 DEF ServesFirst, At
    <3> QED  BY <3>1 DEF Crossed
  <2>3. Reads(A)
    <3>1. <<Cmd(c)>> # <<Noise>> /\ <<>> # <<Noise>>  BY <1>2
    <3>2. pc[A] \notin Deaf  BY <2>2 DEF At
    <3>3. inbox[A] = <<Cmd(c)>> \/ inbox[A] = <<>>  BY <2>2 DEF At
    <3> QED  BY <3>1, <3>2, <3>3 DEF Reads
  <2>4. ServesFirst(c, d, <<>>)' /\ Kept(A, Answer(I, d))
    BY <1>3, <2>1, <2>3, ServesFirstStep
  <2>5. \/ At(A, "ack", d, None, <<Cmd(c)>> \o Answer(I, d))'
        \/ At(A, "ownAck", d, c, Answer(I, d))'
    <3>1. CASE At(A, "ack", d, None, <<Cmd(c)>>)  BY <2>4, <3>1 DEF At, Kept
    <3>2. CASE At(A, "ownAck", d, c, <<>>)  BY <1>0, <2>4, <3>2, KeptEmpty
    <3> QED  BY <2>2, <3>1, <3>2
  <2> QED  BY <1>1, <2>4, <2>5 DEF Crossed
<1>4. CASE x = A /\ At(I, "ack", c, None, <<Cmd(d)>>) /\ At(A, "ack", d, None, <<Cmd(c)>>)
  <2>1. Head(inbox[A]) = Cmd(c) /\ Tail(inbox[A]) = <<>> /\ pc[A] = "ack" /\ issued[A] = d
    BY <1>0, <1>4, HeadTail DEF At
  <2>2. Became(A, "ownAck", d, c, <<>>) /\ Kept(I, <<>>)
    BY <1>0, <1>4, <2>1, CmdPostponed
  <2>3. At(I, "ack", c, None, <<Cmd(d)>>)'  BY <1>0, <1>4, <2>2, KeptSame
  <2>4. Crossed(c, d)'  BY <2>2, <2>3 DEF Crossed, Became, At
  <2> QED  BY <1>1, <2>4
<1>5. CASE /\ x = A /\ ServesFirst(c, d, <<>>)
           /\ At(A, "ack", d, None, <<Cmd(c)>> \o Answer(I, d))
  <2>1. /\ Head(inbox[A]) = Cmd(c) /\ Tail(inbox[A]) = Answer(I, d) /\ pc[A] = "ack"
        /\ issued[A] = d
    BY <1>0, <1>5, HeadTail DEF At
  <2>2. Became(A, "ownAck", d, c, Answer(I, d)) /\ Kept(I, <<>>)
    BY <1>0, <1>5, <2>1, CmdPostponed
  <2>3. ServesFirst(c, d, <<>>)'  BY <1>0, <1>5, <2>2, KeptSame DEF ServesFirst
  <2>4. Crossed(c, d)'  BY <2>2, <2>3 DEF Crossed, Became, At
  <2> QED  BY <1>1, <2>4
<1>6. CASE x = A /\ ServesFirst(c, d, <<>>) /\ At(A, "ownAck", d, c, Answer(I, d))
  BY <1>6, OwnCommandRuns
<1>7. ~(x = A /\ At(A, "ownAck", d, c, <<>>))  BY <1>0 DEF At
<1> QED  BY <1>0, <1>3, <1>4, <1>5, <1>6, <1>7 DEF Crossed

\* The acceptor's handler, with the initiator's command behind.
LEMMA OwingReceives ==
  ASSUME TypeOK, PlacesOK, NEW c \in Command, Owing(c), NEW x \in Peer, Receive(x)
  PROVE  Joint'
<1> DEFINE I == Initiator
           A == Acceptor
<1>0. /\ I \in Peer /\ A \in Peer /\ Other(A) = I /\ Other(I) = A /\ (x = I \/ x = A)
      /\ inbox[x] # <<>> /\ c # None
  BY Peers, ReceivesWhere, Commands
<1>1. /\ \A y \in {"yes", "no"} :
            Raw("wanted", y) \in Message /\ <<Raw("wanted", y)>> \in Seq(Message)
      /\ \A z \in FinalReads :
            /\ Final(A, z) \in Message /\ <<Final(A, z)>> \in Seq(Message)
            /\ Final(I, z) \in Message
      /\ Raw("txId", A) \in Message /\ <<>> \in Seq(Message)
      /\ Final(I, "hello") = Raw("hello", I) /\ Final(A, "hello") = Raw("hello", A)
      /\ "hello" \in FinalReads /\ "tx" \in FinalReads
  BY <1>0, MessageFacts, MessageSeqs, FinalFacts, PlaceSets DEF Final
<1>2. Owing(c)' => Joint'  BY DEF Joint
<1>3. ASSUME NEW h, h.at = "loop", NEW left \in Seq(Message), h.out = left,
             owed[A] = c, StepsTo(A, h, None, <<>>)
      PROVE  \E pub : Step(A, Serve(A, c).at, None, None, <<>>, left \o Answer(A, c), pub)
  BY <1>0, <1>3, StepsToIs
<1>4. ASSUME At(A, "hello", None, c, <<Raw("hello", I)>>), x = A,
             \/ At(I, "hello", c, None, <<Raw("hello", A)>>)
             \/ At(I, "ackAfter", c, None, <<>>)
      PROVE  Joint'
  <2>1. /\ Head(inbox[A]) = Final(Other(A), pc[A]) /\ Tail(inbox[A]) = <<>>
        /\ pc[A] \in FinalReads /\ issued[A] = None /\ owed[A] = c
    BY <1>0, <1>1, <1>4, HeadTail DEF At
  <2>2. PICK h : h.at = "loop" /\ h.out = <<>> /\ StepsTo(A, h, None, <<>>)
    BY <1>0, <1>4, <2>1, FinalRuns
  <2>3. \E pub : Step(A, Serve(A, c).at, None, None, <<>>, <<>> \o Answer(A, c), pub)
    BY <1>1, <1>3, <2>1, <2>2
  <2>4. CASE At(I, "hello", c, None, <<Raw("hello", A)>>)
    BY <1>1, <2>3, <2>4, ServesOwedStep
  <2>5. CASE At(I, "ackAfter", c, None, <<>>)  BY <1>1, <2>3, <2>5, ServesOwedStep
  <2> QED  BY <1>4, <2>4, <2>5
<1>5. CASE /\ x = I /\ At(I, "hello", c, None, <<Raw("hello", A)>>)
           /\ At(A, "hello", None, c, <<Raw("hello", I)>>)
  <2>1. /\ Head(inbox[I]) = Final(Other(I), pc[I]) /\ Tail(inbox[I]) = <<>>
        /\ pc[I] \in FinalReads /\ issued[I] = c /\ owed[I] = None
    BY <1>0, <1>1, <1>5, HeadTail DEF At
  <2>2. PICK h : h.at = "loop" /\ h.out = <<>> /\ StepsTo(I, h, c, <<>>)
    BY <1>0, <1>5, <2>1, FinalRuns
  <2>3. Step(I, "ackAfter", c, None, <<>>, <<>>, h.pub)  BY <1>0, <2>1, <2>2, StepsToIs
  <2>4. Kept(A, <<>>) /\ Became(I, "ackAfter", c, None, <<>>)
    BY <1>0, <1>1, <2>3, StepKeeps
  <2>5. At(A, "hello", None, c, <<Raw("hello", I)>>)'  BY <1>0, <1>5, <2>4, KeptSame
  <2>6. Owing(c)'  BY <2>4, <2>5 DEF Owing, Became, At
  <2> QED  BY <1>2, <2>6
<1>6. CASE At(I, "txId", c, None, <<Raw("txId", A)>>) /\ At(A, "wanted", None, c, <<>>)
  <2>1. x = I  BY <1>0, <1>6 DEF At
  <2>2. /\ Head(inbox[I]) = Raw("txId", Other(I)) /\ Tail(inbox[I]) = <<>> /\ pc[I] = "txId"
        /\ issued[I] = c /\ owed[I] = None /\ Reads(A)
    BY <1>0, <1>1, <1>6, HeadTail DEF At, Reads
  <2>3. PICK h : /\ StepsTo(I, h, c, <<>>)
                 /\ \/ h.at = "loop" /\ h.out = <<Raw("wanted", "no")>>
                    \/ h.at = "tx" /\ h.out = <<Raw("wanted", "yes")>>
    BY <1>0, <2>1, <2>2, IdRuns
  <2>4. CASE h.at = "loop" /\ h.out = <<Raw("wanted", "no")>>
    <3>1. Step(I, "ackAfter", c, None, <<>>, <<Raw("wanted", "no")>>, h.pub)
      BY <1>0, <2>2, <2>3, <2>4, StepsToIs
    <3>2. Kept(A, <<Raw("wanted", "no")>>) /\ Became(I, "ackAfter", c, None, <<>>)
      BY <1>0, <1>1, <2>2, <3>1, StepKeeps
    <3>3. At(A, "wanted", None, c, <<Raw("wanted", "no")>>)'  BY <1>1, <1>6, <3>2, KeptEmpty
    <3>4. Owing(c)'  BY <3>2, <3>3 DEF Owing, Became, At
    <3> QED  BY <1>2, <3>4
  <2>5. CASE h.at = "tx" /\ h.out = <<Raw("wanted", "yes")>>
    <3>1. Step(I, "tx", c, None, <<>>, <<Raw("wanted", "yes")>>, h.pub)
      BY <1>0, <2>2, <2>3, <2>5, StepsToIs
    <3>2. Kept(A, <<Raw("wanted", "yes")>>) /\ Became(I, "tx", c, None, <<>>)
      BY <1>0, <1>1, <2>2, <3>1, StepKeeps
    <3>3. At(A, "wanted", None, c, <<Raw("wanted", "yes")>>)'
      BY <1>1, <1>6, <3>2, KeptEmpty
    <3>4. Owing(c)'  BY <3>2, <3>3 DEF Owing, Became, At
    <3> QED  BY <1>2, <3>4
  <2> QED  BY <2>3, <2>4, <2>5
<1>7. CASE At(I, "tx", c, None, <<>>) /\ At(A, "wanted", None, c, <<Raw("wanted", "yes")>>)
  <2>1. x = A  BY <1>0, <1>7 DEF At
  <2>2. /\ Head(inbox[A]) = Raw("wanted", "yes") /\ Tail(inbox[A]) = <<>> /\ pc[A] = "wanted"
        /\ issued[A] = None /\ owed[A] = c
    BY <1>1, <1>7, HeadTail DEF At
  <2>3. PICK h : h.at = "loop" /\ h.out = <<Final(A, "tx")>> /\ StepsTo(A, h, None, <<>>)
    BY <1>0, <2>1, <2>2, WantedRuns
  <2>4. \E pub : Step(A, Serve(A, c).at, None, None, <<>>,
                      <<Final(A, "tx")>> \o Answer(A, c), pub)
    BY <1>1, <1>3, <2>2, <2>3
  <2> QED  BY <1>1, <1>7, <2>4, ServesOwedStep
<1>8. CASE At(I, "ackAfter", c, None, <<>>) /\ At(A, "wanted", None, c, <<Raw("wanted", "no")>>)
  <2>1. x = A  BY <1>0, <1>8 DEF At
  <2>2. /\ Head(inbox[A]) = Raw("wanted", "no") /\ Tail(inbox[A]) = <<>> /\ pc[A] = "wanted"
        /\ issued[A] = None /\ owed[A] = c
    BY <1>1, <1>8, HeadTail DEF At
  <2>3. PICK h : h.at = "loop" /\ h.out = <<>> /\ StepsTo(A, h, None, <<>>)
    BY <1>0, <2>1, <2>2, WantedRuns
  <2>4. \E pub : Step(A, Serve(A, c).at, None, None, <<>>, <<>> \o Answer(A, c), pub)
    BY <1>1, <1>3, <2>2, <2>3
  <2> QED  BY <1>1, <1>8, <2>4, ServesOwedStep
<1>9. x = I => ~At(I, "ackAfter", c, None, <<>>)  BY <1>0 DEF At
<1> QED  BY <1>0, <1>4, <1>5, <1>6, <1>7, <1>8, <1>9 DEF Owing

-----------------------------------------------------------------------------
(* The joint places are kept *)

\* What an end that comes to its loop has read, or has not.
LEMMA FinishingFacts ==
  ASSUME NEW p \in Peer, NEW t \in Seq(Message), Finishing(p, t), Noise \notin ToSet(t)
  PROVE  /\ Reads(p) /\ (pc[p] = "loop" => inbox[p] = t /\ issued[p] = None /\ owed[p] = None)
         /\ inbox[p] = <<>> => t = <<>> /\ pc[p] = "loop"
         /\ pc[p] = "ack" => inbox[p] = <<Ack("addrs-request")>> \o t
<1>0. /\ Other(p) \in Peer /\ Ack("addrs-request") \in Message /\ Raw("wanted", "no") \in Message
      /\ \A x \in FinalReads : Final(Other(p), x) \in Message
      /\ Ack("addrs-request").kind = "string" /\ Raw("wanted", "no").kind = "wanted"
      /\ \A x \in FinalReads : Final(Other(p), x).kind # "noise"
      /\ Noise.kind = "noise" /\ <<Noise>> # <<>> /\ Head(<<Noise>>) = Noise
  BY Peers, MessageFacts, Commands, FinalFacts DEF FinalReads
<1>1. ASSUME NEW m \in Message, NEW s \in Seq(Message), inbox[p] = <<m>> \o s, m # Noise
      PROVE  inbox[p] # <<>> /\ inbox[p] # <<Noise>>
  <2>1. <<m>> \o s # <<>> /\ Head(<<m>> \o s) = m  BY HeadTail
  <2> QED  BY <1>0, <1>1, <2>1
<1>2. CASE issued[p] = None /\ owed[p] = None /\ pc[p] = "loop" /\ inbox[p] = t
  <2>1. t # <<Noise>>  BY ToSetShort
  <2> QED  BY <1>2, <2>1 DEF Reads
<1>3. CASE pc[p] \in FinalReads /\ inbox[p] = <<Final(Other(p), pc[p])>> \o t
  <2>1. Final(Other(p), pc[p]) \in Message /\ Final(Other(p), pc[p]) # Noise  BY <1>0, <1>3
  <2>2. pc[p] \notin Deaf \cup {"loop", "ack"}  BY <1>3, PlaceSets
  <2> QED  BY <1>1, <1>3, <2>1, <2>2 DEF Reads
<1>4. CASE pc[p] = "wanted" /\ inbox[p] = <<Raw("wanted", "no")>> \o t
  <2>1. Raw("wanted", "no") # Noise  BY <1>0
  <2> QED  BY <1>0, <1>1, <1>4, <2>1 DEF Reads
<1>5. CASE Behind(p, <<Ack("addrs-request")>> \o t)
  <2>0. Ack("addrs-request") # Noise /\ <<Ack("addrs-request")>> \o t \in Seq(Message)
    BY <1>0, HeadTail
  <2>1. CASE pc[p] \in {"ack", "ackAfter"} /\ inbox[p] = <<Ack("addrs-request")>> \o t
    BY <1>0, <1>1, <2>0, <2>1 DEF Reads
  <2>2. CASE /\ pc[p] \in FinalReads
             /\ inbox[p] = <<Final(Other(p), pc[p])>> \o (<<Ack("addrs-request")>> \o t)
    <3>1. Final(Other(p), pc[p]) \in Message /\ Final(Other(p), pc[p]) # Noise  BY <1>0, <2>2
    <3>2. pc[p] \notin Deaf \cup {"loop", "ack"}  BY <2>2, PlaceSets
    <3> QED  BY <1>1, <2>0, <2>2, <3>1, <3>2 DEF Reads
  <2> QED  BY <1>5, <2>1, <2>2 DEF Behind
<1> QED  BY <1>2, <1>3, <1>4, <1>5 DEF Finishing

\* An end in its loop issues a command: the first, or one that crosses.
LEMMA JointIssue ==
  ASSUME TypeOK, PlacesOK, Joint, NEW p \in Peer, NEW c \in Command, Issue(p, c)
  PROVE  Joint'
<1> DEFINE q == Other(p)
<1>0. /\ q \in Peer /\ Other(q) = p /\ q # p
      /\ <<Cmd(c)>> \in Seq(Message) /\ <<>> \in Seq(Message)
      /\ Noise \notin ToSet(<<>>) /\ pc[p] = "loop"
  <2>1. Cmd(c) \in Message  BY MessageFacts
  <2>2. Noise \notin ToSet(<<>>)  BY ToSetShort
  <2> QED  BY <2>1, <2>2, Peers, MessageSeqs DEF Issue
<1>1. issued[p] = None /\ owed[p] = None  BY <1>0 DEF TypeOK
<1>2. Became(p, "ack", c, None, inbox[p]) /\ (Reads(q) => Kept(q, <<Cmd(c)>>))
  <2>1. Exchange(p, inbox[p], <<Cmd(c)>>)  BY DEF Issue
  <2>2. /\ inbox'[p] = inbox[p]
        /\ Reads(q) => inbox'[q] = inbox[q] \o <<Cmd(c)>>
    <3>1. inbox[p] \in Seq(Message)  BY Typed
    <3>2. /\ inbox'[p] = inbox[p]
          /\ inbox'[q] =
                IF pc[q] \in Deaf \/ inbox[q] = <<Noise>>
                THEN inbox[q] ELSE inbox[q] \o <<Cmd(c)>>
      BY <1>0, <2>1, <3>1, ExchangeIs
    <3> QED  BY <3>2 DEF Reads
  <2>3. /\ pc'[p] = "ack" /\ issued'[p] = c /\ owed'[p] = None
        /\ pc'[q] = pc[q] /\ issued'[q] = issued[q] /\ owed'[q] = owed[q]
    BY <1>0, <1>1, Typed DEF Issue
  <2> QED  BY <2>2, <2>3 DEF Became, Kept
<1>3. CASE Apart
  <2>1. Finishing(p, <<>>) /\ Finishing(q, <<>>)  BY <1>0, <1>3 DEF Apart
  <2>2. inbox[p] = <<>> /\ Reads(q)  BY <1>0, <2>1, FinishingFacts
  <2>3. Kept(q, <<Cmd(c)>>) /\ Became(p, "ack", c, None, <<>>)  BY <1>2, <2>2
  <2>4. Finishing(q, <<>> \o <<Cmd(c)>>)'  BY <1>0, <2>1, <2>3, KeptPlaces
  <2>5. <<>> \o <<Cmd(c)>> = <<Cmd(c)>>  BY <1>0, Joining
  <2>6. Finishing(q, <<Cmd(c)>>)'  BY <2>4, <2>5
  <2>7. Asked(p, c)'  BY <2>3, <2>6 DEF Asked, Became, At
  <2> QED  BY <2>7 DEF Joint
<1>4. ASSUME NEW d \in Command, Asked(q, d)  PROVE Joint'
  <2>1. At(q, "ack", d, None, <<>>) /\ Finishing(p, <<Cmd(d)>>)  BY <1>0, <1>4 DEF Asked
  <2>2. Cmd(d) \in Message /\ <<Cmd(d)>> \in Seq(Message) /\ Noise \notin ToSet(<<Cmd(d)>>)
    <3>1. Cmd(d).kind = "string" /\ Noise.kind = "noise"  BY MessageFacts
    <3> QED  BY <3>1, MessageFacts, MessageSeqs, ToSetShort
  <2>3. inbox[p] = <<Cmd(d)>> /\ Reads(q)
    <3>1. inbox[p] = <<Cmd(d)>>  BY <1>0, <2>1, <2>2, FinishingFacts
    <3>2. Reads(q)  BY <2>1 DEF Reads, At
    <3> QED  BY <3>1, <3>2
  <2>4. Kept(q, <<Cmd(c)>>) /\ Became(p, "ack", c, None, <<Cmd(d)>>)  BY <1>2, <2>3
  <2>5. At(q, "ack", d, None, <<Cmd(c)>>)'  BY <1>0, <2>1, <2>4, KeptEmpty
  <2>6. At(p, "ack", c, None, <<Cmd(d)>>)'  BY <2>4 DEF Became, At
  <2>7. Crossed(c, d)' \/ Crossed(d, c)'
    <3>1. (p = Initiator /\ q = Acceptor) \/ (p = Acceptor /\ q = Initiator)
      BY <1>0, Peers
    <3> QED  BY <2>5, <2>6, <3>1 DEF Crossed
  <2> QED  BY <2>7 DEF Joint
<1>5. ASSUME NEW d \in Command
      PROVE  ~Asked(p, d) /\ ~Answered(p, d) /\ ~Answered(q, d)
  <2>1. ~Asked(p, d)  BY <1>0 DEF Asked, At
  <2>2. ~Answered(p, d)  BY <1>1, Commands DEF Answered
  <2>3. ~Answered(q, d)
    <3>1. Answered(q, d) => At(p, Serve(p, d).at, None, None, <<>>) /\ d # "addrs-request"
      BY <1>0 DEF Answered
    <3>2. Serve(p, d).at = "loop" <=> d = "addrs-request"  BY ServeFacts
    <3> QED  BY <1>0, <3>1, <3>2 DEF At
  <2> QED  BY <2>1, <2>2, <2>3
<1>6. ~Offered(p) /\ ~Offered(q)  BY <1>0 DEF Offered, At
<1>7. ASSUME NEW a \in Command, NEW b \in Command  PROVE ~Crossed(a, b) /\ ~Owing(a)
  <2>1. p = Initiator \/ p = Acceptor  BY Peers
  <2>2. ~Owing(a)  BY <1>0, <2>1 DEF Owing, At
  <2>3. ~ServesFirst(a, b, <<>>) \/ p = Acceptor
    <3>1. Initiator \in Peer  BY Peers
    <3>2. b = "addrs-request" \/ Serve(Initiator, b).at # "loop"  BY <3>1, ServeFacts
    <3> QED  BY <1>0, <2>1, <3>2 DEF ServesFirst, At
  <2>4. ~Crossed(a, b)  BY <1>0, <2>1, <2>3 DEF Crossed, At
  <2> QED  BY <2>2, <2>4
<1>8. \A x \in Peer : x = p \/ x = q  BY <1>0, Peers
<1> QED  BY <1>3, <1>4, <1>5, <1>6, <1>7, <1>8 DEF Joint

\* A command arrives at an end that is in its loop.
LEMMA AskedServes ==
  ASSUME TypeOK, PlacesOK, NEW p \in Peer, NEW c \in Command, pc[p] = "loop",
         At(Other(p), "ack", c, None, <<>>), inbox[p] = <<Cmd(c)>>, Receive(p)
  PROVE  Joint'
<1> DEFINE q == Other(p)
<1>0. /\ q \in Peer /\ Other(q) = p /\ Cmd(c) \in Message /\ <<>> \in Seq(Message)
      /\ Answer(p, c) \in Seq(Message)
      /\ issued[p] = None /\ Reads(q)
  BY Peers, MessageFacts, MessageSeqs, AnswerIs DEF TypeOK, Reads, At
<1>1. Head(inbox[p]) = Cmd(c) /\ Tail(inbox[p]) = <<>>  BY <1>0, HeadTail
<1>2. owed[p] = None /\ StepsTo(p, Serve(p, c), None, <<>>)  BY <1>0, <1>1, CmdServed
<1>3. PICK pub : Step(p, IF c # "addrs-request" THEN Serve(p, c).at
                         ELSE IF None = None THEN "loop" ELSE "ackAfter",
                      None, None, <<>>, Answer(p, c), pub)
  BY <1>2, ServeSteps
<1>4. Serve(p, c).at = "loop" <=> c = "addrs-request"  BY ServeFacts
<1>5. Step(p, Serve(p, c).at, None, None, <<>>, Answer(p, c), pub)  BY <1>3, <1>4
<1>6. Kept(q, Answer(p, c)) /\ Became(p, Serve(p, c).at, None, None, <<>>)
  BY <1>0, <1>5, StepKeeps
<1>7. At(q, "ack", c, None, Answer(p, c))'  BY <1>0, <1>6, KeptEmpty
<1>8. CASE c # "addrs-request"
  <2>1. Behind(q, Answer(p, c))' /\ issued'[q] = c  BY <1>7 DEF Behind, At
  <2>2. Answered(q, c)'  BY <1>0, <1>6, <1>8, <2>1 DEF Answered, Became, At
  <2> QED  BY <1>0, <2>2 DEF Joint
<1>9. CASE c = "addrs-request"
  <2>1. Finishing(p, <<>>)'  BY <1>4, <1>6, <1>9, ComesHome
  <2>2. Answer(p, c) = <<Ack("addrs-request")>> \o <<>>
    <3>1. <<Ack("addrs-request")>> \in Seq(Message)  BY <1>9, MessageFacts, MessageSeqs
    <3> QED  BY <1>9, <3>1, AnswerIs, Joining
  <2>3. Finishing(q, <<>>)'  BY <1>7, <1>9, <2>2 DEF Finishing, Behind, At
  <2> QED  BY <2>1, <2>3, ComesHome
<1> QED  BY <1>8, <1>9

LEMMA JointReceives ==
  ASSUME TypeOK, PlacesOK, Joint, NEW p \in Peer, Receive(p)
  PROVE  Joint'
<1> DEFINE q == Other(p)
<1>0. /\ q \in Peer /\ Other(q) = p /\ q # p /\ inbox[p] # <<>> /\ <<>> \in Seq(Message)
      /\ Noise \notin ToSet(<<>>) /\ \A x \in Peer : x = p \/ x = q
  BY Peers, ReceivesWhere, MessageSeqs, ToSetShort
<1>1. CASE Apart
  <2>1. Finishing(p, <<>>) /\ Finishing(q, <<>>)  BY <1>0, <1>1 DEF Apart
  <2>2. pc[p] # "loop"  BY <1>0, <2>1, FinishingFacts
  <2>3. Finishing(p, <<>>)' /\ Kept(q, <<>>)  BY <1>0, <2>1, <2>2, FinishingReceives
  <2>4. Finishing(q, <<>> \o <<>>)'  BY <1>0, <2>1, <2>3, KeptPlaces
  <2>5. <<>> \o <<>> = <<>>  BY <1>0, Joining
  <2>6. Finishing(q, <<>>)'  BY <2>4, <2>5
  <2> QED  BY <2>3, <2>6, ComesHome
<1>2. ASSUME NEW c \in Command, Asked(q, c)  PROVE Joint'
  <2>1. At(q, "ack", c, None, <<>>) /\ Finishing(p, <<Cmd(c)>>)  BY <1>0, <1>2 DEF Asked
  <2>2. Cmd(c) \in Message /\ <<Cmd(c)>> \in Seq(Message) /\ Noise \notin ToSet(<<Cmd(c)>>)
    <3>1. Cmd(c).kind = "string" /\ Noise.kind = "noise"  BY MessageFacts
    <3> QED  BY <3>1, MessageFacts, MessageSeqs, ToSetShort
  <2>3. CASE pc[p] = "loop"
    <3>1. inbox[p] = <<Cmd(c)>>  BY <2>1, <2>2, <2>3, FinishingFacts
    <3> QED  BY <2>1, <2>3, <3>1, AskedServes
  <2>4. CASE pc[p] # "loop"
    <3>1. Finishing(p, <<Cmd(c)>>)' /\ Kept(q, <<>>)
      BY <2>1, <2>2, <2>4, FinishingReceives
    <3>2. At(q, "ack", c, None, <<>>)'  BY <1>0, <2>1, <3>1, KeptSame
    <3>3. Asked(q, c)'  BY <1>0, <3>1, <3>2 DEF Asked
    <3> QED  BY <1>0, <3>3 DEF Joint
  <2> QED  BY <2>3, <2>4
<1>3. ASSUME NEW c \in Command  PROVE ~Asked(p, c) /\ ~Answered(q, c)
  BY <1>0 DEF Asked, Answered, At
<1>4. ASSUME NEW c \in Command, Answered(p, c)  PROVE Joint'  BY <1>4, AnsweredReceives
<1>5. CASE Offered(p) \/ Offered(q)  BY <1>0, <1>5, OfferedReceives
<1>6. ASSUME NEW c \in Command, Owing(c)  PROVE Joint'  BY <1>6, OwingReceives
<1>7. ASSUME NEW c \in Command, NEW d \in Command, Crossed(c, d)  PROVE Joint'
  BY <1>7, CrossedReceives
<1> QED  BY <1>0, <1>1, <1>2, <1>3, <1>4, <1>5, <1>6, <1>7 DEF Joint

-----------------------------------------------------------------------------
(* No end waits in vain *)

\* Unless both ends are back in their loops, or on their way there alone, there is a
\* message for one of them.
LEMMA JointWaits ==
  ASSUME TypeOK, Joint
  PROVE  \/ \A p \in Peer : inbox[p] = <<>> => pc[p] = "loop"
         \/ \E p \in Peer : inbox[p] # <<>>
<1>0. /\ Initiator \in Peer /\ Acceptor \in Peer /\ <<>> \in Seq(Message)
      /\ Noise \notin ToSet(<<>>)
      /\ \A p \in Peer : Other(p) \in Peer
  BY Peers, MessageSeqs, ToSetShort
<1>1. CASE Apart
  <2>1. \A p \in Peer : Finishing(p, <<>>)  BY <1>1 DEF Apart
  <2>2. \A p \in Peer : inbox[p] = <<>> => pc[p] = "loop"
    BY <1>0, <2>1, FinishingFacts
  <2> QED  BY <2>2
<1>2. ASSUME NEW p \in Peer, NEW c \in Command, Asked(p, c)
      PROVE  inbox[Other(p)] # <<>>
  <2>1. Cmd(c) \in Message /\ Cmd(c).kind = "string" /\ Noise.kind = "noise"
    BY MessageFacts
  <2>2. <<Cmd(c)>> \in Seq(Message) /\ <<Cmd(c)>> # <<>> /\ Noise \notin ToSet(<<Cmd(c)>>)
    BY <2>1, MessageSeqs, ToSetShort
  <2>3. Finishing(Other(p), <<Cmd(c)>>)  BY <1>2 DEF Asked
  <2>4. inbox[Other(p)] = <<>> => <<Cmd(c)>> = <<>>
    BY <1>0, <2>2, <2>3, FinishingFacts
  <2> QED  BY <2>2, <2>4
<1>3. ASSUME NEW p \in Peer, NEW c \in Command, Answered(p, c)
      PROVE  inbox[p] # <<>>
  <2>1. Answer(Other(p), c) \in Seq(Message) /\ Answer(Other(p), c) # <<>>
    BY <1>0, AnswerIs
  <2>2. Behind(p, Answer(Other(p), c))  BY <1>3 DEF Answered
  <2>3. ASSUME pc[p] \in FinalReads,
               inbox[p] = <<Final(Other(p), pc[p])>> \o Answer(Other(p), c)
        PROVE  inbox[p] # <<>>
    <3>1. Final(Other(p), pc[p]) \in Message  BY <1>0, <2>3, FinalFacts
    <3> QED  BY <2>1, <2>3, <3>1, HeadTail
  <2> QED  BY <2>1, <2>2, <2>3 DEF Behind
<1>4. ASSUME NEW p \in Peer, Offered(p)
      PROVE  inbox[p] # <<>> \/ inbox[Other(p)] # <<>>
  <2>1. <<Raw("txId", p)>> # <<>> /\ <<Raw("wanted", "yes")>> # <<>>  OBVIOUS
  <2> QED  BY <1>4, <2>1 DEF Offered, At
<1>5. ASSUME NEW c \in Command, Owing(c)
      PROVE  inbox[Initiator] # <<>> \/ inbox[Acceptor] # <<>>
  <2>1. \A m : <<m>> # <<>>  OBVIOUS
  <2>2. ASSUME NEW x \in Peer, NEW place, NEW o, NEW m, At(x, place, c, o, <<m>>) \/ At(x, place, None, o, <<m>>)
        PROVE  inbox[x] # <<>>
    BY <2>1, <2>2 DEF At
  <2> QED  BY <1>0, <1>5, <2>2 DEF Owing
<1>6. ASSUME NEW c \in Command, NEW d \in Command, Crossed(c, d)
      PROVE  inbox[Initiator] # <<>> \/ inbox[Acceptor] # <<>>
  <2>1. Answer(Initiator, d) \in Seq(Message) /\ Answer(Initiator, d) # <<>>
    BY <1>0, AnswerIs
  <2>2. <<Cmd(c)>> \o Answer(Initiator, d) # <<>>
    <3>1. Cmd(c) \in Message  BY MessageFacts
    <3> QED  BY <2>1, <3>1, HeadTail
  <2>3. ASSUME NEW x \in Peer, NEW place, NEW e, NEW o, NEW s, At(x, place, e, o, s), s # <<>>
        PROVE  inbox[x] # <<>>
    BY <2>3 DEF At
  <2>4. <<Cmd(d)>> # <<>>  OBVIOUS
  <2>5. CASE At(Initiator, "ack", c, None, <<Cmd(d)>>)  BY <1>0, <2>3, <2>4, <2>5
  <2>6. CASE \/ At(Acceptor, "ack", d, None, <<Cmd(c)>> \o Answer(Initiator, d))
             \/ At(Acceptor, "ownAck", d, c, Answer(Initiator, d))
    BY <1>0, <2>1, <2>2, <2>3, <2>6
  <2> QED  BY <1>6, <2>5, <2>6 DEF Crossed
<1> QED  BY <1>0, <1>1, <1>2, <1>3, <1>4, <1>5, <1>6 DEF Joint

LEMMA JointInit ==
  ASSUME Init
  PROVE  Live => Joint
<1> SUFFICES ASSUME Live  PROVE Joint
  OBVIOUS
<1>0. /\ Initiator \in Peer /\ Acceptor \in Peer /\ Initiator # Acceptor
      /\ Other(Initiator) = Acceptor /\ Other(Acceptor) = Initiator
      /\ ~refuses[Initiator] /\ ~refuses[Acceptor]
  BY Peers DEF Live
<1>1. /\ pc[Initiator] = "ack" /\ pc[Acceptor] = "loop"
      /\ owed[Initiator] = None /\ owed[Acceptor] = None
  BY <1>0 DEF Init
<1>2. issued[Initiator] = "sync-chain" /\ issued[Acceptor] = None
  BY <1>0, <1>1 DEF Init
<1>3. "sync-chain" \in Command /\ "sync-chain" # None  BY Commands
<1>4. PICK refusal : inbox = [p \in Peer |->
                    CASE refuses[p] -> <<>>
                      [] refuses[Other(p)] -> refusal[p]
                      [] issued[Other(p)] # None -> <<Cmd(issued[Other(p)])>>
                      [] OTHER -> <<>>]
  BY DEF Init
<1>5. inbox[Initiator] = <<>>  BY <1>0, <1>2, <1>4
<1>6. inbox[Acceptor] = <<Cmd("sync-chain")>>  BY <1>0, <1>2, <1>3, <1>4
<1>7. Asked(Initiator, "sync-chain")
  BY <1>0, <1>1, <1>2, <1>5, <1>6 DEF Asked, At, Finishing
<1> QED  BY <1>0, <1>3, <1>7 DEF Joint

\* A read, or a command issued, leaves the ends at a joint place; no other step but a
\* slow connection's leaves them both running.
LEMMA JointStep ==
  ASSUME TypeOK, PlacesOK, ~stalled /\ Live => Joint, [Next]_vars
  PROVE  (~stalled /\ Live => Joint)'
<1>1. ASSUME NEW p \in Peer, refuses' = refuses, stalled' = stalled,
             \A x \in Peer \ {p} : pc'[x] = pc[x], Running(p), Joint => Joint'
      PROVE  (~stalled /\ Live => Joint)'
  <2>1. Live' => Live  BY <1>1 DEF Live, Running
  <2> QED  BY <1>1, <2>1
<1>2. ASSUME NEW p \in Peer, Receive(p)  PROVE (~stalled /\ Live => Joint)'
  <2>1. pc[p] # "ended"  BY <1>2, ReceivesWhere DEF DataPlaces
  <2>2. /\ refuses' = refuses /\ stalled' = stalled
        /\ \A x \in Peer \ {p} : pc'[x] = pc[x]
    BY <1>2, ReceiveMoves
  <2>3. Joint => Joint'  BY <1>2, JointReceives
  <2>4. Running(p)  BY <2>1 DEF Running
  <2> QED  BY <1>1, <2>2, <2>3, <2>4
<1>3. ASSUME NEW p \in Peer, IssueAny(p)  PROVE (~stalled /\ Live => Joint)'
  <2>1. PICK c \in Command : Issue(p, c)  BY <1>3 DEF IssueAny
  <2>2. /\ refuses' = refuses /\ stalled' = stalled /\ Running(p)
        /\ \A x \in Peer \ {p} : pc'[x] = pc[x]
    BY <2>1, Typed DEF Issue, Running
  <2>3. Joint => Joint'  BY <2>1, JointIssue
  <2> QED  BY <1>1, <2>2, <2>3
<1>4. ASSUME NEW p \in Peer, Timeout(p) \/ LoseByte(p)  PROVE (~stalled /\ Live => Joint)'
  BY <1>4 DEF Timeout, LoseByte
<1>5. ASSUME NEW p \in Peer, Hangup(p)  PROVE (~stalled /\ Live => Joint)'
  <2>1. pc'[p] = "ended"  BY <1>5, Typed DEF Hangup
  <2> QED  BY <2>1 DEF Live, Running
<1>6. ASSUME NEW p \in Peer, Collect(p)  PROVE (~stalled /\ Live => Joint)'
  <2>1. pc'[p] = "ended"  BY <1>6 DEF Collect
  <2> QED  BY <2>1 DEF Live, Running
<1>7. CASE UNCHANGED vars
  <2>1. /\ Live' = Live /\ stalled' = stalled
        /\ pc' = pc /\ issued' = issued /\ owed' = owed /\ inbox' = inbox
    BY <1>7 DEF vars, Live, Running
  <2>2. Joint' = Joint
    BY <2>1 DEF Joint, Apart, Asked, Answered, Offered, Crossed, Owing, ServesFirst, At,
                Finishing, Behind
  <2> QED  BY <2>1, <2>2
<1> QED  BY <1>2, <1>3, <1>4, <1>5, <1>6, <1>7 DEF Next

\* While the connection is fast enough, two peers that run never wait on each other,
\* nor one for what the other will not write, however the commands of their Loops
\* cross in issueCommand.
THEOREM NobodyWaitsInVain == Spec => []NoVainWait
<1>1. Init => TypeOK /\ PlacesOK /\ (~stalled /\ Live => Joint)  BY TypesInit, JointInit
<1>2. /\ TypeOK /\ PlacesOK /\ (~stalled /\ Live => Joint) /\ [Next]_vars
      => (TypeOK /\ PlacesOK /\ (~stalled /\ Live => Joint))'
  BY TypesStep, JointStep
<1>3. TypeOK /\ (~stalled /\ Live => Joint) => NoVainWait
  <2> SUFFICES ASSUME TypeOK, ~stalled, Live, Joint, NEW p \in Peer, pc[p] \in Waits,
                      inbox[p] = <<>>
               PROVE  inbox[Other(p)] # <<>>
    BY DEF NoVainWait, Live
  <2>1. pc[p] # "loop"  BY DEF Waits
  <2>2. PICK x \in Peer : inbox[x] # <<>>  BY <2>1, JointWaits
  <2>3. x = p \/ x = Other(p)  BY Peers
  <2> QED  BY <2>2, <2>3
<1> QED  BY <1>1, <1>2, <1>3, PTL DEF Spec

-----------------------------------------------------------------------------
(* Streams in order *)

LEMMA NoCommand ==
  \A c \in Command : Eof # Cmd(c) /\ Noise # Cmd(c) /\ \A d \in Command : Ack(d) # Cmd(c)
<1>1. /\ Eof.kind = "eof" /\ Noise.kind = "noise"
      /\ \A c \in Command : Cmd(c).kind = "string"
  BY MessageFacts
<1>2. \A c \in Command : Eof # Cmd(c) /\ Noise # Cmd(c)  BY <1>1
<1> QED  BY <1>2, CmdIs

LEMMA ShortTidy ==
  /\ OnlyEof(<<>>) /\ OnlyEof(<<Eof>>) /\ \A m : Tidy(<<m>>)
  /\ Tidy(<<>>)
<1>1. DOMAIN <<>> = {} /\ \A m : DOMAIN <<m>> = {1} /\ <<m>>[1] = m  OBVIOUS
<1> QED  BY <1>1 DEF OnlyEof, Tidy

LEMMA TidyTail ==
  ASSUME NEW s \in Seq(Message)
  PROVE  /\ OnlyEof(s) => Tidy(s)
         /\ s # <<>> /\ OnlyEof(s) => Head(s) = Eof /\ OnlyEof(Tail(s))
         /\ s # <<>> /\ Tidy(s) => Tidy(Tail(s))
         /\ \A c \in Command : s # <<>> /\ Tidy(s) /\ Head(s) = Cmd(c) => OnlyEof(Tail(s))
<1>1. /\ s # <<>> => /\ 1 \in DOMAIN s /\ Head(s) = s[1]
                     /\ \A i \in DOMAIN Tail(s) :
                           i \in Nat /\ i + 1 \in DOMAIN s /\ Tail(s)[i] = s[i + 1] /\ 1 < i + 1
  <2> SUFFICES ASSUME s # <<>>
               PROVE  /\ 1 \in DOMAIN s /\ Head(s) = s[1]
                      /\ \A i \in DOMAIN Tail(s) :
                            i \in Nat /\ i + 1 \in DOMAIN s /\ Tail(s)[i] = s[i + 1] /\ 1 < i + 1
    OBVIOUS
  <2>1. /\ Len(s) \in Nat /\ Len(s) # 0 /\ DOMAIN s = 1..Len(s)
        /\ DOMAIN Tail(s) = 1..(Len(s) - 1) /\ Head(s) = s[1]
        /\ \A i \in 1..(Len(s) - 1) : Tail(s)[i] = s[i + 1]
    OBVIOUS
  <2> QED  BY <2>1
<1>2. OnlyEof(s) => Tidy(s)  BY DEF OnlyEof, Tidy
<1>3. s # <<>> /\ OnlyEof(s) => Head(s) = Eof /\ OnlyEof(Tail(s))  BY <1>1 DEF OnlyEof
<1>4. s # <<>> /\ Tidy(s) => Tidy(Tail(s))
  <2> SUFFICES ASSUME s # <<>>, Tidy(s), NEW i \in DOMAIN Tail(s), NEW j \in DOMAIN Tail(s), i < j,
                      \E c \in Command : Tail(s)[i] = Cmd(c)
               PROVE  Tail(s)[j] = Eof
    BY DEF Tidy
  <2>1. i + 1 < j + 1  BY <1>1
  <2>2. s[j + 1] = Eof  BY <1>1, <2>1 DEF Tidy
  <2> QED  BY <1>1, <2>2
<1>5. ASSUME NEW c \in Command, s # <<>>, Tidy(s), Head(s) = Cmd(c)  PROVE OnlyEof(Tail(s))
  BY <1>1, <1>5 DEF OnlyEof, Tidy
<1> QED  BY <1>2, <1>3, <1>4, <1>5

LEMMA TidyCons ==
  ASSUME NEW m \in Message, NEW t \in Seq(Message)
  PROVE  /\ OnlyEof(t) => Tidy(<<m>> \o t)
         /\ (\A c \in Command : m # Cmd(c)) /\ Tidy(t) => Tidy(<<m>> \o t)
<1> DEFINE s == <<m>> \o t
<1>1. /\ s[1] = m
      /\ \A i \in DOMAIN s : i \in Nat \ {0} /\ (i # 1 => i - 1 \in DOMAIN t /\ s[i] = t[i - 1])
  <2>1. /\ Len(t) \in Nat /\ DOMAIN s = 1..(Len(t) + 1) /\ DOMAIN t = 1..Len(t) /\ s[1] = m
        /\ \A i \in 2..(Len(t) + 1) : s[i] = t[i - 1]
    OBVIOUS
  <2> QED  BY <2>1
<1> HIDE DEF s
<1>2. ASSUME OnlyEof(t)  PROVE Tidy(s)
  <2> SUFFICES ASSUME NEW i \in DOMAIN s, NEW j \in DOMAIN s, i < j  PROVE s[j] = Eof
    BY DEF Tidy
  <2>1. j # 1  BY <1>1
  <2> QED  BY <1>1, <1>2, <2>1 DEF OnlyEof
<1>3. ASSUME \A c \in Command : m # Cmd(c), Tidy(t)  PROVE Tidy(s)
  <2> SUFFICES ASSUME NEW i \in DOMAIN s, NEW j \in DOMAIN s, i < j,
                      \E c \in Command : s[i] = Cmd(c)
               PROVE  s[j] = Eof
    BY DEF Tidy
  <2>1. i # 1 /\ j # 1 /\ i - 1 < j - 1  BY <1>1, <1>3
  <2>2. t[j - 1] = Eof  BY <1>1, <1>3, <2>1 DEF Tidy
  <2> QED  BY <1>1, <2>1, <2>2
<1> QED  BY <1>2, <1>3 DEF s

LEMMA AppendIs ==
  ASSUME NEW S, NEW s \in Seq(S), NEW m \in S
  PROVE  /\ s = <<>> => Append(s, m) = <<m>>
         /\ Append(s, m) # <<>>
         /\ s # <<>> => Head(Append(s, m)) = Head(s) /\ Tail(Append(s, m)) = Append(Tail(s), m)
<1>1. s = <<>> => Append(s, m) = <<m>>  OBVIOUS
<1>2. Append(s, m) # <<>>
  <2>1. Len(Append(s, m)) = Len(s) + 1 /\ Len(s) \in Nat  OBVIOUS
  <2>2. Len(<<>>) = 0  OBVIOUS
  <2> QED  BY <2>1, <2>2
<1>3. s # <<>> => Head(Append(s, m)) = Head(s)  OBVIOUS
<1>4. s # <<>> => Tail(Append(s, m)) = Append(Tail(s), m)  OBVIOUS
<1> QED  BY <1>1, <1>2, <1>3, <1>4

\* The other end ends.
LEMMA EndAppended ==
  ASSUME NEW s \in Seq(Message)
  PROVE  /\ OnlyEof(s) => OnlyEof(Append(s, Eof))
         /\ Tidy(s) => Tidy(Append(s, Eof))
         /\ s = <<>> => Append(s, Eof) = <<Eof>>
         /\ Append(s, Eof) # <<>>
         /\ s # <<>> => /\ Head(Append(s, Eof)) = Head(s)
                        /\ Tail(Append(s, Eof)) = Append(Tail(s), Eof)
<1> DEFINE a == Append(s, Eof)
<1>1. \A i \in DOMAIN a :
         i \in Nat /\ IF i = Len(s) + 1 THEN a[i] = Eof ELSE i \in DOMAIN s /\ a[i] = s[i]
  <2>1. /\ Len(s) \in Nat /\ DOMAIN a = 1..(Len(s) + 1) /\ DOMAIN s = 1..Len(s)
        /\ a[Len(s) + 1] = Eof /\ \A i \in 1..Len(s) : a[i] = s[i]
    BY MessageFacts
  <2> QED  BY <2>1
<1>2. /\ s = <<>> => a = <<Eof>>
      /\ a # <<>>
      /\ s # <<>> => Head(a) = Head(s) /\ Tail(a) = Append(Tail(s), Eof)
  BY MessageFacts, AppendIs
<1> HIDE DEF a
<1>3. OnlyEof(s) => OnlyEof(a)  BY <1>1 DEF OnlyEof
<1>4. Tidy(s) => Tidy(a)
  <2> SUFFICES ASSUME Tidy(s), NEW i \in DOMAIN a, NEW j \in DOMAIN a, i < j,
                      \E c \in Command : a[i] = Cmd(c)
               PROVE  a[j] = Eof
    BY DEF Tidy
  <2>1. CASE j = Len(s) + 1  BY <1>1, <2>1
  <2>2. CASE j # Len(s) + 1
    <3>1. j \in DOMAIN s /\ a[j] = s[j]  BY <1>1, <2>2
    <3>2. j \in 1..Len(s) /\ Len(s) \in Nat  BY <3>1
    <3>3. i \in DOMAIN s /\ a[i] = s[i]  BY <1>1, <3>2
    <3> QED  BY <3>1, <3>3 DEF Tidy
  <2> QED  BY <2>1, <2>2
<1> QED  BY <1>2, <1>3, <1>4 DEF a

-----------------------------------------------------------------------------
(* An end reads in order *)

LEMMA ExpectedIs ==
  ASSUME NEW p \in Peer
  PROVE  /\ \A x \in FinalReads : Expected(p, x) = {Final(Other(p), x)}
         /\ Expected(p, "txId") = {Raw("txId", Other(p))}
         /\ Expected(p, "wanted") = {Raw("wanted", "yes"), Raw("wanted", "no")}
<1>1. "txId" \notin FinalReads /\ "wanted" \notin FinalReads  BY PlaceSets
<1>2. ASSUME NEW x \in FinalReads  PROVE Expected(p, x) = {Final(Other(p), x)}
  <2>1. x # "txId" /\ x # "wanted"  BY <1>1
  <2> QED  BY <2>1 DEF Expected
<1>3. /\ Expected(p, "txId") = {Raw("txId", Other(p))}
      /\ Expected(p, "wanted") = {Raw("wanted", "yes"), Raw("wanted", "no")}
  BY <1>1 DEF Expected
<1> QED  BY <1>2, <1>3

LEMMA ExpectedFacts ==
  ASSUME NEW p \in Peer, NEW x \in DataPlaces, NEW m \in Expected(p, x)
  PROVE  /\ m \in Message /\ m.kind = DataKind(x) /\ m # Eof /\ m # Noise
         /\ \A c \in Command : m # Cmd(c) /\ m # Ack(c)
<1>0. Other(p) \in Peer  BY Peers
<1>1. /\ \A c \in Command : Cmd(c).val = <<"cmd", c>> /\ Ack(c).val = <<"ack", c>>
      /\ Eof.kind = "eof" /\ Noise.kind = "noise"
  BY MessageFacts
<1>2. m \in Message /\ m.kind = DataKind(x) /\ \E y : m.val = <<x, y>>
  <2>1. CASE x \in FinalReads
    <3>1. m = Final(Other(p), x)  BY <2>1, ExpectedIs
    <3> QED  BY <1>0, <2>1, <3>1, FinalFacts DEF DataKind
  <2>2. CASE x = "txId"
    <3>1. m = Raw("txId", Other(p))  BY <2>2, ExpectedIs
    <3> QED  BY <1>0, <2>2, <3>1, MessageFacts DEF DataKind
  <2>3. CASE x = "wanted"
    <3>1. PICK y \in {"yes", "no"} : m = Raw("wanted", y)  BY <2>3, ExpectedIs
    <3> QED  BY <2>3, <3>1, MessageFacts DEF DataKind
  <2> QED  BY <2>1, <2>2, <2>3, PlaceSets
<1>3. DataKind(x) # "eof" /\ DataKind(x) # "noise" /\ x # "cmd" /\ x # "ack"
  BY DEF DataKind, DataPlaces
<1>4. m # Eof /\ m # Noise  BY <1>1, <1>2, <1>3
<1>5. ASSUME NEW c \in Command  PROVE m # Cmd(c) /\ m # Ack(c)
  <2>1. PICK y : m.val = <<x, y>>  BY <1>2
  <2>2. <<x, y>> # <<"cmd", c>> /\ <<x, y>> # <<"ack", c>>  BY <1>3
  <2> QED  BY <1>1, <2>1, <2>2
<1> QED  BY <1>2, <1>4, <1>5

LEMMA ProperFacts ==
  ASSUME NEW p \in Peer, NEW place, NEW c \in Command \cup {None}, NEW o, NEW s \in Seq(Message)
  PROVE  /\ OnlyEof(s) => Proper(p, place, c, o, s)
         /\ /\ Tidy(s) /\ place \notin {"addr", "addrs", "tx", "txId", "ownAck"}
            /\ o = None \/ place \notin {"wanted", "hello"}
            => Proper(p, place, c, o, s)
         /\ Became(p, place, c, o, s) /\ Proper(p, place, c, o, s) => InOrder(p)'
<1>1. ASSUME OnlyEof(s)  PROVE Proper(p, place, c, o, s)
  <2>1. Tidy(s) /\ (s # <<>> => Head(s) = Eof)  BY <1>1, TidyTail
  <2>2. Eof # Ack(c)  BY DEF Eof, Ack, String
  <2> QED  BY <1>1, <2>1, <2>2 DEF Proper, Brings
<1>2. /\ Tidy(s) /\ place \notin {"addr", "addrs", "tx", "txId", "ownAck"}
      /\ o = None \/ place \notin {"wanted", "hello"}
      => Proper(p, place, c, o, s)
  BY DEF Proper
<1>3. Became(p, place, c, o, s) /\ Proper(p, place, c, o, s) => InOrder(p)'
  BY DEF Became, InOrder
<1> QED  BY <1>1, <1>2, <1>3

LEMMA LeftTidy ==
  ASSUME TypeOK, NEW p \in Peer, inbox[p] # <<>>, NEW kind, Tidy(inbox[p])
  PROVE  (\A rest \in Lefts(p, kind) : Tidy(rest)) /\ Tidy(Tail(inbox[p]))
<1>1. inbox[p] \in Seq(Message)  BY Typed
<1>2. Tidy(Tail(inbox[p]))  BY <1>1, TidyTail
<1>3. \A rest \in Garbled(inbox[p]) : Tidy(rest)  BY GarbledIs, ShortTidy
<1> QED  BY <1>2, <1>3 DEF Lefts

\* Where the stream holds a command at its head.
LEMMA CommandAhead ==
  ASSUME TypeOK, NEW p \in Peer, InOrder(p), pc[p] \in {"loop", "ack"}, inbox[p] # <<>>,
         NEW c \in Command, Head(inbox[p]) = Cmd(c)
  PROVE  \/ OnlyEof(Tail(inbox[p]))
         \/ /\ c = "peer-addrs" /\ Tail(inbox[p]) # <<>> /\ Tidy(Tail(inbox[p]))
            /\ Head(Tail(inbox[p])) = Final(Other(p), "addrs")
         \/ p = Acceptor /\ pc[p] = "ack" /\ Proper(p, "ownAck", issued[p], None, Tail(inbox[p]))
<1>1. Proper(p, pc[p], issued[p], owed[p], inbox[p]) \/ Refused(p) \/ Passed(p)
  BY DEF InOrder
<1>2. CASE Proper(p, pc[p], issued[p], owed[p], inbox[p])
  BY <1>2, Typed, TidyTail DEF Proper
<1>3. CASE Refused(p)
  <2>1. Cmd(c) = Cmd("peer-addrs")  BY <1>3 DEF Refused
  <2>2. c = "peer-addrs"  BY <2>1, CmdIs, Commands
  <2> QED  BY <1>3, <2>2 DEF Refused
<1>4. CASE Passed(p)  BY <1>4 DEF Passed
<1> QED  BY <1>1, <1>2, <1>3, <1>4

\* And where it does not.
LEMMA NoCommandAhead ==
  ASSUME TypeOK, NEW p \in Peer, InOrder(p), pc[p] \notin Deaf,
         pc[p] \in {"loop", "ack"} => \A c \in Command : Head(inbox[p]) # Cmd(c)
  PROVE  Proper(p, pc[p], issued[p], owed[p], inbox[p]) /\ Tidy(inbox[p])
<1>1. ~Refused(p)  BY Commands DEF Refused
<1>2. ~Passed(p)  BY DEF Passed
<1>3. Proper(p, pc[p], issued[p], owed[p], inbox[p])  BY <1>1, <1>2 DEF InOrder
<1> QED  BY <1>3 DEF Proper

LEMMA ServedInOrder ==
  ASSUME TypeOK, PlacesOK, NEW p \in Peer, InOrder(p), inbox[p] # <<>>,
         pc[p] = "loop" \/ (pc[p] = "ack" /\ p = Initiator), Served(p)
  PROVE  InOrder(p)'
<1>1. PICK c \in Command :
         /\ Head(inbox[p]) = Cmd(c) /\ owed[p] = None
         /\ StepsTo(p, Serve(p, c), issued[p], Tail(inbox[p]))
  BY ServedSteps
<1>2. /\ issued[p] \in Command \cup {None} /\ Tail(inbox[p]) \in Seq(Message)
      /\ Answer(p, c) \in Seq(Message)
  BY Typed, LeftTyped, AnswerIs
<1>3. PICK pub : Step(p, IF c # "addrs-request" THEN Serve(p, c).at
                         ELSE IF issued[p] = None THEN "loop" ELSE "ackAfter",
                      issued[p], None, Tail(inbox[p]), Answer(p, c), pub)
  BY <1>1, <1>2, ServeSteps
<1> DEFINE place == IF c # "addrs-request" THEN Serve(p, c).at
                    ELSE IF issued[p] = None THEN "loop" ELSE "ackAfter"
<1>4. Became(p, place, issued[p], None, Tail(inbox[p]))  BY <1>2, <1>3, StepIs
<1>5. Proper(p, place, issued[p], None, Tail(inbox[p]))
  <2>1. CASE OnlyEof(Tail(inbox[p]))  BY <1>2, <2>1, ProperFacts
  <2>2. CASE /\ c = "peer-addrs" /\ Tail(inbox[p]) # <<>> /\ Tidy(Tail(inbox[p]))
             /\ Head(Tail(inbox[p])) = Final(Other(p), "addrs")
    <3>1. Serve(p, "peer-addrs").at = "addrs"  BY ServeIs DEF Then
    <3>2. place = "addrs"  BY <2>2, <3>1
    <3>3. Head(Tail(inbox[p])) \in Expected(p, "addrs")  BY <2>2, ExpectedIs, PlaceSets
    <3> HIDE DEF place
    <3> QED  BY <2>2, <3>2, <3>3 DEF Proper
  <2> QED  BY <1>1, <2>1, <2>2, CommandAhead, Peers
<1> HIDE DEF place
<1> QED  BY <1>2, <1>4, <1>5, ProperFacts

LEMMA PostponedInOrder ==
  ASSUME TypeOK, PlacesOK, NEW p \in Peer, InOrder(p), pc[p] = "ack", inbox[p] # <<>>,
         p = Acceptor, Postponed(p)
  PROVE  InOrder(p)'
<1>1. PICK c \in Command :
         /\ Head(inbox[p]) = Cmd(c) /\ owed' = [owed EXCEPT ![p] = c]
         /\ pc' = [pc EXCEPT ![p] = "ownAck"]
         /\ inbox' = [inbox EXCEPT ![p] = Tail(inbox[p])]
         /\ UNCHANGED <<refuses, coming, issued, heard, said, stalled>>
  BY DEF Postponed
<1>2. issued[p] \in Command \cup {None} /\ Tail(inbox[p]) \in Seq(Message)  BY Typed, LeftTyped
<1>3. Became(p, "ownAck", issued[p], c, Tail(inbox[p]))  BY <1>1, Typed DEF Became
<1>4. Proper(p, "ownAck", issued[p], c, Tail(inbox[p]))
  <2>1. CASE OnlyEof(Tail(inbox[p]))  BY <1>2, <2>1, ProperFacts
  <2>2. CASE /\ Tidy(Tail(inbox[p])) /\ Head(Tail(inbox[p])) = Final(Other(p), "addrs")
    <3>1. Head(Tail(inbox[p])) \in Expected(p, "addrs")  BY <2>2, ExpectedIs, PlaceSets
    <3>2. issued[p] \in Command  BY Typed DEF TypeOK
    <3>3. "addrs" \in DataPlaces  BY PlaceSets
    <3>4. Head(Tail(inbox[p])) # Ack(issued[p])  BY <3>1, <3>2, <3>3, ExpectedFacts
    <3> QED  BY <2>2, <3>4 DEF Proper
  <2>3. CASE Proper(p, "ownAck", issued[p], None, Tail(inbox[p]))
    BY <2>3 DEF Proper
  <2> QED  BY <1>1, <2>1, <2>2, <2>3, CommandAhead
<1> QED  BY <1>2, <1>3, <1>4, ProperFacts

LEMMA MisledInOrder ==
  ASSUME TypeOK, NEW p \in Peer, inbox[p] # <<>>, Misled(p)
  PROVE  InOrder(p)'
<1>1. PICK rest \in {<<>>, <<Eof>>} : inbox' = [inbox EXCEPT ![p] = rest]
  BY DEF Misled
<1>2. Became(p, "ownAck", issued[p], Unknown, rest)  BY <1>1, Typed DEF Misled, Became
<1>3. rest \in Seq(Message) /\ OnlyEof(rest)  BY MessageFacts, MessageSeqs, ShortTidy
<1>4. issued[p] \in Command \cup {None}  BY Typed
<1> QED  BY <1>2, <1>3, <1>4, ProperFacts

LEMMA RanIssuedInOrder ==
  ASSUME TypeOK, PlacesOK, NEW p \in Peer, InOrder(p), inbox[p] # <<>>,
         pc[p] \in {"ack", "ownAck", "ackAfter"}, issued[p] \in Command, RanIssued(p)
  PROVE  InOrder(p)'
<1> DEFINE c == issued[p]
           t == Tail(inbox[p])
<1>1. Head(inbox[p]) = Ack(c) /\ StepsTo(p, Write(p, c), None, t)
  BY RanIssuedSteps
<1>2. Proper(p, pc[p], c, owed[p], inbox[p]) /\ Tidy(inbox[p])
  <2>1. \A d \in Command : Head(inbox[p]) # Cmd(d)  BY <1>1, CmdIs
  <2> QED  BY <2>1, NoCommandAhead
<1>3. t \in Seq(Message) /\ Tidy(t) /\ owed[p] \in Owable \cup {None} /\ c \in Command
  BY <1>2, LeftTyped, LeftTidy, Typed
<1>4. /\ <<Final(p, "addrs")>> \in Seq(Message) /\ <<Final(p, "addr")>> \in Seq(Message)
      /\ <<Final(p, "hello")>> \in Seq(Message) /\ <<Raw("txId", p)>> \in Seq(Message)
      /\ <<>> \in Seq(Message)
  BY FinalFacts, MessageFacts, MessageSeqs, PlaceSets
<1> HIDE DEF c, t
<1>5. ASSUME NEW place, NEW o \in Owable \cup {None}, NEW out \in Seq(Message), NEW pub,
             Step(p, place, None, o, t, out, pub), Proper(p, place, None, o, t)
      PROVE  InOrder(p)'
  <2>1. Became(p, place, None, o, t)  BY <1>3, <1>5, StepIs
  <2> QED  BY <1>3, <1>5, <2>1, ProperFacts
<1>6. CASE owed[p] = None
  <2>1. /\ Proper(p, "loop", None, None, t) /\ Proper(p, "wanted", None, None, t)
        /\ Proper(p, "hello", None, None, t)
    BY <1>3, ProperFacts
  <2>2. \E place \in {"loop", "wanted", "hello"} : \E out \in Seq(Message) : \E pub :
           Step(p, place, None, None, t, out, pub)
    BY <1>1, <1>3, <1>4, <1>6, WriteSteps, Commands
  <2> QED  BY <1>5, <2>1, <2>2
<1>7. CASE owed[p] \in Owable
  <2> DEFINE o == owed[p]
  <2>1. pc[p] = "ownAck"
    <3>1. owed[p] # None  BY <1>7, Commands DEF Owable
    <3> QED  BY <3>1, OwesWhere
  <2>2. BringsRest(p, c, t)  BY <1>1, <1>2, <2>1 DEF Proper, t
  <2>3. Answer(p, o) \in Seq(Message)  BY <1>7, AnswerOwed
  <2> HIDE DEF o
  <2>4. ASSUME c # "sync-chain", NEW place, NEW q \in Owable \cup {None}
        PROVE  Proper(p, place, None, q, t)
    BY <1>3, <2>2, <2>4, ProperFacts DEF BringsRest
  <2>5. CASE c = "sync-chain"
    <3>1. Step(p, "hello", None, o, t, <<Final(p, "hello")>>, {})
      BY <1>1, <1>3, <1>7, <2>5, OwingSteps DEF o
    <3>2. Proper(p, "hello", None, o, t)
      BY <1>3, <2>2, <2>5 DEF BringsRest, Proper
    <3> QED  BY <1>3, <1>4, <1>5, <3>1, <3>2 DEF o
  <2>6. CASE c = "new-tx"
    <3>1. Step(p, "wanted", None, o, t, <<Raw("txId", p)>>, {})
      BY <1>1, <1>3, <1>7, <2>6, OwingSteps DEF o
    <3> QED  BY <1>3, <1>4, <1>5, <2>4, <2>6, <3>1 DEF o
  <2>7. CASE c \in {"addrs-request", "peer-addrs", "announce-addr"}
    <3>1. \E out \in Seq(Message) : \E pub :
             Step(p, Serve(p, o).at, None, None, t, out \o Answer(p, o), pub)
      BY <1>1, <1>3, <1>4, <1>7, <2>7, OwingSteps DEF o
    <3>2. \A out \in Seq(Message) : out \o Answer(p, o) \in Seq(Message)  BY <2>3, Joining
    <3> QED  BY <1>5, <2>4, <2>7, <3>1, <3>2
  <2> QED  BY <1>3, <2>5, <2>6, <2>7, Commands
<1> QED  BY <1>3, <1>6, <1>7

LEMMA GivenUpInOrder ==
  ASSUME TypeOK, NEW p \in Peer, inbox[p] # <<>>, Tidy(inbox[p]), NEW kind, GivenUp(p, kind)
  PROVE  InOrder(p)'
<1>1. PICK rest \in Lefts(p, kind), out \in {<<>>, <<Ack(Unknown)>>} :
         Step(p, "loop", None, None, rest, out, {})
  BY DEF GivenUp
<1>2. rest \in Seq(Message) /\ Tidy(rest)  BY LeftTyped, LeftTidy
<1>3. out \in Seq(Message)  BY MessageFacts, MessageSeqs
<1>4. Became(p, "loop", None, None, rest)  BY <1>1, <1>2, <1>3, StepIs
<1> QED  BY <1>2, <1>4, ProperFacts

\* A handler goes on: to its next read, or to what the end has still to do.
LEMMA HandledInOrder ==
  ASSUME TypeOK, PlacesOK, NEW p \in Peer, InOrder(p), inbox[p] # <<>>, pc[p] \in DataPlaces,
         Handled(p)
  PROVE  InOrder(p)'
<1> DEFINE kind == DataKind(pc[p])
<1>1. Proper(p, pc[p], issued[p], owed[p], inbox[p]) /\ Tidy(inbox[p])
  BY NoCommandAhead DEF DataPlaces
<1>2. PICK val \in Val, rest \in Lefts(p, kind) : \E h \in Received(p, pc[p], val) :
         /\ Head(inbox[p]) # Eof /\ (Clean(p, kind) => val = Head(inbox[p]).val)
         /\ h \in Handler /\ StepsTo(p, h, issued[p], rest)
  BY HandledGoes
<1>3. PICK h \in Received(p, pc[p], val) :
         h \in Handler /\ StepsTo(p, h, issued[p], rest)
  BY <1>2
<1>4. /\ rest \in Seq(Message) /\ Tidy(rest)
      /\ issued[p] \in Command \cup {None} /\ owed[p] \in Owable \cup {None}
      /\ h.out \in Seq(Message) /\ inbox[p] \in Seq(Message)
      /\ h.at # "loop" => pc[p] = "txId" /\ h.at = "tx"
  <2>1. h.at \in {"loop", "tx"} /\ h.out \in Seq(Message)
    BY <1>3, ReceivedTyped DEF Handler
  <2>2. h.at # "loop" => pc[p] = "txId"
    <3>1. pc[p] \in FinalReads => h.at = "loop"  BY <1>3, FinalHandlers
    <3>2. pc[p] = "wanted" => h.at = "loop"  BY <1>3, WantedHandlers
    <3> QED  BY <3>1, <3>2, PlaceSets
  <2> QED  BY <1>1, <2>1, <2>2, LeftTyped, LeftTidy, Typed
<1>5. ASSUME Brings(p, pc[p], inbox[p])
      PROVE  OnlyEof(rest)
  <2>1. Head(inbox[p]) \in Expected(p, pc[p]) /\ OnlyEof(Tail(inbox[p]))
    BY <1>2, <1>4, <1>5, TidyTail DEF Brings
  <2>2. Clean(p, kind)  BY <2>1, ExpectedFacts DEF Clean
  <2> QED  BY <2>1, <2>2 DEF Lefts
<1> HIDE DEF kind
<1>6. ASSUME NEW place, NEW o \in Owable \cup {None}, NEW out \in Seq(Message), NEW pub,
             Step(p, place, issued[p], o, rest, out, pub),
             Proper(p, place, issued[p], o, rest)
      PROVE  InOrder(p)'
  <2>1. Became(p, place, issued[p], o, rest)  BY <1>4, <1>6, StepIs
  <2> QED  BY <1>4, <1>6, <2>1, ProperFacts
<1>7. CASE h.at = "loop" /\ owed[p] = None
  <2> DEFINE place == IF issued[p] = None THEN "loop" ELSE "ackAfter"
  <2>1. Step(p, place, issued[p], None, rest, h.out, h.pub)
    BY <1>3, <1>7, StepsToIs
  <2>2. place \in {"loop", "ackAfter"}  OBVIOUS
  <2> HIDE DEF place
  <2>3. Proper(p, place, issued[p], None, rest)  BY <1>4, <2>2, ProperFacts
  <2> QED  BY <1>4, <1>6, <2>1, <2>3
<1>8. CASE h.at = "loop" /\ owed[p] # None
  <2>1. Brings(p, pc[p], inbox[p])
    BY <1>1, <1>8, OwesWhere, PlaceSets DEF Proper
  <2>2. Step(p, Serve(p, owed[p]).at, issued[p], None, rest,
             h.out \o Answer(p, owed[p]), h.pub \cup Serve(p, owed[p]).pub)
    BY <1>3, <1>8, StepsToIs
  <2>3. Proper(p, Serve(p, owed[p]).at, issued[p], None, rest)
    BY <1>4, <1>5, <2>1, ProperFacts
  <2>4. h.out \o Answer(p, owed[p]) \in Seq(Message)
    <3>1. Answer(p, owed[p]) \in Seq(Message)  BY <1>4, <1>8, AnswerOwed
    <3> QED  BY <1>4, <3>1, Joining
  <2> QED  BY <1>4, <1>6, <2>2, <2>3, <2>4
<1>9. CASE h.at # "loop"
  <2>1. Brings(p, pc[p], inbox[p])  BY <1>1, <1>4, <1>9 DEF Proper
  <2>2. Step(p, h.at, issued[p], owed[p], rest, h.out, h.pub)
    BY <1>3, <1>9, StepsToIs
  <2>3. Proper(p, h.at, issued[p], owed[p], rest)  BY <1>4, <1>5, <2>1, ProperFacts
  <2> QED  BY <1>4, <1>6, <2>2, <2>3
<1> QED  BY <1>7, <1>8, <1>9

\* Whatever an end reads, and whatever became of the other.
LEMMA ReceiveInOrder ==
  ASSUME TypeOK, PlacesOK, NEW p \in Peer, InOrder(p), Receive(p)
  PROVE  InOrder(p)'
<1>0. inbox[p] # <<>>  BY ReceivesWhere
<1>1. ASSUME Spin(p) \/ \E kind : Ends(p, kind)  PROVE InOrder(p)'
  <2>1. pc'[p] \in Deaf  BY <1>1, Typed DEF Spin, Ends, End
  <2> QED  BY <2>1 DEF InOrder
<1>2. CASE ReadCommand(p)
  <2>1. CASE Served(p)  BY <1>0, <1>2, <2>1, ReadCommandIs, ServedInOrder
  <2>2. CASE GivenUp(p, "string") /\ \A c \in Command : Head(inbox[p]) # Cmd(c)
    <3>1. pc[p] = "loop"  BY <1>2, ReadCommandIs
    <3>2. Tidy(inbox[p])  BY <2>2, <3>1, NoCommandAhead
    <3> QED  BY <1>0, <2>2, <3>2, GivenUpInOrder
  <2> QED  BY <1>1, <1>2, <2>1, <2>2, ReadCommandIs
<1>3. CASE ReadAnswer(p)
  <2>1. pc[p] = "ack" /\ issued[p] \in Command  BY <1>3, ReadAnswerIs
  <2>2. CASE RanIssued(p)  BY <1>0, <2>1, <2>2, RanIssuedInOrder
  <2>3. CASE p = Initiator /\ Served(p)  BY <1>0, <2>1, <2>3, ServedInOrder
  <2>4. CASE p = Acceptor /\ Postponed(p)  BY <1>0, <2>1, <2>4, PostponedInOrder
  <2>5. CASE GivenUp(p, "string") /\ \A c \in Command : Head(inbox[p]) # Cmd(c)
    <3>1. Tidy(inbox[p])  BY <2>1, <2>5, NoCommandAhead
    <3> QED  BY <1>0, <2>5, <3>1, GivenUpInOrder
  <2>6. CASE Misled(p)  BY <1>0, <2>6, MisledInOrder
  <2> QED  BY <1>1, <1>3, <2>2, <2>3, <2>4, <2>5, <2>6, ReadAnswerIs
<1>4. CASE ReadOwnAck(p)
  <2>1. pc[p] \in {"ownAck", "ackAfter"} /\ issued[p] \in Command  BY <1>4, ReadOwnAckIs
  <2>2. CASE RanIssued(p)  BY <1>0, <2>1, <2>2, RanIssuedInOrder
  <2>3. CASE GivenUp(p, "string")
    <3>1. Tidy(inbox[p])  BY <2>1, NoCommandAhead
    <3> QED  BY <1>0, <2>3, <3>1, GivenUpInOrder
  <2> QED  BY <1>4, <2>2, <2>3, ReadOwnAckIs
<1>5. CASE ReadData(p)
  <2>1. pc[p] \in DataPlaces  BY <1>5, ReadDataIs
  <2>2. CASE Handled(p)  BY <1>0, <2>1, <2>2, HandledInOrder
  <2>3. CASE GivenUp(p, DataKind(pc[p]))
    <3>1. Tidy(inbox[p])  BY <2>1, NoCommandAhead DEF DataPlaces
    <3> QED  BY <1>0, <2>3, <3>1, GivenUpInOrder
  <2> QED  BY <1>1, <1>5, <2>2, <2>3, ReadDataIs
<1> QED  BY <1>2, <1>3, <1>4, <1>5 DEF Receive

-----------------------------------------------------------------------------
(* At a joint place both ends read in order, and what they wait for *)

Ready(p) ==
    /\ InOrder(p) /\ pc[p] \notin Deaf
    /\ inbox[p] # <<>> => Readable(p)

LEMMA EmptyReady ==
  ASSUME TypeOK, NEW p \in Peer, NEW place \in Waits \cup {"loop"}, NEW c, NEW o,
         At(p, place, c, o, <<>>)
  PROVE  Ready(p)
<1>1. pc[p] \notin Deaf /\ inbox[p] = <<>>  BY DEF At, Waits
<1>2. Proper(p, pc[p], issued[p], owed[p], inbox[p])
  BY <1>1, Typed, ShortTidy, ProperFacts
<1> QED  BY <1>1, <1>2 DEF Ready, InOrder

LEMMA ExpectedReadable ==
  ASSUME NEW p \in Peer, pc[p] \in DataPlaces, Head(inbox[p]) \in Expected(p, pc[p])
  PROVE  Readable(p)
<1>1. CASE pc[p] \in FinalReads
  <2>1. Head(inbox[p]) = Final(Other(p), pc[p])  BY <1>1, ExpectedIs
  <2> QED  BY <1>1, <2>1, PlaceSets DEF Readable
<1>2. CASE pc[p] = "txId"  BY <1>2, ExpectedIs, PlaceSets DEF Readable
<1>3. CASE pc[p] = "wanted"  BY <1>3, ExpectedIs, PlaceSets DEF Readable
<1> QED  BY <1>1, <1>2, <1>3, PlaceSets

LEMMA OneReady ==
  ASSUME TypeOK, NEW p \in Peer, NEW place \in DataPlaces, NEW m \in Expected(p, place),
         NEW c, NEW o, At(p, place, c, o, <<m>>)
  PROVE  Ready(p)
<1>1. /\ pc[p] = place /\ inbox[p] = <<m>> /\ m \in Message
      /\ inbox[p] # <<>> /\ Head(inbox[p]) = m /\ Tail(inbox[p]) = <<>>
  BY ExpectedFacts, HeadTail DEF At
<1>2. Brings(p, place, inbox[p]) /\ Tidy(inbox[p])  BY <1>1, ShortTidy DEF Brings
<1>3. place # "ownAck"  BY PlaceSets
<1>4. Proper(p, pc[p], issued[p], owed[p], inbox[p])  BY <1>1, <1>2, <1>3 DEF Proper
<1>5. Readable(p)  BY <1>1, ExpectedReadable
<1>6. pc[p] \notin Deaf  BY <1>1 DEF DataPlaces
<1> QED  BY <1>4, <1>5, <1>6 DEF Ready, InOrder

\* A message that is waited for, before others.
LEMMA FirstReady ==
  ASSUME TypeOK, NEW p \in Peer, NEW t \in Seq(Message), Tidy(t), owed[p] = None,
         pc[p] \in FinalReads \cup {"wanted"}, NEW m \in Expected(p, pc[p]),
         inbox[p] = <<m>> \o t
  PROVE  Ready(p)
<1>0. pc[p] \in DataPlaces /\ pc[p] \notin Deaf \cup {"txId", "ownAck"}
  BY PlaceSets DEF DataPlaces
<1>1. /\ m \in Message /\ \A c \in Command : m # Cmd(c)
  BY <1>0, ExpectedFacts
<1>2. /\ inbox[p] # <<>> /\ Head(inbox[p]) = m /\ Tidy(inbox[p])
  BY <1>1, HeadTail, TidyCons
<1>3. Proper(p, pc[p], issued[p], owed[p], inbox[p])  BY <1>0, <1>2 DEF Proper
<1>4. Readable(p)  BY <1>0, <1>2, ExpectedReadable
<1> QED  BY <1>0, <1>3, <1>4 DEF Ready, InOrder

LEMMA CommandReady ==
  ASSUME TypeOK, NEW p \in Peer, pc[p] \in {"loop", "ack"}, NEW c \in Command,
         inbox[p] = <<Cmd(c)>>
  PROVE  Ready(p)
<1>1. Head(inbox[p]) = Cmd(c) /\ Tidy(inbox[p])
  BY MessageFacts, HeadTail, ShortTidy
<1>2. Proper(p, pc[p], issued[p], owed[p], inbox[p])  BY <1>1 DEF Proper
<1>3. Readable(p)  BY <1>1, PlaceSets DEF Readable
<1> QED  BY <1>2, <1>3 DEF Ready, InOrder

LEMMA BehindReady ==
  ASSUME TypeOK, NEW p \in Peer, NEW t \in Seq(Message), t # <<>>, Tidy(t),
         Head(t) = Ack(issued[p]), Behind(p, t)
  PROVE  Ready(p)
<1>1. CASE pc[p] \in {"ack", "ackAfter"} /\ inbox[p] = t
  <2>1. Proper(p, pc[p], issued[p], owed[p], inbox[p])  BY <1>1 DEF Proper
  <2>2. Readable(p)  BY <1>1, PlaceSets DEF Readable
  <2> QED  BY <1>1, <2>1, <2>2 DEF Ready, InOrder
<1>2. CASE pc[p] \in FinalReads /\ inbox[p] = <<Final(Other(p), pc[p])>> \o t
  <2>1. Final(Other(p), pc[p]) \in Expected(p, pc[p])  BY <1>2, ExpectedIs
  <2> QED  BY <1>2, <2>1, FirstReady DEF Behind
<1> QED  BY <1>1, <1>2 DEF Behind

LEMMA FinishingReady ==
  ASSUME TypeOK, NEW p \in Peer, NEW t, Finishing(p, t),
         t = <<>> \/ \E c \in Command : t = <<Cmd(c)>>
  PROVE  Ready(p)
<1>1. t \in Seq(Message) /\ Tidy(t)
  <2>1. CASE t = <<>>  BY <2>1, MessageSeqs, ShortTidy
  <2>2. ASSUME NEW c \in Command, t = <<Cmd(c)>>  PROVE t \in Seq(Message) /\ Tidy(t)
    <3>1. Cmd(c) \in Message  BY MessageFacts
    <3> QED  BY <2>2, <3>1, MessageSeqs, ShortTidy
  <2> QED  BY <2>1, <2>2
<1>2. CASE pc[p] = "loop" /\ inbox[p] = t
  <2>1. CASE t = <<>>  BY <1>2, <2>1, EmptyReady DEF At
  <2>2. CASE \E c \in Command : t = <<Cmd(c)>>  BY <1>2, <2>2, CommandReady
  <2> QED  BY <2>1, <2>2
<1>3. CASE /\ owed[p] = None /\ pc[p] \in FinalReads
           /\ inbox[p] = <<Final(Other(p), pc[p])>> \o t
  <2>1. Final(Other(p), pc[p]) \in Expected(p, pc[p])  BY <1>3, ExpectedIs
  <2> QED  BY <1>1, <1>3, <2>1, FirstReady
<1>4. CASE owed[p] = None /\ pc[p] = "wanted" /\ inbox[p] = <<Raw("wanted", "no")>> \o t
  <2>1. Raw("wanted", "no") \in Expected(p, pc[p])  BY <1>4, ExpectedIs
  <2> QED  BY <1>1, <1>4, <2>1, FirstReady
<1>5. CASE issued[p] = "addrs-request" /\ Behind(p, <<Ack("addrs-request")>> \o t)
  <2>1. Ack("addrs-request") \in Message /\ \A c \in Command : Ack("addrs-request") # Cmd(c)
    BY MessageFacts, NoCommand, Commands
  <2>2. /\ <<Ack("addrs-request")>> \o t \in Seq(Message)
        /\ <<Ack("addrs-request")>> \o t # <<>>
        /\ Head(<<Ack("addrs-request")>> \o t) = Ack("addrs-request")
        /\ Tidy(<<Ack("addrs-request")>> \o t)
    BY <1>1, <2>1, HeadTail, TidyCons
  <2> QED  BY <1>5, <2>2, BehindReady
<1> QED  BY <1>2, <1>3, <1>4, <1>5 DEF Finishing

LEMMA AnswerTidy ==
  ASSUME NEW p \in Peer, NEW c \in Command
  PROVE  Tidy(Answer(Other(p), c)) /\ BringsRest(p, c, Tail(Answer(Other(p), c)))
<1> DEFINE a == Answer(Other(p), c)
<1>0. Other(p) \in Peer  BY Peers
<1>1. /\ a \in Seq(Message) /\ a # <<>> /\ Head(a) = Ack(c) /\ Ack(c) \in Message
      /\ c = "sync-chain" => Tail(a) = <<Final(Other(p), "hello")>>
      /\ c # "sync-chain" => Tail(a) = <<>>
      /\ \A d \in Command : Ack(c) # Cmd(d)
  BY <1>0, AnswerIs, MessageFacts, NoCommand
<1>2. Tail(a) \in Seq(Message) /\ a = <<Ack(c)>> \o Tail(a)
  <2> HIDE DEF a
  <2> QED  BY <1>1, Elements
<1> HIDE DEF a
<1>3. Tidy(Tail(a))
  <2>1. CASE c = "sync-chain"  BY <1>1, <2>1, ShortTidy
  <2>2. CASE c # "sync-chain"  BY <1>1, <2>2, ShortTidy
  <2> QED  BY <2>1, <2>2
<1>4. Tidy(a)
  <2>1. Tidy(<<Ack(c)>> \o Tail(a))  BY <1>1, <1>2, <1>3, TidyCons
  <2> QED  BY <1>2, <2>1
<1>5. BringsRest(p, c, Tail(a))
  <2>1. CASE c = "sync-chain"
    <3>1. Final(Other(p), "hello") \in Expected(p, "hello")  BY ExpectedIs, PlaceSets
    <3>2. Final(Other(p), "hello") \in Message  BY <1>0, FinalFacts, PlaceSets
    <3>3. /\ Tail(a) # <<>> /\ Head(Tail(a)) = Final(Other(p), "hello")
          /\ Tail(Tail(a)) = <<>>
      BY <1>1, <2>1, <3>2, HeadTail
    <3> QED  BY <2>1, <3>1, <3>3, ShortTidy DEF BringsRest, Brings
  <2>2. CASE c # "sync-chain"  BY <1>1, <2>2, ShortTidy DEF BringsRest
  <2> QED  BY <2>1, <2>2
<1> QED  BY <1>4, <1>5 DEF a

LEMMA ServePlaces ==
  ASSUME NEW p \in Peer, NEW c \in Command
  PROVE  Serve(p, c).at \in Waits \cup {"loop"}
BY ServeFacts DEF Waits

LEMMA AnsweredReady ==
  ASSUME TypeOK, NEW p \in Peer, NEW c \in Command, Answered(p, c)
  PROVE  Ready(p) /\ Ready(Other(p))
<1>0. Other(p) \in Peer  BY Peers
<1>1. /\ issued[p] = c /\ Behind(p, Answer(Other(p), c))
      /\ At(Other(p), Serve(Other(p), c).at, None, None, <<>>)
  BY DEF Answered
<1>2. /\ Answer(Other(p), c) \in Seq(Message) /\ Answer(Other(p), c) # <<>>
      /\ Head(Answer(Other(p), c)) = Ack(issued[p]) /\ Tidy(Answer(Other(p), c))
  BY <1>0, <1>1, AnswerIs, AnswerTidy
<1>3. Ready(p)  BY <1>1, <1>2, BehindReady
<1>4. Ready(Other(p))  BY <1>0, <1>1, ServePlaces, EmptyReady
<1> QED  BY <1>3, <1>4

LEMMA OfferedReady ==
  ASSUME TypeOK, NEW p \in Peer, Offered(p)
  PROVE  Ready(p) /\ Ready(Other(p))
<1>0. Other(p) \in Peer /\ Other(Other(p)) = p  BY Peers
<1>1. {"wanted", "txId", "tx"} \subseteq Waits /\ {"wanted", "txId", "tx"} \subseteq DataPlaces
  BY DEF Waits, DataPlaces
<1>2. CASE /\ At(p, "wanted", None, None, <<>>)
           /\ At(Other(p), "txId", None, None, <<Raw("txId", p)>>)
  <2>1. Raw("txId", p) \in Expected(Other(p), "txId")  BY <1>0, ExpectedIs
  <2>2. Ready(p)  BY <1>1, <1>2, EmptyReady
  <2>3. Ready(Other(p))  BY <1>0, <1>1, <1>2, <2>1, OneReady
  <2> QED  BY <2>2, <2>3
<1>3. CASE /\ At(p, "wanted", None, None, <<Raw("wanted", "yes")>>)
           /\ At(Other(p), "tx", None, None, <<>>)
  <2>1. Raw("wanted", "yes") \in Expected(p, "wanted")  BY ExpectedIs
  <2>2. Ready(p)  BY <1>1, <1>3, <2>1, OneReady
  <2>3. Ready(Other(p))  BY <1>0, <1>1, <1>3, EmptyReady
  <2> QED  BY <2>2, <2>3
<1> QED  BY <1>2, <1>3 DEF Offered

LEMMA CrossedReady ==
  ASSUME TypeOK, NEW c \in Command, NEW d \in Command, Crossed(c, d)
  PROVE  Ready(Initiator) /\ Ready(Acceptor)
<1> DEFINE I == Initiator
           A == Acceptor
<1>0. /\ I \in Peer /\ A \in Peer /\ Other(A) = I
      /\ "ownAck" \in Waits \cup {"loop"} /\ "ackAfter" \in Waits \cup {"loop"}
  BY Peers DEF Waits
<1>1. /\ Answer(I, d) \in Seq(Message) /\ Answer(I, d) # <<>> /\ Head(Answer(I, d)) = Ack(d)
      /\ Cmd(c) \in Message
  BY <1>0, AnswerIs, MessageFacts
<1>2. \A o : Proper(A, "ownAck", d, o, Answer(I, d))
  <2>1. Tidy(Answer(I, d)) /\ BringsRest(A, d, Tail(Answer(I, d)))  BY <1>0, AnswerTidy
  <2> QED  BY <2>1 DEF Proper
<1>3. ASSUME NEW x \in Peer, NEW e, NEW f \in Command, At(x, "ack", e, None, <<Cmd(f)>>)
      PROVE  Ready(x)
  BY <1>3, CommandReady DEF At
<1>4. ASSUME ServesFirst(c, d, <<>>)  PROVE Ready(I)
  BY <1>0, <1>4, ServePlaces, EmptyReady DEF ServesFirst
<1>5. ASSUME At(A, "ack", d, None, <<Cmd(c)>> \o Answer(I, d))  PROVE Ready(A)
  <2>1. /\ pc[A] = "ack" /\ issued[A] = d /\ inbox[A] # <<>>
        /\ Head(inbox[A]) = Cmd(c) /\ Tail(inbox[A]) = Answer(I, d)
    BY <1>1, <1>5, HeadTail DEF At
  <2>2. Passed(A)  BY <1>2, <2>1 DEF Passed
  <2>3. Readable(A)  BY <2>1, PlaceSets DEF Readable
  <2> QED  BY <2>1, <2>2, <2>3 DEF Ready, InOrder
<1>6. ASSUME At(A, "ownAck", d, c, Answer(I, d))  PROVE Ready(A)
  <2>1. /\ pc[A] = "ownAck" /\ issued[A] = d /\ owed[A] = c /\ inbox[A] = Answer(I, d)
    BY <1>6 DEF At
  <2>2. Proper(A, pc[A], issued[A], owed[A], inbox[A])  BY <1>2, <2>1
  <2>3. Readable(A)  BY <1>1, <2>1, PlaceSets DEF Readable
  <2> QED  BY <2>1, <2>2, <2>3 DEF Ready, InOrder
<1>7. CASE At(I, "ack", c, None, <<Cmd(d)>>) /\ At(A, "ack", d, None, <<Cmd(c)>>)
  BY <1>0, <1>3, <1>7
<1>8. CASE At(I, "ack", c, None, <<Cmd(d)>>) /\ At(A, "ownAck", d, c, <<>>)
  BY <1>0, <1>3, <1>8, EmptyReady
<1>9. CASE /\ ServesFirst(c, d, <<>>)
           /\ \/ At(A, "ack", d, None, <<Cmd(c)>> \o Answer(I, d))
              \/ At(A, "ownAck", d, c, Answer(I, d))
  BY <1>4, <1>5, <1>6, <1>9
<1> QED  BY <1>7, <1>8, <1>9 DEF Crossed

LEMMA OwingReady ==
  ASSUME TypeOK, NEW c \in Command, Owing(c)
  PROVE  Ready(Initiator) /\ Ready(Acceptor)
<1> DEFINE I == Initiator
           A == Acceptor
<1>0. I \in Peer /\ A \in Peer /\ Other(I) = A /\ Other(A) = I  BY Peers
<1>1. /\ {"hello", "txId", "wanted"} \subseteq DataPlaces
      /\ {"tx", "wanted", "ackAfter"} \subseteq Waits
  BY DEF DataPlaces, Waits
<1>2. /\ Raw("hello", A) \in Expected(I, "hello") /\ Raw("hello", I) \in Expected(A, "hello")
      /\ Raw("txId", A) \in Expected(I, "txId")
      /\ \A y \in {"yes", "no"} : Raw("wanted", y) \in Expected(A, "wanted")
  BY <1>0, ExpectedIs, PlaceSets DEF Final
<1>3. ASSUME NEW o, At(I, "ackAfter", c, o, <<>>) \/ At(I, "tx", c, o, <<>>)  PROVE Ready(I)
  BY <1>0, <1>1, <1>3, EmptyReady
<1>4. CASE /\ \/ At(I, "hello", c, None, <<Raw("hello", A)>>)
              \/ At(I, "ackAfter", c, None, <<>>)
           /\ At(A, "hello", None, c, <<Raw("hello", I)>>)
  <2>1. Ready(A)  BY <1>0, <1>1, <1>2, <1>4, OneReady
  <2>2. At(I, "hello", c, None, <<Raw("hello", A)>>) => Ready(I)
    BY <1>0, <1>1, <1>2, OneReady
  <2> QED  BY <1>3, <1>4, <2>1, <2>2
<1>5. CASE /\ At(I, "txId", c, None, <<Raw("txId", A)>>)
           /\ At(A, "wanted", None, c, <<>>)
  <2>1. Ready(I)  BY <1>0, <1>1, <1>2, <1>5, OneReady
  <2>2. Ready(A)  BY <1>0, <1>1, <1>5, EmptyReady
  <2> QED  BY <2>1, <2>2
<1>6. CASE /\ At(I, "tx", c, None, <<>>) \/ At(I, "ackAfter", c, None, <<>>)
           /\ \/ At(A, "wanted", None, c, <<Raw("wanted", "yes")>>)
              \/ At(A, "wanted", None, c, <<Raw("wanted", "no")>>)
  <2>1. Ready(I)  BY <1>3, <1>6
  <2>2. \A y \in {"yes", "no"} :
           At(A, "wanted", None, c, <<Raw("wanted", y)>>) => Ready(A)
    BY <1>0, <1>1, <1>2, OneReady
  <2> QED  BY <1>6, <2>1, <2>2
<1> QED  BY <1>4, <1>5, <1>6 DEF Owing

LEMMA JointReady ==
  ASSUME TypeOK, Joint, NEW p \in Peer
  PROVE  Ready(p)
<1>0. \A x \in Peer : Other(x) \in Peer /\ (p = x \/ p = Other(x))  BY Peers
<1>1. CASE Apart  BY <1>1, FinishingReady DEF Apart
<1>2. ASSUME NEW x \in Peer, NEW c \in Command, Asked(x, c)  PROVE Ready(p)
  <2>1. Ready(x)
    <3>1. "ack" \in Waits \cup {"loop"}  BY DEF Waits
    <3> QED  BY <1>2, <3>1, EmptyReady DEF Asked
  <2>2. Ready(Other(x))  BY <1>0, <1>2, FinishingReady DEF Asked
  <2> QED  BY <1>0, <2>1, <2>2
<1>3. ASSUME NEW x \in Peer, NEW c \in Command, Answered(x, c)  PROVE Ready(p)
  BY <1>0, <1>3, AnsweredReady
<1>4. ASSUME NEW x \in Peer, Offered(x)  PROVE Ready(p)  BY <1>0, <1>4, OfferedReady
<1>5. p = Initiator \/ p = Acceptor  BY Peers
<1>6. ASSUME NEW c \in Command, Owing(c)  PROVE Ready(p)  BY <1>5, <1>6, OwingReady
<1>7. ASSUME NEW c \in Command, NEW d \in Command, Crossed(c, d)  PROVE Ready(p)
  BY <1>5, <1>7, CrossedReady
<1> QED  BY <1>1, <1>2, <1>3, <1>4, <1>6, <1>7 DEF Joint

-----------------------------------------------------------------------------
(* The ends read in order, while the connection is fast enough *)

LEMMA IssueInOrder ==
  ASSUME TypeOK, PlacesOK, NEW p \in Peer, NEW c \in Command, InOrder(p), Issue(p, c)
  PROVE  InOrder(p)'
<1>0. Other(p) # p /\ Other(p) \in Peer  BY Peers
<1>1. pc[p] = "loop" /\ owed[p] = None
  <2>1. pc[p] = "loop"  BY DEF Issue
  <2> QED  BY <2>1, OwesWhere
<1>2. inbox'[p] = inbox[p]
  <2>1. Exchange(p, inbox[p], <<Cmd(c)>>)  BY DEF Issue
  <2>2. inbox[p] \in Seq(Message) /\ <<Cmd(c)>> \in Seq(Message)
    BY Typed, MessageFacts, MessageSeqs
  <2> QED  BY <2>1, <2>2, ExchangeIs
<1>3. Became(p, "ack", c, None, inbox[p])
  BY <1>1, <1>2, Typed DEF Issue, Became
<1>4. CASE Proper(p, "loop", issued[p], None, inbox[p])
  <2>1. Tidy(inbox[p]) /\ inbox[p] \in Seq(Message)  BY <1>4, Typed DEF Proper
  <2> QED  BY <1>3, <2>1, ProperFacts
<1>5. CASE Refused(p)
  <2>1. Refused(p)'  BY <1>3, <1>5 DEF Refused, Became
  <2> QED  BY <2>1 DEF InOrder
<1>6. ~Passed(p)  BY <1>1 DEF Passed
<1> QED  BY <1>1, <1>4, <1>5, <1>6 DEF InOrder

LEMMA BringsEnd ==
  ASSUME NEW p \in Peer, NEW place, NEW s \in Seq(Message), Brings(p, place, s)
  PROVE  Brings(p, place, Append(s, Eof))
<1>1. CASE OnlyEof(s)  BY <1>1, EndAppended DEF Brings
<1>2. CASE s # <<>> /\ Head(s) \in Expected(p, place) /\ OnlyEof(Tail(s))
  <2>1. Tail(s) \in Seq(Message)  BY <1>2, Elements
  <2> QED  BY <1>2, <2>1, EndAppended DEF Brings
<1> QED  BY <1>1, <1>2 DEF Brings

LEMMA ProperEnd ==
  ASSUME NEW p \in Peer, NEW place, NEW c \in Command \cup {None}, NEW o, NEW s \in Seq(Message),
         Proper(p, place, c, o, s)
  PROVE  Proper(p, place, c, o, Append(s, Eof))
<1>1. CASE s = <<>>
  <2>1. OnlyEof(s)  BY <1>1, ShortTidy
  <2>2. OnlyEof(Append(s, Eof)) /\ Append(s, Eof) \in Seq(Message)
    BY <2>1, EndAppended, MessageFacts
  <2> QED  BY <2>2, ProperFacts
<1>2. CASE s # <<>>
  <2>1. /\ Tail(s) \in Seq(Message) /\ Head(Append(s, Eof)) = Head(s)
        /\ Tail(Append(s, Eof)) = Append(Tail(s), Eof) /\ Tidy(Append(s, Eof))
    BY <1>2, Elements, EndAppended DEF Proper
  <2>2. Brings(p, place, s) => Brings(p, place, Append(s, Eof))  BY BringsEnd
  <2>3. BringsRest(p, c, Tail(s)) => BringsRest(p, c, Append(Tail(s), Eof))
    <3>1. Brings(p, "hello", Tail(s)) => Brings(p, "hello", Append(Tail(s), Eof))
      BY <2>1, BringsEnd
    <3>2. OnlyEof(Tail(s)) => OnlyEof(Append(Tail(s), Eof))  BY <2>1, EndAppended
    <3> QED  BY <3>1, <3>2 DEF BringsRest
  <2> QED  BY <1>2, <2>1, <2>2, <2>3 DEF Proper
<1> QED  BY <1>1, <1>2

\* The other end closes the connection.
LEMMA ClosedInOrder ==
  ASSUME TypeOK, NEW p \in Peer, InOrder(p), pc'[p] = pc[p], issued'[p] = issued[p],
         owed'[p] = owed[p], inbox'[p] = Closed(inbox[p])
  PROVE  InOrder(p)'
<1> DEFINE s == inbox[p]
           a == Append(s, Eof)
<1>1. /\ pc'[p] = pc[p] /\ issued'[p] = issued[p] /\ owed'[p] = owed[p]
      /\ inbox'[p] = IF s = <<Noise>> THEN <<Eof>> ELSE a
  BY DEF Closed
<1>2. SUFFICES ASSUME pc[p] \notin Deaf  PROVE InOrder(p)'
  BY <1>1 DEF InOrder
<1>3. s \in Seq(Message) /\ issued[p] \in Command \cup {None} /\ <<Eof>> \in Seq(Message)
  BY Typed, MessageFacts, MessageSeqs
<1>4. CASE s = <<Noise>>
  <2>1. inbox'[p] = <<Eof>>  BY <1>1, <1>4
  <2>2. Became(p, pc[p], issued[p], owed[p], <<Eof>>)  BY <1>1, <2>1 DEF Became
  <2> QED  BY <1>3, <2>2, ShortTidy, ProperFacts
<1>5. CASE s # <<Noise>>
  <2>1. inbox'[p] = a /\ a \in Seq(Message)  BY <1>1, <1>3, <1>5, MessageFacts
  <2>2. Became(p, pc[p], issued[p], owed[p], a)  BY <1>1, <2>1 DEF Became
  <2>3. s # <<>> => /\ Tail(s) \in Seq(Message) /\ Head(a) = Head(s) /\ a # <<>>
                    /\ Tail(a) = Append(Tail(s), Eof)
    BY <1>3, Elements, EndAppended
  <2>4. CASE Proper(p, pc[p], issued[p], owed[p], s)
    <3>1. Proper(p, pc[p], issued[p], owed[p], a)  BY <1>3, <2>4, ProperEnd
    <3> QED  BY <1>3, <2>1, <2>2, <3>1, ProperFacts
  <2>5. CASE Refused(p)
    <3>1. /\ s # <<>> /\ Head(s) = Cmd("peer-addrs") /\ Tail(s) # <<>>
          /\ Head(Tail(s)) = Final(Other(p), "addrs") /\ Tidy(Tail(s))
      BY <2>5 DEF Refused
    <3>2. /\ Tail(a) # <<>> /\ Head(Tail(a)) = Final(Other(p), "addrs") /\ Tidy(Tail(a))
      BY <2>3, <3>1, EndAppended
    <3>3. Refused(p)'  BY <1>1, <2>1, <2>3, <2>5, <3>1, <3>2 DEF Refused
    <3> QED  BY <3>3 DEF InOrder
  <2>6. CASE Passed(p)
    <3>1. s # <<>> /\ Proper(p, "ownAck", issued[p], None, Tail(s))  BY <2>6 DEF Passed
    <3>2. Proper(p, "ownAck", issued[p], None, Tail(a))  BY <1>3, <2>3, <3>1, ProperEnd
    <3>3. Passed(p)'  BY <1>1, <2>1, <2>3, <2>6, <3>1, <3>2 DEF Passed
    <3> QED  BY <3>3 DEF InOrder
  <2> QED  BY <1>2, <2>4, <2>5, <2>6 DEF InOrder
<1> QED  BY <1>4, <1>5

\* It ends, or what is left of it is collected.
LEMMA HangupInOrder ==
  ASSUME TypeOK, NEW p \in Peer, InOrder(p), Hangup(Other(p)) \/ Collect(Other(p))
  PROVE  InOrder(p)'
<1>1. Other(p) # p /\ Other(p) \in Peer /\ Other(Other(p)) = p  BY Peers
<1>2. /\ pc'[p] = pc[p] /\ issued'[p] = issued[p] /\ owed'[p] = owed[p]
      /\ inbox'[p] = Closed(inbox[p])
  BY <1>1, Typed DEF Hangup, Collect
<1> QED  BY <1>2, ClosedInOrder

\* The read of what is waited for ends nobody.
LEMMA GoesOn ==
  ASSUME TypeOK, PlacesOK, NEW p \in Peer, Receive(p), Readable(p)
  PROVE  pc'[p] # "ended"
<1>0. inbox[p] # <<>>  BY ReceivesWhere
<1>1. ASSUME NEW h, NEW mine, NEW rest \in Seq(Message), StepsTo(p, h, mine, rest)
      PROVE  pc'[p] # "ended"
  <2>1. PICK place \in Waits \cup {"loop"} : \E o \in Owable \cup {None} :
           \E out \in Seq(Message) : \E pub \in SUBSET (Command \X Val) :
              Step(p, place, mine, o, rest, out, pub)
    BY <1>1 DEF StepsTo
  <2>2. pc'[p] = place  BY <2>1, StepIs DEF Became
  <2> QED  BY <2>2 DEF Waits
<1>2. Tail(inbox[p]) \in Seq(Message)  BY <1>0, LeftTyped
<1>3. CASE pc[p] \in {"loop", "ack"} /\ Served(p)  BY <1>0, <1>1, <1>2, <1>3, ServedSteps
<1>4. CASE Postponed(p)  BY <1>4, Typed DEF Postponed
<1>5. CASE issued[p] \in Command /\ RanIssued(p)  BY <1>0, <1>1, <1>2, <1>5, RanIssuedSteps
<1>6. CASE pc[p] \in DataPlaces /\ Handled(p) /\ Clean(p, DataKind(pc[p]))
  BY <1>0, <1>1, <1>2, <1>6, HandledSteps
<1> QED  BY <1>3, <1>4, <1>5, <1>6, CleanReceive

LEMMA StreamsReady ==
  ASSUME TypeOK, Streams, ~stalled
  PROVE  /\ \A p \in Peer : InOrder(p)
         /\ Live => \A p \in Peer : Ready(p)
<1>1. Live => \A p \in Peer : Ready(p)  BY JointReady DEF Streams
<1>2. Live => \A p \in Peer : InOrder(p)  BY <1>1 DEF Ready
<1> QED  BY <1>1, <1>2 DEF Streams

LEMMA StreamsInit ==
  ASSUME Init
  PROVE  Streams
<1>1. Live => Joint  BY JointInit
<1>2. ASSUME ~Live, NEW p \in Peer, ~refuses[p]  PROVE InOrder(p)
  <2> DEFINE q == Other(p)
  <2>0. q \in Peer /\ Other(q) = p /\ \A x \in Peer : x = p \/ x = q  BY Peers
  <2>1. \A x \in Peer : pc[x] \in {"closing", "ack", "loop"}  BY DEF Init
  <2>2. refuses[q]  BY <1>2, <2>0, <2>1 DEF Live, Running
  <2>3. pc[p] \in {"loop", "ack"} /\ owed[p] = None  BY <1>2 DEF Init
  <2>4. inbox[p] \in Refusals(q)
    <3>1. PICK refusal \in [Peer -> UNION {Refusals(x) : x \in Peer}] :
             /\ \A x \in Peer : refusal[x] \in Refusals(Other(x))
             /\ inbox = [x \in Peer |->
                        CASE refuses[x] -> <<>>
                          [] refuses[Other(x)] -> refusal[x]
                          [] issued[Other(x)] # None -> <<Cmd(issued[Other(x)])>>
                          [] OTHER -> <<>>]
      BY DEF Init
    <3>2. inbox[p] = refusal[p]
      <4>1. issued = [x \in Peer |-> IF pc[x] = "ack" THEN "sync-chain" ELSE None]
            /\ pc[q] = "closing"
        BY <2>0, <2>2 DEF Init
      <4>2. issued[q] = None  BY <2>0, <4>1
      <4> QED  BY <1>2, <2>2, <3>1, <4>2
    <3> QED  BY <3>1, <3>2
  <2>5. TypeOK /\ issued[p] \in Command \cup {None}  BY TypesInit, Typed
  <2>6. /\ Cmd("close") \in Message /\ Cmd("peer-addrs") \in Message
        /\ Raw("addrs", q) \in Message /\ Raw("addrs", q) = Final(q, "addrs")
        /\ \A c \in Command : Cmd("close") # Cmd(c) /\ Raw("addrs", q) # Cmd(c)
    <3>1. /\ \A c \in Command \cup {"close"} :
                Cmd(c) \in Message /\ Cmd(c).kind = "string" /\ Cmd(c).val = <<"cmd", c>>
          /\ Raw("addrs", q) \in Message /\ Raw("addrs", q).kind = "addrs"
      BY <2>0, MessageFacts
    <3>2. \A c \in Command : <<"cmd", "close">> # <<"cmd", c>>  BY Commands
    <3>3. \A c \in Command : Cmd("close") # Cmd(c)  BY <3>1, <3>2
    <3> QED  BY <3>1, <3>3, Commands DEF Final
  <2>7. CASE inbox[p] = <<Cmd("close")>>
    <3>1. Tidy(inbox[p])  BY <2>7, ShortTidy
    <3>2. Proper(p, pc[p], issued[p], owed[p], inbox[p])
      BY <2>3, <2>5, <3>1, Typed, ProperFacts
    <3> QED  BY <3>2 DEF InOrder
  <2>8. CASE inbox[p] = <<Cmd("peer-addrs"), Raw("addrs", q), Cmd("close")>>
    <3> DEFINE t == <<Raw("addrs", q), Cmd("close")>>
    <3>1. /\ inbox[p] # <<>> /\ Head(inbox[p]) = Cmd("peer-addrs") /\ Tail(inbox[p]) = t
          /\ t # <<>> /\ Head(t) = Raw("addrs", q)
      BY <2>6, <2>8
    <3>2. Tidy(t)
      <4>1. t = <<Raw("addrs", q)>> \o <<Cmd("close")>>  BY ToSetShort
      <4>2. Tidy(<<Cmd("close")>>) /\ <<Cmd("close")>> \in Seq(Message)
        BY <2>6, ShortTidy, MessageSeqs
      <4>3. Tidy(<<Raw("addrs", q)>> \o <<Cmd("close")>>)  BY <2>6, <4>2, TidyCons
      <4> QED  BY <4>1, <4>3
    <3> HIDE DEF t
    <3>3. Refused(p)  BY <2>3, <2>6, <3>1, <3>2 DEF Refused
    <3> QED  BY <3>3 DEF InOrder
  <2> QED  BY <2>4, <2>7, <2>8 DEF Refusals
<1>3. ASSUME NEW p \in Peer, refuses[p]  PROVE InOrder(p)
  <2>1. pc[p] = "closing"  BY <1>3 DEF Init
  <2> QED  BY <2>1 DEF InOrder
<1> QED  BY <1>1, <1>2, <1>3 DEF Streams

LEMMA StreamsStep ==
  ASSUME TypeOK, PlacesOK, Refusers, Streams, [Next]_vars
  PROVE  Streams'
<1>1. (~stalled /\ Live => Joint)'
  <2>1. ~stalled /\ Live => Joint  BY DEF Streams
  <2> QED  BY <2>1, JointStep
<1> SUFFICES ASSUME ~stalled', ~Live', NEW p \in Peer  PROVE InOrder(p)'
  BY <1>1 DEF Streams
<1> DEFINE q == Other(p)
<1>0. q \in Peer /\ Other(q) = p /\ q # p /\ \A x \in Peer : x = p \/ x = q  BY Peers
<1>2. ASSUME ~stalled  PROVE InOrder(p)  BY <1>2, StreamsReady
\* An end that is left alone moves; the other has ended, or refuses.
<1>3. ASSUME NEW x \in Peer, ~Live, pc[x] \notin Deaf,
             \A y \in Peer \ {x} : pc'[y] = pc[y], x = p => InOrder(p)'
      PROVE  InOrder(p)'
  <2>1. CASE x = p  BY <1>3, <2>1
  <2>2. CASE x = q
    <3>1. PICK y \in Peer : pc[y] \in Deaf
      BY <1>3 DEF Live, Refusers, Running
    <3>2. y = p  BY <1>0, <1>3, <2>2, <3>1
    <3>3. pc'[p] \in Deaf  BY <1>0, <1>3, <2>2, <3>1, <3>2
    <3> QED  BY <3>3 DEF InOrder
  <2> QED  BY <1>0, <2>1, <2>2
<1>4. ASSUME NEW x \in Peer, Receive(x)  PROVE InOrder(p)'
  <2>1. /\ refuses' = refuses /\ ~stalled /\ inbox[x] # <<>>
        /\ \A y \in Peer \ {x} : pc'[y] = pc[y]
        /\ pc[x] \notin Deaf
    BY <1>4, ReceiveMoves, ReceivesWhere DEF DataPlaces
  <2>2. ~Live
    <3> SUFFICES ASSUME Live  PROVE FALSE
      OBVIOUS
    <3>1. Readable(x)  BY <2>1, StreamsReady DEF Ready
    <3>2. pc'[x] # "ended"  BY <1>4, <3>1, GoesOn
    <3>3. \A y \in Peer : pc'[y] # "ended"  BY <2>1, <3>2 DEF Live, Running
    <3> QED  BY <2>1, <3>3 DEF Live, Running
  <2>3. x = p => InOrder(p)'  BY <1>2, <1>4, <2>1, ReceiveInOrder
  <2> QED  BY <1>3, <2>1, <2>2, <2>3
<1>5. ASSUME NEW x \in Peer, IssueAny(x)  PROVE InOrder(p)'
  <2>1. PICK c \in Command : Issue(x, c)  BY <1>5 DEF IssueAny
  <2>2. /\ refuses' = refuses /\ ~stalled /\ pc[x] = "loop" /\ pc'[x] = "ack"
        /\ \A y \in Peer \ {x} : pc'[y] = pc[y]
    BY <2>1, Typed DEF Issue
  <2>3. ~Live  BY <2>2 DEF Live, Running
  <2>4. x = p => InOrder(p)'  BY <1>2, <2>1, <2>2, IssueInOrder
  <2> QED  BY <1>3, <2>2, <2>3, <2>4
<1>6. ASSUME NEW x \in Peer, Timeout(x) \/ LoseByte(x)  PROVE FALSE
  BY <1>6 DEF Timeout, LoseByte
<1>7. ASSUME NEW x \in Peer, Hangup(x)  PROVE InOrder(p)'
  <2>1. ~stalled  BY <1>7 DEF Hangup
  <2>2. CASE x = p
    <3>1. pc'[p] = "ended"  BY <1>7, <2>2, Typed DEF Hangup
    <3> QED  BY <3>1 DEF InOrder
  <2>3. CASE x = q  BY <1>2, <1>7, <2>1, <2>3, HangupInOrder
  <2> QED  BY <1>0, <2>2, <2>3
<1>9. ASSUME NEW x \in Peer, Collect(x)  PROVE InOrder(p)'
  <2>1. ~stalled /\ pc[x] = "ended" /\ pc' = pc  BY <1>9 DEF Collect
  <2>2. CASE x = p  BY <2>1, <2>2 DEF InOrder
  <2>3. CASE x = q  BY <1>2, <1>9, <2>1, <2>3, HangupInOrder
  <2> QED  BY <1>0, <2>2, <2>3
<1>8. CASE UNCHANGED vars
  <2>1. /\ pc' = pc /\ issued' = issued /\ owed' = owed /\ inbox' = inbox /\ stalled' = stalled
    BY <1>8 DEF vars
  <2>2. InOrder(p)  BY <1>2, <2>1
  <2> QED  BY <2>1, <2>2 DEF InOrder, Refused, Passed
<1> QED  BY <1>4, <1>5, <1>6, <1>7, <1>8, <1>9 DEF Next

-----------------------------------------------------------------------------
(* What the streams carry *)

LEMMA CarriersAre ==
  ASSUME NEW from \in Peer
  PROVE  /\ \A m \in {w[1] : w \in Carriers(from)} : m \in Message
         /\ \A m, c, d : <<m, c>> \in Carriers(from) /\ <<m, d>> \in Carriers(from) => c = d
         /\ \A w \in Carriers(from) : w = <<w[1], w[2]>> /\ w[2] \in Command
         /\ <<Cmd("addrs-request"), "addrs-request">> \in Carriers(from)
         /\ <<Final(from, "addr"), "announce-addr">> \in Carriers(from)
         /\ <<Final(from, "addrs"), "peer-addrs">> \in Carriers(from)
         /\ <<Final(from, "tx"), "new-tx">> \in Carriers(from)
<1>1. /\ Cmd("addrs-request") \in Message /\ Cmd("addrs-request").val = <<"cmd", "addrs-request">>
      /\ \A x \in {"addr", "addrs", "tx"} :
            Final(from, x) \in Message /\ Final(from, x).val = <<x, from>>
  BY MessageFacts, FinalFacts, PlaceSets, Commands
<1>2. \A m, c : <<m, c>> \in Carriers(from) <=>
         \/ m = Cmd("addrs-request") /\ c = "addrs-request"
         \/ m = Final(from, "addr") /\ c = "announce-addr"
         \/ m = Final(from, "addrs") /\ c = "peer-addrs"
         \/ m = Final(from, "tx") /\ c = "new-tx"
  BY DEF Carriers
<1>3. \A w \in Carriers(from) : w = <<w[1], w[2]>> /\ w[2] \in Command
  BY Commands DEF Carriers
<1>4. /\ Cmd("addrs-request") # Final(from, "addr") /\ Cmd("addrs-request") # Final(from, "addrs")
      /\ Cmd("addrs-request") # Final(from, "tx") /\ Final(from, "addr") # Final(from, "addrs")
      /\ Final(from, "addr") # Final(from, "tx") /\ Final(from, "addrs") # Final(from, "tx")
  BY <1>1
<1>5. ASSUME NEW m, NEW c, NEW d, <<m, c>> \in Carriers(from), <<m, d>> \in Carriers(from)
      PROVE  c = d
  BY <1>2, <1>4, <1>5
<1>6. ASSUME NEW w \in Carriers(from)  PROVE w[1] \in Message
  <2>1. <<w[1], w[2]>> \in Carriers(from)  BY <1>3
  <2> QED  BY <1>1, <1>2, <2>1
<1> QED  BY <1>2, <1>3, <1>5, <1>6

\* A message that is not one of them.
Plain(from, m) == \A w \in Carriers(from) : w[1] # m

LEMMA PlainFacts ==
  ASSUME NEW from \in Peer
  PROVE  /\ Plain(from, Eof) /\ Plain(from, Noise)
         /\ \A c \in Command \cup {"close"} : c # "addrs-request" => Plain(from, Cmd(c))
         /\ \A c \in Owable : Plain(from, Ack(c))
         /\ \A p \in Peer : Plain(from, Final(p, "hello")) /\ Plain(from, Raw("txId", p))
         /\ \A y \in {"yes", "no"} : Plain(from, Raw("wanted", y))
<1>1. /\ Cmd("addrs-request").val = <<"cmd", "addrs-request">>
      /\ \A x \in {"addr", "addrs", "tx"} : Final(from, x).val = <<x, from>>
  BY MessageFacts, FinalFacts, PlaceSets, Commands
<1>2. ASSUME NEW m, m.val # <<"cmd", "addrs-request">>, m.val # <<"addr", from>>,
             m.val # <<"addrs", from>>, m.val # <<"tx", from>>
      PROVE  Plain(from, m)
  BY <1>1, <1>2 DEF Plain, Carriers
<1>3. Plain(from, Eof) /\ Plain(from, Noise)  BY <1>2, MessageFacts
<1>4. ASSUME NEW c \in Command \cup {"close"}, c # "addrs-request"  PROVE Plain(from, Cmd(c))
  <2>1. Cmd(c).val = <<"cmd", c>>  BY MessageFacts
  <2>2. <<"cmd", c>> # <<"cmd", "addrs-request">>  BY <1>4
  <2> QED  BY <1>2, <2>1, <2>2
<1>5. ASSUME NEW c \in Owable  PROVE Plain(from, Ack(c))
  <2>1. Ack(c).val = <<"ack", c>>  BY MessageFacts DEF Owable
  <2> QED  BY <1>2, <2>1
<1>6. ASSUME NEW p \in Peer  PROVE Plain(from, Final(p, "hello")) /\ Plain(from, Raw("txId", p))
  <2>1. Final(p, "hello").val = <<"hello", p>> /\ Raw("txId", p).val = <<"txId", p>>
    BY MessageFacts, FinalFacts, PlaceSets
  <2> QED  BY <1>2, <2>1
<1>7. ASSUME NEW y \in {"yes", "no"}  PROVE Plain(from, Raw("wanted", y))
  <2>1. Raw("wanted", y).val = <<"wanted", y>>  BY MessageFacts
  <2> QED  BY <1>2, <2>1
<1> QED  BY <1>3, <1>4, <1>5, <1>6, <1>7

LEMMA BackedOne ==
  ASSUME NEW from \in Peer, NEW data
  PROVE  /\ Backed(from, <<>>, data)
         /\ \A m : Plain(from, m) => Backed(from, <<m>>, data)
         /\ \A m, c : <<m, c>> \in Carriers(from) /\ DataOf(from, c) \subseteq data
                         => Backed(from, <<m>>, data)
<1>1. Backed(from, <<>>, data)  BY ToSetShort DEF Backed
<1>2. ASSUME NEW m, Plain(from, m)  PROVE Backed(from, <<m>>, data)
  BY <1>2, ToSetShort DEF Backed, Plain
<1>3. ASSUME NEW m, NEW c, <<m, c>> \in Carriers(from), DataOf(from, c) \subseteq data
      PROVE  Backed(from, <<m>>, data)
  <2> SUFFICES ASSUME NEW w \in Carriers(from), w[1] = m  PROVE DataOf(from, w[2]) \subseteq data
    BY ToSetShort DEF Backed
  <2>1. <<m, w[2]>> \in Carriers(from)  BY CarriersAre
  <2>2. w[2] = c  BY <1>3, <2>1, CarriersAre
  <2> QED  BY <1>3, <2>2
<1> QED  BY <1>1, <1>2, <1>3

LEMMA BackedParts ==
  ASSUME NEW from \in Peer, NEW data, NEW s \in Seq(Message), NEW t \in Seq(Message)
  PROVE  /\ Backed(from, s, data) /\ Backed(from, t, data) => Backed(from, s \o t, data)
         /\ s # <<>> /\ Backed(from, s, data) => Backed(from, Tail(s), data)
         /\ \A more : Backed(from, s, data) /\ data \subseteq more => Backed(from, s, more)
         /\ \A m, c : s # <<>> /\ Backed(from, s, data) /\ Head(s) = m
                         /\ <<m, c>> \in Carriers(from) => DataOf(from, c) \subseteq data
<1>1. Backed(from, s, data) /\ Backed(from, t, data) => Backed(from, s \o t, data)
  <2>1. ToSet(s \o t) = ToSet(s) \cup ToSet(t)  BY JoinedElements
  <2> QED  BY <2>1 DEF Backed
<1>2. s # <<>> => ToSet(s) = {Head(s)} \cup ToSet(Tail(s))  BY Elements
<1>3. s # <<>> /\ Backed(from, s, data) => Backed(from, Tail(s), data)
  BY <1>2 DEF Backed
<1>4. ASSUME NEW more, Backed(from, s, data), data \subseteq more  PROVE Backed(from, s, more)
  BY <1>4 DEF Backed
<1>5. ASSUME NEW m, NEW c, s # <<>>, Backed(from, s, data), Head(s) = m,
             <<m, c>> \in Carriers(from)
      PROVE  DataOf(from, c) \subseteq data
  <2>1. m \in ToSet(s)  BY <1>2, <1>5
  <2>2. <<m, c>>[1] = m /\ <<m, c>>[2] = c  OBVIOUS
  <2> QED  BY <1>5, <2>1, <2>2 DEF Backed
<1> QED  BY <1>1, <1>3, <1>4, <1>5

\* What a read leaves.
LEMMA BackedLeft ==
  ASSUME TypeOK, NEW p \in Peer, inbox[p] # <<>>, NEW kind, NEW from \in Peer, NEW data,
         Backed(from, inbox[p], data)
  PROVE  /\ \A rest \in Lefts(p, kind) : Backed(from, rest, data)
         /\ Backed(from, Tail(inbox[p]), data)
<1>1. Backed(from, Tail(inbox[p]), data)  BY Typed, BackedParts
<1>2. /\ Backed(from, <<Eof>>, data) /\ Backed(from, <<Noise>>, data)
      /\ Backed(from, <<>>, data)
  BY PlainFacts, BackedOne
<1>3. \A rest \in Garbled(inbox[p]) : Backed(from, rest, data)  BY <1>2, GarbledIs
<1> QED  BY <1>1, <1>3 DEF Lefts

-----------------------------------------------------------------------------
(* Nothing is made up *)

\* An end's step, and what it may not do.
LEMMA HonestMoves ==
  ASSUME TypeOK, NEW p \in Peer, Honest(p), Honest(Other(p)),
         NEW place, NEW c \in {issued[p], None}, NEW o, NEW rest, NEW out \in Seq(Message), NEW pub,
         Became(p, place, c, o, rest), Heard(p, pub), Kept(Other(p), out),
         pub \subseteq said[Other(p)],
         place = "wanted" => DataOf(p, "new-tx") \subseteq said[p],
         o = "addrs-request" => DataOf(Other(p), "addrs-request") \subseteq said[Other(p)],
         Backed(Other(p), rest, said[Other(p)]), Backed(p, out, said[p])
  PROVE  Honest(p)' /\ Honest(Other(p))'
<1> DEFINE q == Other(p)
<1>0. q \in Peer /\ Other(q) = p /\ q # p  BY Peers
<1>1. inbox[q] \in Seq(Message)  BY <1>0, Typed
<1>2. said' = said /\ heard'[p] = heard[p] \cup pub /\ heard'[q] = heard[q]  BY DEF Heard
<1>3. /\ pc'[p] = place /\ issued'[p] = c /\ owed'[p] = o /\ inbox'[p] = rest
  BY DEF Became
<1>4. /\ pc'[q] = pc[q] /\ issued'[q] = issued[q] /\ owed'[q] = owed[q]
      /\ inbox'[q] = inbox[q] \o out
  BY DEF Kept
<1> HIDE DEF q
<1>5. /\ heard[p] \subseteq said[q] /\ heard[q] \subseteq said[p]
      /\ issued[p] # None => DataOf(p, issued[p]) \subseteq said[p]
      /\ issued[q] # None => DataOf(q, issued[q]) \subseteq said[q]
      /\ pc[q] = "wanted" => DataOf(q, "new-tx") \subseteq said[q]
      /\ owed[q] = "addrs-request" => DataOf(p, "addrs-request") \subseteq said[p]
      /\ Backed(p, inbox[q], said[p])
  BY <1>0 DEF Honest, q
<1>6. Backed(p, inbox[q] \o out, said[p])  BY <1>1, <1>5, BackedParts
<1>7. Honest(p)'
  <2>1. Other(p) = q  BY DEF q
  <2>2. (heard[p] \subseteq said[Other(p)])'  BY <1>2, <1>5, <2>1
  <2>3. (issued[p] # None => DataOf(p, issued[p]) \subseteq said[p])'  BY <1>2, <1>3, <1>5
  <2>4. (pc[p] = "wanted" => DataOf(p, "new-tx") \subseteq said[p])'  BY <1>2, <1>3
  <2>5. (owed[p] = "addrs-request" => DataOf(q, "addrs-request") \subseteq said[q])'
    BY <1>2, <1>3, <2>1
  <2>6. Backed(q, inbox[p], said[q])'  BY <1>2, <1>3, <2>1
  <2> QED  BY <2>1, <2>2, <2>3, <2>4, <2>5, <2>6 DEF Honest
<1>8. Honest(q)'
  <2>1. Backed(p, inbox[q], said[p])'  BY <1>2, <1>4, <1>6
  <2> QED  BY <1>0, <1>2, <1>4, <1>5, <2>1 DEF Honest
<1> QED  BY <1>7, <1>8 DEF q

\* What an end that serves the command it owes writes and publishes.
LEMMA OwedHonest ==
  ASSUME NEW p \in Peer, NEW o \in Owable, NEW data, NEW theirs,
         o = "addrs-request" => DataOf(Other(p), "addrs-request") \subseteq theirs
  PROVE  /\ Backed(p, Answer(p, o), data) /\ Serve(p, o).pub \subseteq theirs
         /\ Serve(p, o).at # "wanted" /\ Answer(p, o) \in Seq(Message)
<1>1. Plain(p, Ack(o)) /\ Plain(p, Final(p, "hello"))  BY PlainFacts
<1>2. /\ <<Ack(o)>> \in Seq(Message) /\ <<Final(p, "hello")>> \in Seq(Message)
      /\ <<Ack(o), Final(p, "hello")>> = <<Ack(o)>> \o <<Final(p, "hello")>>
  BY MessageFacts, FinalFacts, MessageSeqs, PlaceSets, ToSetShort DEF Owable
<1>3. Backed(p, <<Ack(o)>>, data) /\ Backed(p, <<Final(p, "hello")>>, data)
  BY <1>1, BackedOne
<1>4. Backed(p, <<Ack(o), Final(p, "hello")>>, data)
  <2>1. Backed(p, <<Ack(o)>> \o <<Final(p, "hello")>>, data)  BY <1>2, <1>3, BackedParts, Zenon
  <2> QED  BY <1>2, <2>1
<1>5. Answer(p, o) = IF o = "sync-chain" THEN <<Ack(o), Final(p, "hello")>> ELSE <<Ack(o)>>
  BY ServeOwable
<1>6. Backed(p, Answer(p, o), data)  BY <1>3, <1>4, <1>5
<1>7. /\ Serve(p, o).at \in {"loop", "addrs", "addr", "txId", "hello"}
      /\ Serve(p, o).pub = IF o = "addrs-request" THEN DataOf(Other(p), o) ELSE {}
  BY ServeOwable
<1>8. Serve(p, o).pub \subseteq theirs  BY <1>7
<1> QED  BY <1>6, <1>7, <1>8, AnswerOwed

LEMMA HonestSteps ==
  ASSUME TypeOK, NEW p \in Peer, Honest(p), Honest(Other(p)), NEW h,
         h.out \in Seq(Message), h.pub \subseteq said[Other(p)],
         h.at = "wanted" => DataOf(p, "new-tx") \subseteq said[p],
         NEW mine \in {issued[p], None}, NEW rest \in Seq(Message), StepsTo(p, h, mine, rest),
         Backed(p, h.out, said[p]), Backed(Other(p), rest, said[Other(p)])
  PROVE  Honest(p)' /\ Honest(Other(p))'
<1> DEFINE q == Other(p)
<1>1. ASSUME NEW place, NEW o, NEW out \in Seq(Message), NEW pub,
             Step(p, place, mine, o, rest, out, pub), pub \subseteq said[q],
             place = "wanted" => DataOf(p, "new-tx") \subseteq said[p],
             o = "addrs-request" => DataOf(q, "addrs-request") \subseteq said[q],
             Backed(p, out, said[p])
      PROVE  Honest(p)' /\ Honest(q)'
  <2>1. /\ Became(p, place, mine, o, rest) /\ Heard(p, pub)
        /\ Kept(q, out) \/ Kept(q, <<>>)
    BY <1>1, StepIs
  <2>2. Backed(p, <<>>, said[p]) /\ <<>> \in Seq(Message)  BY BackedOne, MessageSeqs
  <2> QED  BY <1>1, <2>1, <2>2, HonestMoves
<1>2. owed[p] = "addrs-request" => DataOf(q, "addrs-request") \subseteq said[q]
  BY DEF Honest
<1>3. CASE h.at # "loop"
  <2>1. Step(p, h.at, mine, owed[p], rest, h.out, h.pub)  BY <1>3, StepsToIs
  <2> QED  BY <1>1, <1>2, <2>1
<1>4. CASE h.at = "loop" /\ owed[p] = None
  <2> DEFINE place == IF mine = None THEN "loop" ELSE "ackAfter"
  <2>1. Step(p, place, mine, None, rest, h.out, h.pub)  BY <1>4, StepsToIs
  <2>2. place # "wanted" /\ None # "addrs-request"  BY Commands
  <2> HIDE DEF place
  <2> QED  BY <1>1, <2>1, <2>2
<1>5. CASE h.at = "loop" /\ owed[p] \in Owable
  <2> DEFINE out == h.out \o Answer(p, owed[p])
             pub == h.pub \cup Serve(p, owed[p]).pub
  <2>1. Step(p, Serve(p, owed[p]).at, mine, None, rest, out, pub)
    BY <1>5, StepsToIs, Commands DEF Owable
  <2>2. /\ Backed(p, Answer(p, owed[p]), said[p]) /\ Serve(p, owed[p]).pub \subseteq said[q]
        /\ Serve(p, owed[p]).at # "wanted" /\ Answer(p, owed[p]) \in Seq(Message)
    BY <1>2, <1>5, OwedHonest
  <2>3. Backed(p, out, said[p]) /\ out \in Seq(Message)  BY <2>2, BackedParts, Joining
  <2>4. pub \subseteq said[q] /\ None # "addrs-request"  BY <2>2, Commands
  <2> HIDE DEF out, pub
  <2> QED  BY <1>1, <2>1, <2>2, <2>3, <2>4
<1> QED  BY <1>3, <1>4, <1>5, Typed

LEMMA HonestFacts ==
  ASSUME TypeOK, NEW p \in Peer, Honest(p), inbox[p] # <<>>
  PROVE  /\ \A kind : \A rest \in Lefts(p, kind) :
               rest \in Seq(Message) /\ Backed(Other(p), rest, said[Other(p)])
         /\ Backed(Other(p), Tail(inbox[p]), said[Other(p)])
         /\ Tail(inbox[p]) \in Seq(Message)
         /\ \A m, c : Head(inbox[p]) = m /\ <<m, c>> \in Carriers(Other(p))
                         => DataOf(Other(p), c) \subseteq said[Other(p)]
<1>1. Other(p) \in Peer /\ inbox[p] \in Seq(Message)  BY Peers, Typed
<1>2. Backed(Other(p), inbox[p], said[Other(p)])  BY DEF Honest
<1>3. \A kind : \A rest \in Lefts(p, kind) : Backed(Other(p), rest, said[Other(p)])
  BY <1>1, <1>2, BackedLeft
<1>4. Backed(Other(p), Tail(inbox[p]), said[Other(p)])  BY <1>1, <1>2, BackedLeft
<1>5. /\ Tail(inbox[p]) \in Seq(Message)
      /\ \A kind : \A rest \in Lefts(p, kind) : rest \in Seq(Message)
  BY LeftTyped
<1>6. \A m, c : Head(inbox[p]) = m /\ <<m, c>> \in Carriers(Other(p))
                   => DataOf(Other(p), c) \subseteq said[Other(p)]
  BY <1>1, <1>2, BackedParts
<1> QED  BY <1>3, <1>4, <1>5, <1>6

LEMMA ServedHonest ==
  ASSUME TypeOK, PlacesOK, NEW p \in Peer, Honest(p), Honest(Other(p)), inbox[p] # <<>>,
         pc[p] \in {"loop", "ack"}, Served(p)
  PROVE  Honest(p)' /\ Honest(Other(p))'
<1> DEFINE q == Other(p)
<1>0. q \in Peer  BY Peers
<1>1. PICK c \in Command :
         /\ Head(inbox[p]) = Cmd(c) /\ owed[p] = None
         /\ StepsTo(p, Serve(p, c), issued[p], Tail(inbox[p]))
  BY ServedSteps
<1>2. c = "addrs-request" => DataOf(q, "addrs-request") \subseteq said[q]
  BY <1>0, <1>1, HonestFacts, CarriersAre
<1>3. /\ Backed(p, Answer(p, c), said[p]) /\ Serve(p, c).pub \subseteq said[q]
      /\ Serve(p, c).at # "wanted" /\ Answer(p, c) \in Seq(Message)
  BY <1>2, OwedHonest DEF Owable
<1>4. Answer(p, c) = Serve(p, c).out  BY DEF Answer
<1>5. Tail(inbox[p]) \in Seq(Message) /\ Backed(q, Tail(inbox[p]), said[q])  BY HonestFacts
<1> HIDE DEF q
<1> QED  BY <1>1, <1>3, <1>4, <1>5, HonestSteps DEF q

LEMMA PostponedHonest ==
  ASSUME TypeOK, PlacesOK, NEW p \in Peer, Honest(p), Honest(Other(p)), inbox[p] # <<>>,
         Postponed(p) \/ Misled(p)
  PROVE  Honest(p)' /\ Honest(Other(p))'
<1> DEFINE q == Other(p)
<1>0. q \in Peer /\ q # p  BY Peers
<1>7. Backed(q, Tail(inbox[p]), said[q])  BY HonestFacts
<1>8. Backed(q, <<Eof>>, said[q]) /\ Backed(q, <<>>, said[q])
  BY <1>0, PlainFacts, BackedOne
<1>9. \A m, d : Head(inbox[p]) = m /\ <<m, d>> \in Carriers(q) => DataOf(q, d) \subseteq said[q]
  BY HonestFacts
<1>10. <<Cmd("addrs-request"), "addrs-request">> \in Carriers(q)  BY <1>0, CarriersAre
<1> HIDE DEF q
<1>1. \E c, rest :
         /\ owed' = [owed EXCEPT ![p] = c] /\ pc' = [pc EXCEPT ![p] = "ownAck"]
         /\ inbox' = [inbox EXCEPT ![p] = rest]
         /\ UNCHANGED <<refuses, coming, issued, heard, said, stalled>>
         /\ c = "addrs-request" => Head(inbox[p]) = Cmd("addrs-request")
         /\ Backed(q, rest, said[q])
  <2>1. CASE Postponed(p)  BY <1>7, <2>1 DEF Postponed
  <2>2. CASE Misled(p)  BY <1>8, <2>2, Commands DEF Misled
  <2> QED  BY <2>1, <2>2
<1>11. PICK c, rest :
         /\ owed' = [owed EXCEPT ![p] = c] /\ pc' = [pc EXCEPT ![p] = "ownAck"]
         /\ inbox' = [inbox EXCEPT ![p] = rest]
         /\ UNCHANGED <<refuses, coming, issued, heard, said, stalled>>
         /\ c = "addrs-request" => Head(inbox[p]) = Cmd("addrs-request")
         /\ Backed(q, rest, said[q])
  BY <1>1
<1>2. c = "addrs-request" => DataOf(q, "addrs-request") \subseteq said[q]
  BY <1>9, <1>10, <1>11
<1>3. Became(p, "ownAck", issued[p], c, rest)  BY <1>11, Typed DEF Became
<1>4. Kept(q, <<>>)
  <2>1. inbox[q] \o <<>> = inbox[q]  BY <1>0, Typed, Joining
  <2> QED  BY <1>0, <1>11, <2>1, Typed DEF Kept
<1>5. Heard(p, {})  BY <1>11 DEF Heard
<1>6. Backed(p, <<>>, said[p]) /\ <<>> \in Seq(Message)  BY BackedOne, MessageSeqs
<1> QED  BY <1>2, <1>3, <1>4, <1>5, <1>6, <1>11, HonestMoves DEF q

\* The end drops what it was at.
LEMMA DropsHonest ==
  ASSUME TypeOK, NEW p \in Peer, Honest(p), Honest(Other(p)),
         NEW rest, NEW place \in {"spinning", "ended"}, NEW c \in {issued[p], None},
         Became(p, place, c, None, rest), Backed(Other(p), rest, said[Other(p)]),
         Kept(Other(p), <<>>), Heard(p, {})
  PROVE  Honest(p)' /\ Honest(Other(p))'
<1>1. Backed(p, <<>>, said[p]) /\ <<>> \in Seq(Message) /\ None # "addrs-request"
  BY BackedOne, MessageSeqs, Commands
<1> QED  BY <1>1, HonestMoves

\* It gives up, though it may acknowledge what was no command.
LEMMA GivenUpHonest ==
  ASSUME TypeOK, NEW p \in Peer, Honest(p), Honest(Other(p)), inbox[p] # <<>>,
         NEW kind, GivenUp(p, kind)
  PROVE  Honest(p)' /\ Honest(Other(p))'
<1>1. PICK rest \in Lefts(p, kind), out \in {<<>>, <<Ack(Unknown)>>} :
         Step(p, "loop", None, None, rest, out, {})
  BY DEF GivenUp
<1>2. rest \in Seq(Message) /\ Backed(Other(p), rest, said[Other(p)])  BY HonestFacts
<1>3. out \in Seq(Message) /\ <<>> \in Seq(Message)  BY MessageFacts, MessageSeqs
<1>4. Backed(p, out, said[p]) /\ Backed(p, <<>>, said[p])
  <2>1. Plain(p, Ack(Unknown))  BY PlainFacts DEF Owable
  <2> QED  BY <2>1, BackedOne
<1>5. /\ Became(p, "loop", None, None, rest) /\ Heard(p, {})
      /\ Kept(Other(p), out) \/ Kept(Other(p), <<>>)
  BY <1>1, <1>2, <1>3, StepIs
<1>6. None # "addrs-request"  BY Commands
<1> QED  BY <1>2, <1>3, <1>4, <1>5, <1>6, HonestMoves

LEMMA EndsHonest ==
  ASSUME TypeOK, NEW p \in Peer, Honest(p), Honest(Other(p)), inbox[p] # <<>>,
         Spin(p) \/ \E kind : Ends(p, kind)
  PROVE  Honest(p)' /\ Honest(Other(p))'
<1> DEFINE q == Other(p)
           Drops(place, rest) ==
             /\ pc' = [pc EXCEPT ![p] = place] /\ issued' = [issued EXCEPT ![p] = None]
             /\ owed' = [owed EXCEPT ![p] = None] /\ inbox' = [inbox EXCEPT ![p] = rest]
             /\ UNCHANGED <<refuses, heard, said, stalled>> /\ Backed(q, rest, said[q])
<1>0. q \in Peer /\ q # p  BY Peers
<1>1. Backed(q, <<>>, said[q])  BY <1>0, BackedOne
<1>2. \A kind : \A rest \in Lefts(p, kind) : Backed(q, rest, said[q])  BY HonestFacts
<1> HIDE DEF q, Drops
<1>3. PICK place, rest : place \in {"spinning", "ended"} /\ Drops(place, rest)
  <2>1. CASE Spin(p)
    <3>1. Drops("spinning", <<>>)  BY <1>1, <2>1 DEF Spin, Drops
    <3> QED  BY <3>1
  <2>2. CASE \E kind : Ends(p, kind)
    <3>1. PICK kind, left : left \in Lefts(p, kind) /\ End(p, left)  BY <2>2 DEF Ends
    <3>2. Drops("ended", left)  BY <1>2, <3>1 DEF End, Drops
    <3> QED  BY <3>2
  <2> QED  BY <2>1, <2>2
<1>4. Became(p, place, None, None, rest)  BY <1>3, Typed DEF Became, Drops
<1>5. Kept(q, <<>>)
  <2>1. inbox[q] \o <<>> = inbox[q]  BY <1>0, Typed, Joining
  <2> QED  BY <1>0, <1>3, <2>1, Typed DEF Kept, Drops
<1>6. Heard(p, {})  BY <1>3 DEF Heard, Drops
<1> QED  BY <1>3, <1>4, <1>5, <1>6, DropsHonest DEF q, Drops

\* The data of the command, of which the end said what it writes.
LEMMA WriteHonest ==
  ASSUME NEW p \in Peer, NEW c \in Command, NEW data, DataOf(p, c) \subseteq data
  PROVE  /\ Backed(p, Write(p, c).out, data) /\ Write(p, c).out \in Seq(Message)
         /\ Write(p, c).pub = {}
         /\ Write(p, c).at = "wanted" => DataOf(p, "new-tx") \subseteq data
<1>1. Write(p, c).out \in Seq(Message) /\ Write(p, c).pub = {}  BY WriteTyped DEF Handler
<1>2. CASE c = "addrs-request"
  <2>1. Write(p, c).out = <<>> /\ Write(p, c).at = "loop"  BY <1>2, WriteIs DEF Then
  <2> QED  BY <1>1, <2>1, BackedOne
<1>3. CASE c = "peer-addrs"
  <2>1. Write(p, c).out = <<Final(p, "addrs")>> /\ Write(p, c).at = "loop"
    BY <1>3, WriteIs DEF Then
  <2>2. Backed(p, <<Final(p, "addrs")>>, data)  BY <1>3, CarriersAre, BackedOne
  <2> QED  BY <1>1, <2>1, <2>2
<1>4. CASE c = "announce-addr"
  <2>1. Write(p, c).out = <<Final(p, "addr")>> /\ Write(p, c).at = "loop"
    BY <1>4, WriteIs DEF Then
  <2>2. Backed(p, <<Final(p, "addr")>>, data)  BY <1>4, CarriersAre, BackedOne
  <2> QED  BY <1>1, <2>1, <2>2
<1>5. CASE c = "new-tx"
  <2>1. Write(p, c).out = <<Raw("txId", p)>>  BY <1>5, WriteIs DEF Then
  <2>2. Backed(p, <<Raw("txId", p)>>, data)  BY PlainFacts, BackedOne
  <2> QED  BY <1>1, <1>5, <2>1, <2>2
<1>6. CASE c = "sync-chain"
  <2>1. Write(p, c).out = <<Final(p, "hello")>> /\ Write(p, c).at = "hello"
    BY <1>6, WriteIs DEF Then
  <2>2. Backed(p, <<Final(p, "hello")>>, data)  BY PlainFacts, BackedOne
  <2> QED  BY <1>1, <2>1, <2>2
<1> QED  BY <1>2, <1>3, <1>4, <1>5, <1>6, Commands

LEMMA RanIssuedHonest ==
  ASSUME TypeOK, PlacesOK, NEW p \in Peer, Honest(p), Honest(Other(p)), inbox[p] # <<>>,
         issued[p] \in Command, RanIssued(p)
  PROVE  Honest(p)' /\ Honest(Other(p))'
<1>1. StepsTo(p, Write(p, issued[p]), None, Tail(inbox[p]))  BY RanIssuedSteps
<1>2. DataOf(p, issued[p]) \subseteq said[p]  BY Commands DEF Honest
<1>3. /\ Backed(p, Write(p, issued[p]).out, said[p]) /\ Write(p, issued[p]).out \in Seq(Message)
      /\ Write(p, issued[p]).pub \subseteq said[Other(p)]
      /\ Write(p, issued[p]).at = "wanted" => DataOf(p, "new-tx") \subseteq said[p]
  BY <1>2, WriteHonest
<1>4. /\ Tail(inbox[p]) \in Seq(Message)
      /\ Backed(Other(p), Tail(inbox[p]), said[Other(p)])
  BY HonestFacts
<1> QED  BY <1>1, <1>3, <1>4, HonestSteps

\* What the last read of a handler publishes.
LEMMA Published ==
  ASSUME NEW p \in Peer, NEW place \in FinalReads, NEW h \in Received(p, place, <<place, Other(p)>>)
  PROVE  \/ place = "hello" /\ h.pub = {}
         \/ \E c \in Command \ {"addrs-request"} :
               /\ <<Final(Other(p), place), c>> \in Carriers(Other(p))
               /\ h.pub = DataOf(Other(p), c)
<1>0. Other(p) \in Peer  BY Peers
<1>1. CASE place = "hello"  BY <1>1, FinalHandlers
<1>2. CASE place = "addr"
  <2>1. h.pub = DataOf(Other(p), "announce-addr")
    <3>1. h.pub = {<<"announce-addr", <<place, Other(p)>>>>}  BY <1>2, FinalHandlers
    <3>2. DataOf(Other(p), "announce-addr") = {<<"announce-addr", <<"addr", Other(p)>>>>}  BY <1>0, DataIs
    <3> QED  BY <1>2, <3>1, <3>2
  <2> QED  BY <1>0, <1>2, <2>1, CarriersAre, Commands
<1>3. CASE place = "addrs"
  <2>1. h.pub = DataOf(Other(p), "peer-addrs")
    <3>1. h.pub = {<<"peer-addrs", <<place, Other(p)>>>>}  BY <1>3, FinalHandlers
    <3>2. DataOf(Other(p), "peer-addrs") = {<<"peer-addrs", <<"addrs", Other(p)>>>>}  BY <1>0, DataIs
    <3> QED  BY <1>3, <3>1, <3>2
  <2> QED  BY <1>0, <1>3, <2>1, CarriersAre, Commands
<1>4. CASE place = "tx"
  <2>1. h.pub = DataOf(Other(p), "new-tx")
    <3>1. h.pub = {<<"new-tx", <<place, Other(p)>>>>}  BY <1>4, FinalHandlers
    <3>2. DataOf(Other(p), "new-tx") = {<<"new-tx", <<"tx", Other(p)>>>>}  BY <1>0, DataIs
    <3> QED  BY <1>4, <3>1, <3>2
  <2> QED  BY <1>0, <1>4, <2>1, CarriersAre, Commands
<1> QED  BY <1>1, <1>2, <1>3, <1>4, PlaceSets

LEMMA HandledHonest ==
  ASSUME TypeOK, PlacesOK, NEW p \in Peer, Honest(p), Honest(Other(p)), InOrder(p),
         inbox[p] # <<>>, pc[p] \in DataPlaces, Handled(p)
  PROVE  Honest(p)' /\ Honest(Other(p))'
<1> DEFINE q == Other(p)
<1>0. q \in Peer  BY Peers
<1>1. PICK val \in Val, rest \in Lefts(p, DataKind(pc[p])) : \E h \in Received(p, pc[p], val) :
         /\ Head(inbox[p]) # Eof /\ (Clean(p, DataKind(pc[p])) => val = Head(inbox[p]).val)
         /\ h \in Handler /\ StepsTo(p, h, issued[p], rest)
  BY HandledGoes
<1>2. PICK h \in Received(p, pc[p], val) :
         h \in Handler /\ StepsTo(p, h, issued[p], rest)
  BY <1>1
<1>3. h.out \in Seq(Message)  BY <1>2 DEF Handler
<1>4. rest \in Seq(Message) /\ Backed(q, rest, said[q])  BY HonestFacts
<1>5. StepsTo(p, h, issued[p], rest)  BY <1>2
<1> HIDE DEF q
<1>6. ASSUME h.pub \subseteq said[q], h.at # "wanted", Backed(p, h.out, said[p])
      PROVE  Honest(p)' /\ Honest(q)'
  BY <1>3, <1>4, <1>5, <1>6, HonestSteps DEF q
<1>7. Backed(p, <<>>, said[p])  BY BackedOne
<1>8. CASE pc[p] = "hello"
  <2>1. h.at = "loop" /\ h.out = <<>> /\ h.pub = {}
    BY <1>2, <1>8, FinalHandlers, PlaceSets
  <2> QED  BY <1>6, <1>7, <2>1 DEF q
<1>9. CASE pc[p] \in {"addr", "addrs", "tx"}
  <2>1. pc[p] \in FinalReads  BY <1>9, PlaceSets
  <2>2. Head(inbox[p]) = Final(q, pc[p])
    <3>1. Proper(p, pc[p], issued[p], owed[p], inbox[p])  BY <1>9, NoCommandAhead
    <3>2. Head(inbox[p]) \in Expected(p, pc[p])  BY <1>1, <1>9, <3>1 DEF Proper
    <3> QED  BY <2>1, <3>2, ExpectedIs DEF q
  <2>3. Head(inbox[p]).kind = DataKind(pc[p]) /\ Head(inbox[p]).val = <<pc[p], q>>
    BY <1>0, <2>1, <2>2, FinalFacts DEF DataKind
  <2>4. val = <<pc[p], q>>  BY <1>1, <2>3 DEF Clean
  <2>5. h \in Received(p, pc[p], <<pc[p], Other(p)>>)  BY <1>2, <2>4 DEF q
  <2>6. h.pub \subseteq said[q]
    <3>1. PICK c \in Command :
             <<Final(q, pc[p]), c>> \in Carriers(q) /\ h.pub = DataOf(q, c)
      BY <1>9, <2>1, <2>5, Published DEF q
    <3>2. \A m, d : Head(inbox[p]) = m /\ <<m, d>> \in Carriers(q) => DataOf(q, d) \subseteq said[q]
      BY HonestFacts DEF q
    <3> QED  BY <2>2, <3>1, <3>2
  <2>7. h.at = "loop" /\ h.out = <<>>  BY <2>1, <2>5, FinalHandlers
  <2> QED  BY <1>6, <1>7, <2>6, <2>7 DEF q
<1>10. CASE pc[p] = "txId"
  <2>1. /\ h.pub = {} /\ h.at \in {"loop", "tx"}
        /\ h.out \in {<<Raw("wanted", "no")>>, <<Raw("wanted", "yes")>>}
    BY <1>2, <1>10, IdHandlers
  <2>2. Backed(p, h.out, said[p])  BY <2>1, PlainFacts, BackedOne
  <2> QED  BY <1>6, <2>1, <2>2 DEF q
<1>11. CASE pc[p] = "wanted"
  <2>1. h.at = "loop" /\ h.pub = {} /\ h.out \in {<<>>, <<Final(p, "tx")>>}
    <3>1. Raw("tx", p) = Final(p, "tx")  BY DEF Final
    <3> QED  BY <1>2, <1>11, <3>1, WantedHandlers
  <2>2. DataOf(p, "new-tx") \subseteq said[p]  BY <1>11 DEF Honest
  <2>3. Backed(p, <<Final(p, "tx")>>, said[p])  BY <2>2, CarriersAre, BackedOne
  <2>4. Backed(p, h.out, said[p])  BY <1>7, <2>1, <2>3
  <2> QED  BY <1>6, <2>1, <2>4 DEF q
<1> QED  BY <1>8, <1>9, <1>10, <1>11, PlaceSets DEF q

LEMMA ReceiveHonest ==
  ASSUME TypeOK, PlacesOK, NEW p \in Peer, Honest(p), Honest(Other(p)), InOrder(p), Receive(p)
  PROVE  Honest(p)' /\ Honest(Other(p))'
<1>0. inbox[p] # <<>>  BY ReceivesWhere
<1>1. CASE ReadCommand(p)
  BY <1>0, <1>1, ReadCommandIs, ServedHonest, GivenUpHonest, EndsHonest
<1>2. CASE ReadAnswer(p)
  BY <1>0, <1>2, ReadAnswerIs, RanIssuedHonest, ServedHonest, PostponedHonest, GivenUpHonest,
     EndsHonest
<1>3. CASE ReadOwnAck(p)
  BY <1>0, <1>3, ReadOwnAckIs, RanIssuedHonest, GivenUpHonest
<1>4. CASE ReadData(p)
  BY <1>0, <1>4, ReadDataIs, HandledHonest, GivenUpHonest, EndsHonest
<1> QED  BY <1>1, <1>2, <1>3, <1>4 DEF Receive

LEMMA IssueHonest ==
  ASSUME TypeOK, PlacesOK, NEW p \in Peer, NEW c \in Command, Honest(p), Honest(Other(p)),
         Issue(p, c)
  PROVE  Honest(p)' /\ Honest(Other(p))'
<1> DEFINE q == Other(p)
<1>0. q \in Peer /\ Other(q) = p /\ q # p  BY Peers
<1>1. /\ pc[p] = "loop" /\ pc' = [pc EXCEPT ![p] = "ack"] /\ issued' = [issued EXCEPT ![p] = c]
      /\ Exchange(p, inbox[p], <<Cmd(c)>>) /\ said' = [said EXCEPT ![p] = @ \cup DataOf(p, c)]
      /\ owed' = owed /\ heard' = heard
  BY DEF Issue
<1>2. /\ inbox[p] \in Seq(Message) /\ inbox[q] \in Seq(Message)
      /\ <<Cmd(c)>> \in Seq(Message)
  BY <1>0, Typed, MessageFacts, MessageSeqs
<1>3. inbox'[p] = inbox[p] /\ inbox'[q] \in {inbox[q], inbox[q] \o <<Cmd(c)>>}
  BY <1>1, <1>2, ExchangeIs
<1>4. owed[p] = None /\ None # "addrs-request"  BY <1>1, OwesWhere, Commands
<1>5. said'[p] = said[p] \cup DataOf(p, c) /\ said'[q] = said[q]  BY <1>0, <1>1, Typed
<1>6. /\ pc'[p] = "ack" /\ issued'[p] = c /\ pc'[q] = pc[q] /\ issued'[q] = issued[q]
  BY <1>0, <1>1, Typed
<1> HIDE DEF q
<1>7. /\ heard[p] \subseteq said[q] /\ heard[q] \subseteq said[p]
      /\ issued[q] # None => DataOf(q, issued[q]) \subseteq said[q]
      /\ pc[q] = "wanted" => DataOf(q, "new-tx") \subseteq said[q]
      /\ owed[q] = "addrs-request" => DataOf(p, "addrs-request") \subseteq said[p]
      /\ Backed(p, inbox[q], said[p]) /\ Backed(q, inbox[p], said[q])
  BY <1>0 DEF Honest, q
<1>8. Backed(p, inbox'[q], said'[p])
  <2>1. Backed(p, inbox[q], said'[p])  BY <1>2, <1>5, <1>7, BackedParts
  <2>2. Backed(p, <<Cmd(c)>>, said'[p])
    <3>1. CASE c = "addrs-request"
      <4>1. DataOf(p, "addrs-request") \subseteq said'[p]  BY <1>5, <3>1
      <4> QED  BY <3>1, <4>1, CarriersAre, BackedOne
    <3>2. CASE c # "addrs-request"  BY <3>2, PlainFacts, BackedOne
    <3> QED  BY <3>1, <3>2
  <2>3. Backed(p, inbox[q] \o <<Cmd(c)>>, said'[p])  BY <1>2, <2>1, <2>2, BackedParts
  <2> QED  BY <1>3, <2>1, <2>3
<1>9. Honest(p)'
  <2>1. Other(p) = q  BY DEF q
  <2>2. (issued[p] # None => DataOf(p, issued[p]) \subseteq said[p])'  BY <1>5, <1>6
  <2>3. (pc[p] = "wanted" => DataOf(p, "new-tx") \subseteq said[p])'  BY <1>6
  <2>4. (owed[p] = "addrs-request" => DataOf(q, "addrs-request") \subseteq said[q])'
    BY <1>1, <1>4
  <2>5. Backed(q, inbox[p], said[q])'  BY <1>3, <1>5, <1>7
  <2>6. (heard[p] \subseteq said[q])'  BY <1>1, <1>5, <1>7
  <2> QED  BY <2>1, <2>2, <2>3, <2>4, <2>5, <2>6 DEF Honest
<1>10. Honest(q)'
  <2>1. (heard[q] \subseteq said[p])'  BY <1>1, <1>5, <1>7
  <2>2. (owed[q] = "addrs-request" => DataOf(p, "addrs-request") \subseteq said[p])'
    BY <1>1, <1>5, <1>7
  <2>3. Backed(p, inbox[q], said[p])'  BY <1>8
  <2> QED  BY <1>0, <1>5, <1>6, <1>7, <2>1, <2>2, <2>3 DEF Honest
<1> QED  BY <1>9, <1>10 DEF q

LEMMA HangupHonest ==
  ASSUME TypeOK, NEW p \in Peer, Honest(p), Honest(Other(p)), Hangup(p) \/ Collect(p)
  PROVE  Honest(p)' /\ Honest(Other(p))'
<1> DEFINE q == Other(p)
<1>0. q \in Peer /\ Other(q) = p /\ q # p  BY Peers
<1>1. /\ pc'[p] = "ended" /\ issued'[p] = None /\ owed'[p] = None
      /\ pc'[q] = pc[q] /\ issued'[q] = issued[q] /\ owed'[q] = owed[q]
      /\ inbox'[p] \in {<<>>, inbox[p]} /\ inbox'[q] = Closed(inbox[q])
      /\ heard' = heard /\ said' = said
  <2>1. CASE Hangup(p)  BY <1>0, <2>1, Typed DEF Hangup
  <2>2. CASE Collect(p)
    <3>1. pc[p] = "ended" /\ issued[p] = None /\ owed[p] = None  BY <2>2 DEF Collect, TypeOK
    <3> QED  BY <1>0, <2>2, <3>1, Typed DEF Collect
  <2> QED  BY <2>1, <2>2
<1>2. inbox[q] \in Seq(Message) /\ Eof \in Message /\ <<Eof>> \in Seq(Message)
  BY <1>0, Typed, MessageFacts, MessageSeqs
<1>3. inbox'[q] \in {<<Eof>>, inbox[q] \o <<Eof>>}
  <2>1. inbox'[q] \in {<<Eof>>, Append(inbox[q], Eof)}  BY <1>1 DEF Closed
  <2>2. Append(inbox[q], Eof) = inbox[q] \o <<Eof>>  BY <1>2
  <2> QED  BY <2>1, <2>2
<1>4. /\ pc'[p] = "ended" /\ issued'[p] = None /\ owed'[p] = None
      /\ pc'[q] = pc[q] /\ issued'[q] = issued[q] /\ owed'[q] = owed[q]
      /\ heard' = heard /\ said' = said /\ None # "addrs-request"
  BY <1>1, Commands
<1> HIDE DEF q
<1>5. /\ heard[p] \subseteq said[q] /\ heard[q] \subseteq said[p]
      /\ issued[q] # None => DataOf(q, issued[q]) \subseteq said[q]
      /\ pc[q] = "wanted" => DataOf(q, "new-tx") \subseteq said[q]
      /\ owed[q] = "addrs-request" => DataOf(p, "addrs-request") \subseteq said[p]
      /\ Backed(p, inbox[q], said[p]) /\ Backed(q, inbox[p], said[q])
  BY <1>0 DEF Honest, q
<1>6. Backed(p, inbox'[q], said[p])
  <2>1. Backed(p, <<Eof>>, said[p])  BY PlainFacts, BackedOne
  <2>2. Backed(p, inbox[q] \o <<Eof>>, said[p])  BY <1>2, <1>5, <2>1, BackedParts
  <2> QED  BY <1>3, <2>1, <2>2
<1>7. Honest(p)'
  <2>1. Other(p) = q  BY DEF q
  <2>2. Backed(q, <<>>, said[q])  BY <1>0, BackedOne
  <2>3. Backed(q, inbox[p], said[q])'  BY <1>1, <1>4, <1>5, <2>2
  <2> QED  BY <1>4, <1>5, <2>1, <2>3 DEF Honest
<1>8. Honest(q)'
  <2>1. Backed(p, inbox[q], said[p])'  BY <1>4, <1>6
  <2> QED  BY <1>0, <1>4, <1>5, <2>1 DEF Honest
<1> QED  BY <1>7, <1>8 DEF q

\* A refusing node's command and data are what it said.
LEMMA HonestInit ==
  ASSUME Init, NEW p \in Peer
  PROVE  Honest(p)
<1> DEFINE q == Other(p)
<1>0. q \in Peer /\ Other(q) = p  BY Peers
<1>1. /\ heard[p] = {} /\ owed[p] = None /\ pc[p] \in {"closing", "ack", "loop"}
      /\ issued[p] \in {"sync-chain", None} /\ issued[q] \in {"sync-chain", None}
      /\ refuses[q] => said[q] = DataOf(q, "peer-addrs")
  BY <1>0 DEF Init
<1>2. DataOf(p, "sync-chain") = {} /\ None # "addrs-request"  BY DataIs, Commands
<1>3. \/ inbox[p] = <<>>
      \/ inbox[p] = <<Cmd("sync-chain")>>
      \/ refuses[q] /\ inbox[p] \in Refusals(q)
  <2>1. PICK refusal \in [Peer -> UNION {Refusals(x) : x \in Peer}] :
           /\ \A x \in Peer : refusal[x] \in Refusals(Other(x))
           /\ inbox = [x \in Peer |->
                      CASE refuses[x] -> <<>>
                        [] refuses[Other(x)] -> refusal[x]
                        [] issued[Other(x)] # None -> <<Cmd(issued[Other(x)])>>
                        [] OTHER -> <<>>]
    BY DEF Init
  <2>2. inbox[p] = CASE refuses[p] -> <<>>
                     [] refuses[q] -> refusal[p]
                     [] issued[q] # None -> <<Cmd(issued[q])>>
                     [] OTHER -> <<>>
    BY <2>1
  <2>3. \/ inbox[p] = <<>>
        \/ refuses[q] /\ inbox[p] = refusal[p]
        \/ issued[q] # None /\ inbox[p] = <<Cmd(issued[q])>>
    <3>1. CASE refuses[p]  BY <2>2, <3>1
    <3>2. CASE ~refuses[p] /\ refuses[q]
      <4>1. issued[q] = None  BY <1>0, <3>2 DEF Init
      <4> QED  BY <2>2, <3>2, <4>1
    <3>3. CASE ~refuses[p] /\ ~refuses[q]  BY <2>2, <3>3
    <3> QED  BY <3>1, <3>2, <3>3
  <2>4. refusal[p] \in Refusals(q)  BY <2>1
  <2> HIDE DEF q
  <2> QED  BY <1>1, <2>3, <2>4
<1> HIDE DEF q
<1>4. Backed(q, inbox[p], said[q])
  <2>1. CASE inbox[p] = <<>>  BY <1>0, <2>1, BackedOne
  <2>2. CASE inbox[p] = <<Cmd("sync-chain")>>  BY <1>0, <2>2, PlainFacts, BackedOne, Commands
  <2>3. CASE refuses[q] /\ inbox[p] \in Refusals(q)
    <3>1. Plain(q, Cmd("close")) /\ Plain(q, Cmd("peer-addrs"))
      BY <1>0, PlainFacts, Commands
    <3>2. Raw("addrs", q) = Final(q, "addrs")  BY DEF Final
    <3>3. /\ Backed(q, <<Cmd("close")>>, said[q]) /\ Backed(q, <<Cmd("peer-addrs")>>, said[q])
          /\ Backed(q, <<Raw("addrs", q)>>, said[q])
      <4>1. Backed(q, <<Cmd("close")>>, said[q]) /\ Backed(q, <<Cmd("peer-addrs")>>, said[q])
        BY <1>0, <3>1, BackedOne
      <4>2. /\ <<Final(q, "addrs"), "peer-addrs">> \in Carriers(q)
            /\ DataOf(q, "peer-addrs") \subseteq said[q]
        BY <1>0, <1>1, <2>3, CarriersAre
      <4>3. Backed(q, <<Final(q, "addrs")>>, said[q])  BY <1>0, <4>2, BackedOne
      <4> QED  BY <3>2, <4>1, <4>3
    <3> DEFINE t == <<Raw("addrs", q)>> \o <<Cmd("close")>>
    <3>4. /\ <<Cmd("close")>> \in Seq(Message) /\ <<Cmd("peer-addrs")>> \in Seq(Message)
          /\ <<Raw("addrs", q)>> \in Seq(Message) /\ t \in Seq(Message)
      BY <1>0, MessageFacts, MessageSeqs, Commands, Joining
    <3>5. Backed(q, t, said[q])  BY <1>0, <3>3, <3>4, BackedParts
    <3>6. <<Cmd("peer-addrs"), Raw("addrs", q), Cmd("close")>> = <<Cmd("peer-addrs")>> \o t
      OBVIOUS
    <3> HIDE DEF t
    <3>7. Backed(q, <<Cmd("peer-addrs")>> \o t, said[q])
      BY <1>0, <3>3, <3>4, <3>5, BackedParts
    <3> QED  BY <2>3, <3>3, <3>6, <3>7 DEF Refusals
  <2> QED  BY <1>3, <2>1, <2>2, <2>3
<1> QED  BY <1>1, <1>2, <1>4 DEF Honest, q

LEMMA HonestStep ==
  ASSUME TypeOK, PlacesOK, Streams, ~stalled => \A p \in Peer : Honest(p), [Next]_vars
  PROVE  (~stalled => \A p \in Peer : Honest(p))'
<1> SUFFICES ASSUME ~stalled'  PROVE \A p \in Peer : Honest(p)'
  OBVIOUS
<1>1. \A p, x \in Peer : x = p \/ x = Other(p)  BY Peers
<1>2. ASSUME NEW p \in Peer, Receive(p)  PROVE \A x \in Peer : Honest(x)'
  <2>1. ~stalled  BY <1>2, ReceiveMoves
  <2>2. InOrder(p) /\ Honest(p) /\ Honest(Other(p))  BY <2>1, StreamsReady, Peers
  <2>3. Honest(p)' /\ Honest(Other(p))'  BY <1>2, <2>2, ReceiveHonest
  <2> QED  BY <1>1, <2>3
<1>3. ASSUME NEW p \in Peer, IssueAny(p)  PROVE \A x \in Peer : Honest(x)'
  <2>1. PICK c \in Command : Issue(p, c)  BY <1>3 DEF IssueAny
  <2>2. ~stalled  BY <2>1 DEF Issue
  <2>3. Honest(p)' /\ Honest(Other(p))'  BY <2>1, <2>2, IssueHonest, Peers
  <2> QED  BY <1>1, <2>3
<1>4. ASSUME NEW p \in Peer, Timeout(p) \/ LoseByte(p)  PROVE FALSE
  BY <1>4 DEF Timeout, LoseByte
<1>5. ASSUME NEW p \in Peer, Hangup(p) \/ Collect(p)  PROVE \A x \in Peer : Honest(x)'
  <2>1. ~stalled  BY <1>5 DEF Hangup, Collect
  <2>2. Honest(p)' /\ Honest(Other(p))'  BY <1>5, <2>1, HangupHonest, Peers
  <2> QED  BY <1>1, <2>2
<1>6. CASE UNCHANGED vars
  <2>1. /\ pc' = pc /\ issued' = issued /\ owed' = owed /\ inbox' = inbox /\ stalled' = stalled
        /\ heard' = heard /\ said' = said
    BY <1>6 DEF vars
  <2> QED  BY <2>1 DEF Honest
<1> QED  BY <1>2, <1>3, <1>4, <1>5, <1>6 DEF Next

-----------------------------------------------------------------------------
(* Nothing is lost *)

LEMMA ReadyReads ==
  ASSUME TypeOK, NEW p \in Peer, Ready(p)
  PROVE  Reads(p)
<1>1. pc[p] \notin Deaf  BY DEF Ready
<1> SUFFICES ASSUME inbox[p] = <<Noise>>  PROVE FALSE
  BY <1>1 DEF Reads
<1>2. Noise.kind = "noise" /\ Noise \in Message /\ Noise.val = Garbage  BY MessageFacts
<1>3. inbox[p] # <<>> /\ Head(inbox[p]) = Noise  BY <1>2, HeadTail
<1>4. Readable(p)  BY <1>3 DEF Ready
<1>5. CASE pc[p] \in {"loop", "ack", "ownAck", "ackAfter"}
  <2>1. pc[p] # "loop" => issued[p] \in Command  BY <1>5, Typed DEF TypeOK
  <2>2. \/ \E c \in Command : Noise = Cmd(c)
        \/ \E c \in Command : Noise = Ack(c)
    BY <1>3, <1>4, <1>5, <2>1 DEF Readable
  <2> QED  BY <1>2, <2>2, MessageFacts
<1>6. CASE pc[p] \in DataPlaces
  <2>1. Head(inbox[p]).val # Garbage  BY <1>4, <1>6, CleanData
  <2> QED  BY <1>2, <1>3, <2>1
<1>7. pc[p] \in {"loop", "ack", "ownAck", "ackAfter"} \cup DataPlaces
  BY <1>1, Typed DEF Waits, DataPlaces
<1> QED  BY <1>5, <1>6, <1>7

LEMMA CarriedFacts ==
  ASSUME NEW from \in Peer, NEW s \in Seq(Message), NEW t \in Seq(Message), NEW d
  PROVE  /\ Carried(from, s, d) \/ Carried(from, t, d) => Carried(from, s \o t, d)
         /\ s # <<>> /\ Carried(from, s, d) =>
               \/ Carried(from, Tail(s), d)
               \/ \E w \in Carriers(from) :
                     w[2] # "addrs-request" /\ d \in DataOf(from, w[2]) /\ w[1] = Head(s)
<1>1. ToSet(s \o t) = ToSet(s) \cup ToSet(t)  BY JoinedElements
<1>2. Carried(from, s, d) \/ Carried(from, t, d) => Carried(from, s \o t, d)
  BY <1>1 DEF Carried
<1>3. ASSUME s # <<>>  PROVE ToSet(s) = {Head(s)} \cup ToSet(Tail(s))
  BY <1>3, Elements
<1>4. ASSUME s # <<>>, Carried(from, s, d)
      PROVE  \/ Carried(from, Tail(s), d)
             \/ \E w \in Carriers(from) :
                   w[2] # "addrs-request" /\ d \in DataOf(from, w[2]) /\ w[1] = Head(s)
  BY <1>3, <1>4 DEF Carried
<1> QED  BY <1>2, <1>4

\* The data of a command that an end has done with.
Done(p, c, out) ==
    \A d \in DataOf(p, c) : d \in heard[Other(p)] \/ d[1] = "new-tx" \/ Carried(p, out, d)

\* A read of what carries data publishes it.
Publishes(p, pub) ==
    \A w \in Carriers(Other(p)) :
        w[2] # "addrs-request" /\ w[1] = Head(inbox[p]) => DataOf(Other(p), w[2]) \subseteq pub

LEMMA DeliversMoves ==
  ASSUME TypeOK, NEW p \in Peer, Delivers(p), Delivers(Other(p)), inbox[p] # <<>>,
         NEW place, NEW c \in {issued[p], None}, NEW o, NEW out \in Seq(Message), NEW pub,
         Became(p, place, c, o, Tail(inbox[p])), Heard(p, pub), Kept(Other(p), out),
         Ack("addrs-request") \in ToSet(out) => DataOf(Other(p), "addrs-request") \subseteq pub,
         c # issued[p] => Done(p, issued[p], out),
         Publishes(p, pub)
  PROVE  Delivers(p)' /\ Delivers(Other(p))'
<1> DEFINE q == Other(p)
<1>0. q \in Peer /\ Other(q) = p /\ q # p  BY Peers
<1>1. /\ inbox[q] \in Seq(Message) /\ inbox[p] \in Seq(Message)
      /\ Tail(inbox[p]) \in Seq(Message)
      /\ ToSet(inbox[p]) = {Head(inbox[p])} \cup ToSet(Tail(inbox[p]))
  BY <1>0, Typed, Elements
<1>2. said' = said /\ heard'[p] = heard[p] \cup pub /\ heard'[q] = heard[q]  BY DEF Heard
<1>3. issued'[p] = c /\ inbox'[p] = Tail(inbox[p])  BY DEF Became
<1>4. issued'[q] = issued[q] /\ inbox'[q] = inbox[q] \o out  BY DEF Kept
<1>5. \A w \in Carriers(q) :
         w[2] # "addrs-request" /\ w[1] = Head(inbox[p]) => DataOf(q, w[2]) \subseteq pub
  BY DEF Publishes
<1>6. c # issued[p] =>
         \A d \in DataOf(p, issued[p]) : d \in heard[q] \/ d[1] = "new-tx" \/ Carried(p, out, d)
  BY DEF Done
<1>7. Ack("addrs-request") \in ToSet(out) => DataOf(q, "addrs-request") \subseteq pub
  OBVIOUS
<1> HIDE DEF q
<1>8. /\ Ack("addrs-request") \in ToSet(inbox[p]) => DataOf(p, "addrs-request") \subseteq heard[q]
      /\ Ack("addrs-request") \in ToSet(inbox[q]) => DataOf(q, "addrs-request") \subseteq heard[p]
      /\ \A d \in said[p] \ heard[q] :
            d[1] = "new-tx" \/ (issued[p] # None /\ d \in DataOf(p, issued[p]))
               \/ Carried(p, inbox[q], d)
      /\ \A d \in said[q] \ heard[p] :
            d[1] = "new-tx" \/ (issued[q] # None /\ d \in DataOf(q, issued[q]))
               \/ Carried(q, inbox[p], d)
  BY <1>0 DEF Delivers, Underway, q
<1>9. ASSUME NEW d \in said[p] \ heard[q]
      PROVE  d[1] = "new-tx" \/ (c # None /\ d \in DataOf(p, c)) \/ Carried(p, inbox'[q], d)
  <2>1. Carried(p, inbox[q], d) \/ Carried(p, out, d) => Carried(p, inbox'[q], d)
    BY <1>1, <1>4, CarriedFacts
  <2>2. CASE c = issued[p]  BY <1>8, <1>9, <2>1, <2>2
  <2>3. CASE c # issued[p]  BY <1>6, <1>8, <1>9, <2>1, <2>3
  <2> QED  BY <2>2, <2>3
<1>10. ASSUME NEW d \in said[q] \ (heard[p] \cup pub)
       PROVE  d[1] = "new-tx" \/ (issued[q] # None /\ d \in DataOf(q, issued[q]))
                 \/ Carried(q, Tail(inbox[p]), d)
  <2>1. ASSUME Carried(q, inbox[p], d)  PROVE Carried(q, Tail(inbox[p]), d)
    <3>1. \A w \in Carriers(q) :
             w[2] # "addrs-request" /\ d \in DataOf(q, w[2]) => w[1] # Head(inbox[p])
      BY <1>5, <1>10
    <3> QED  BY <1>0, <1>1, <2>1, <3>1, CarriedFacts
  <2> QED  BY <1>8, <1>10, <2>1
<1>11. Delivers(p)'
  <2>1. Other(p) = q  BY DEF q
  <2>2. (Ack("addrs-request") \in ToSet(inbox[p])
            => DataOf(p, "addrs-request") \subseteq heard[q])'
    BY <1>1, <1>2, <1>3, <1>8
  <2>3. (\A d \in said[p] \ heard[q] : Underway(p, d))'
    BY <1>2, <1>3, <1>9, <2>1 DEF Underway
  <2> QED  BY <2>1, <2>2, <2>3 DEF Delivers
<1>12. Delivers(q)'
  <2>1. ToSet(inbox'[q]) = ToSet(inbox[q]) \cup ToSet(out)
    <3>1. ToSet(inbox[q] \o out) = ToSet(inbox[q]) \cup ToSet(out)  BY <1>1, JoinedElements
    <3> QED  BY <1>4, <3>1
  <2>2. (Ack("addrs-request") \in ToSet(inbox[q])
            => DataOf(q, "addrs-request") \subseteq heard[p])'
    BY <1>2, <1>7, <1>8, <2>1
  <2>3. (\A d \in said[q] \ heard[p] : Underway(q, d))'
    BY <1>0, <1>2, <1>3, <1>4, <1>10 DEF Underway
  <2> QED  BY <1>0, <2>2, <2>3 DEF Delivers
<1> QED  BY <1>11, <1>12 DEF q

LEMMA AnswersRequests ==
  ASSUME NEW p \in Peer, NEW o \in Owable, Ack("addrs-request") \in ToSet(Answer(p, o))
  PROVE  Serve(p, o).pub = DataOf(Other(p), "addrs-request")
<1>1. Answer(p, o) = IF o = "sync-chain" THEN <<Ack(o), Final(p, "hello")>> ELSE <<Ack(o)>>
  BY ServeOwable
<1>2. ToSet(Answer(p, o)) \subseteq {Ack(o), Final(p, "hello")}
  <2>1. CASE o = "sync-chain"  BY <1>1, <2>1, ToSetShort
  <2>2. CASE o # "sync-chain"  BY <1>1, <2>2, ToSetShort
  <2> QED  BY <2>1, <2>2
<1>3. Ack("addrs-request") # Final(p, "hello")
  <2>1. Ack("addrs-request").kind = "string" /\ Final(p, "hello").kind = "hello"
    BY MessageFacts, FinalFacts, PlaceSets, Commands
  <2> QED  BY <2>1
<1>4. o = "addrs-request"
  <2>1. Ack("addrs-request").val = <<"ack", "addrs-request">> /\ Ack(o).val = <<"ack", o>>
    BY MessageFacts, Commands DEF Owable
  <2>2. Ack("addrs-request") = Ack(o)  BY <1>2, <1>3
  <2>3. <<"ack", "addrs-request">> = <<"ack", o>>  BY <2>1, <2>2
  <2> QED  BY <2>3
<1> QED  BY <1>4, ServeOwable

LEMMA DeliversSteps ==
  ASSUME TypeOK, NEW p \in Peer, Delivers(p), Delivers(Other(p)), inbox[p] # <<>>,
         Reads(Other(p)), NEW h, h.out \in Seq(Message), NEW mine \in {issued[p], None},
         StepsTo(p, h, mine, Tail(inbox[p])),
         Ack("addrs-request") \in ToSet(h.out) => DataOf(Other(p), "addrs-request") \subseteq h.pub,
         mine # issued[p] => Done(p, issued[p], h.out),
         Publishes(p, h.pub)
  PROVE  Delivers(p)' /\ Delivers(Other(p))'
<1> DEFINE q == Other(p)
           rest == Tail(inbox[p])
<1>0. rest \in Seq(Message)  BY LeftTyped
<1>1. ASSUME NEW place, NEW o, NEW out \in Seq(Message), NEW pub,
             Step(p, place, mine, o, rest, out, pub),
             Ack("addrs-request") \in ToSet(out) => DataOf(q, "addrs-request") \subseteq pub,
             mine # issued[p] => Done(p, issued[p], out), Publishes(p, pub)
      PROVE  Delivers(p)' /\ Delivers(q)'
  <2>1. Became(p, place, mine, o, rest) /\ Heard(p, pub) /\ Kept(q, out)
    BY <1>0, <1>1, StepIs
  <2> QED  BY <1>1, <2>1, DeliversMoves
<1> HIDE DEF rest
<1>2. CASE h.at # "loop"
  <2>1. Step(p, h.at, mine, owed[p], rest, h.out, h.pub)  BY <1>2, StepsToIs DEF rest
  <2> QED  BY <1>1, <2>1
<1>3. CASE h.at = "loop" /\ owed[p] = None
  <2> DEFINE place == IF mine = None THEN "loop" ELSE "ackAfter"
  <2>1. Step(p, place, mine, None, rest, h.out, h.pub)  BY <1>3, StepsToIs DEF rest
  <2> HIDE DEF place
  <2> QED  BY <1>1, <2>1
<1>4. CASE h.at = "loop" /\ owed[p] \in Owable
  <2> DEFINE a == Answer(p, owed[p])
             out == h.out \o a
             pub == h.pub \cup Serve(p, owed[p]).pub
  <2>1. Step(p, Serve(p, owed[p]).at, mine, None, rest, out, pub)
    BY <1>4, StepsToIs, Commands DEF rest, Owable
  <2>2. a \in Seq(Message)  BY <1>4, AnswerOwed
  <2>3. Ack("addrs-request") \in ToSet(a)
           => Serve(p, owed[p]).pub = DataOf(q, "addrs-request")
    BY <1>4, AnswersRequests
  <2> HIDE DEF a
  <2>4. out \in Seq(Message) /\ ToSet(out) = ToSet(h.out) \cup ToSet(a)
    BY <2>2, Joining, JoinedElements
  <2>5. Ack("addrs-request") \in ToSet(out) => DataOf(q, "addrs-request") \subseteq pub
    BY <2>3, <2>4
  <2>6. mine # issued[p] => Done(p, issued[p], out)
    <3>1. \A d : Carried(p, h.out, d) => Carried(p, out, d)  BY <2>2, CarriedFacts
    <3> HIDE DEF out
    <3> QED  BY <3>1 DEF Done
  <2>7. Publishes(p, pub)  BY DEF Publishes
  <2> HIDE DEF out, pub
  <2> QED  BY <1>1, <2>1, <2>4, <2>5, <2>6, <2>7
<1> QED  BY <1>2, <1>3, <1>4, Typed

\* A command and an acknowledgement carry no data but that of a request.
LEMMA CommandsPublish ==
  ASSUME NEW p \in Peer, NEW pub, NEW c \in Command, Head(inbox[p]) \in {Cmd(c), Ack(c)}
  PROVE  Publishes(p, pub)
<1>0. Other(p) \in Peer  BY Peers
<1> SUFFICES ASSUME NEW w \in Carriers(Other(p)), w[2] # "addrs-request", w[1] = Head(inbox[p])
             PROVE  FALSE
  BY DEF Publishes
<1>1. CASE Head(inbox[p]) = Ack(c)  BY <1>0, <1>1, PlainFacts DEF Plain, Owable
<1>2. CASE Head(inbox[p]) = Cmd(c) /\ c # "addrs-request"
  BY <1>0, <1>2, PlainFacts DEF Plain
<1>3. CASE Head(inbox[p]) = Cmd("addrs-request")
  <2>1. <<Cmd("addrs-request"), w[2]>> \in Carriers(Other(p))  BY <1>0, <1>3, CarriersAre
  <2> QED  BY <1>0, <2>1, CarriersAre
<1> QED  BY <1>1, <1>2, <1>3

LEMMA ServedDelivers ==
  ASSUME TypeOK, PlacesOK, NEW p \in Peer, Delivers(p), Delivers(Other(p)), inbox[p] # <<>>,
         Reads(Other(p)), pc[p] \in {"loop", "ack"}, Served(p)
  PROVE  Delivers(p)' /\ Delivers(Other(p))'
<1>1. PICK c \in Command :
         /\ Head(inbox[p]) = Cmd(c) /\ owed[p] = None
         /\ StepsTo(p, Serve(p, c), issued[p], Tail(inbox[p]))
  BY ServedSteps
<1>2. Answer(p, c) = Serve(p, c).out /\ Answer(p, c) \in Seq(Message)  BY AnswerIs DEF Answer
<1>3. Ack("addrs-request") \in ToSet(Serve(p, c).out)
         => DataOf(Other(p), "addrs-request") \subseteq Serve(p, c).pub
  BY <1>2, AnswersRequests DEF Owable
<1>4. Publishes(p, Serve(p, c).pub)  BY <1>1, CommandsPublish
<1> QED  BY <1>1, <1>2, <1>3, <1>4, DeliversSteps

LEMMA PostponedDelivers ==
  ASSUME TypeOK, PlacesOK, NEW p \in Peer, Delivers(p), Delivers(Other(p)), inbox[p] # <<>>,
         Postponed(p)
  PROVE  Delivers(p)' /\ Delivers(Other(p))'
<1> DEFINE q == Other(p)
<1>0. q \in Peer /\ q # p  BY Peers
<1>1. PICK c \in Command :
         /\ Head(inbox[p]) = Cmd(c) /\ owed' = [owed EXCEPT ![p] = c]
         /\ pc' = [pc EXCEPT ![p] = "ownAck"]
         /\ inbox' = [inbox EXCEPT ![p] = Tail(inbox[p])]
         /\ UNCHANGED <<refuses, coming, issued, heard, said, stalled>>
  BY DEF Postponed
<1>2. Became(p, "ownAck", issued[p], c, Tail(inbox[p]))  BY <1>1, Typed DEF Became
<1>3. Kept(q, <<>>)
  <2>1. inbox[q] \o <<>> = inbox[q]  BY <1>0, Typed, Joining
  <2> QED  BY <1>0, <1>1, <2>1, Typed DEF Kept
<1>4. Heard(p, {})  BY <1>1 DEF Heard
<1>5. Publishes(p, {})  BY <1>1, CommandsPublish
<1>6. ToSet(<<>>) = {} /\ <<>> \in Seq(Message)  BY ToSetShort, MessageSeqs
<1> QED  BY <1>2, <1>3, <1>4, <1>5, <1>6, DeliversMoves

LEMMA RanIssuedDelivers ==
  ASSUME TypeOK, PlacesOK, NEW p \in Peer, Delivers(p), Delivers(Other(p)), inbox[p] # <<>>,
         Reads(Other(p)), issued[p] \in Command, RanIssued(p)
  PROVE  Delivers(p)' /\ Delivers(Other(p))'
<1> DEFINE c == issued[p]
           h == Write(p, c)
<1>1. Head(inbox[p]) = Ack(c) /\ StepsTo(p, h, None, Tail(inbox[p]))  BY RanIssuedSteps
<1>2. h.out \in Seq(Message) /\ h.pub = {}  BY WriteTyped DEF Handler
<1>3. Publishes(p, h.pub)  BY <1>1, CommandsPublish
<1>4. /\ Ack("addrs-request") # Raw("txId", p)
      /\ \A x \in FinalReads : Ack("addrs-request") # Final(p, x)
  <2>1. /\ Ack("addrs-request").val = <<"ack", "addrs-request">>
        /\ Raw("txId", p).val = <<"txId", p>>
        /\ \A x \in FinalReads : Final(p, x).val = <<x, p>>
    BY MessageFacts, FinalFacts, Commands
  <2>2. "ack" \notin FinalReads  BY DEF FinalReads
  <2> QED  BY <2>1, <2>2
<1>5. CASE c = "addrs-request"
  <2>1. h.out = <<>>  BY <1>5, WriteIs DEF Then
  <2>2. Ack("addrs-request") \notin ToSet(h.out)  BY <2>1, ToSetShort
  <2>3. DataOf(p, c) \subseteq heard[Other(p)]
    <3>1. ToSet(inbox[p]) = {Head(inbox[p])} \cup ToSet(Tail(inbox[p]))  BY Typed, Elements
    <3> QED  BY <1>1, <1>5, <3>1 DEF Delivers
  <2>4. Done(p, c, h.out)  BY <2>3 DEF Done
  <2> QED  BY <1>1, <1>2, <1>3, <2>2, <2>4, DeliversSteps
<1>6. ASSUME NEW x, h.out = <<Final(p, x)>>, x \in FinalReads, c # "addrs-request",
             <<Final(p, x), c>> \in Carriers(p)
      PROVE  Delivers(p)' /\ Delivers(Other(p))'
  <2>1. ToSet(h.out) = {Final(p, x)}  BY <1>6, ToSetShort
  <2>2. Ack("addrs-request") \notin ToSet(h.out)  BY <1>4, <1>6, <2>1
  <2>3. Done(p, c, h.out)
    <3> DEFINE w == <<Final(p, x), c>>
    <3>1. w[1] = Final(p, x) /\ w[2] = c /\ w \in Carriers(p)  BY <1>6
    <3> HIDE DEF w
    <3>2. \A d \in DataOf(p, c) : Carried(p, h.out, d)  BY <1>6, <2>1, <3>1 DEF Carried
    <3> QED  BY <3>2 DEF Done
  <2> QED  BY <1>1, <1>2, <1>3, <2>2, <2>3, DeliversSteps
<1>7. CASE c = "peer-addrs"
  <2>1. h.out = <<Final(p, "addrs")>>  BY <1>7, WriteIs DEF Then
  <2> QED  BY <1>6, <1>7, <2>1, PlaceSets, CarriersAre
<1>8. CASE c = "announce-addr"
  <2>1. h.out = <<Final(p, "addr")>>  BY <1>8, WriteIs DEF Then
  <2> QED  BY <1>6, <1>8, <2>1, PlaceSets, CarriersAre
<1>9. CASE c = "new-tx"
  <2>1. h.out = <<Raw("txId", p)>>  BY <1>9, WriteIs DEF Then
  <2>2. Ack("addrs-request") \notin ToSet(h.out)  BY <1>4, <2>1, ToSetShort
  <2>3. Done(p, c, h.out)  BY <1>9, DataIs DEF Done
  <2> QED  BY <1>1, <1>2, <1>3, <2>2, <2>3, DeliversSteps
<1>10. CASE c = "sync-chain"
  <2>1. h.out = <<Final(p, "hello")>>  BY <1>10, WriteIs DEF Then
  <2>2. Ack("addrs-request") \notin ToSet(h.out)  BY <1>4, <2>1, ToSetShort, PlaceSets
  <2>3. Done(p, c, h.out)  BY <1>10, DataIs DEF Done
  <2> QED  BY <1>1, <1>2, <1>3, <2>2, <2>3, DeliversSteps
<1> QED  BY <1>5, <1>7, <1>8, <1>9, <1>10, Commands

LEMMA HandledDelivers ==
  ASSUME TypeOK, PlacesOK, NEW p \in Peer, Delivers(p), Delivers(Other(p)), inbox[p] # <<>>,
         Reads(Other(p)), Readable(p), pc[p] \in DataPlaces, Handled(p)
  PROVE  Delivers(p)' /\ Delivers(Other(p))'
<1> DEFINE q == Other(p)
<1>0. q \in Peer  BY Peers
<1>1. Clean(p, DataKind(pc[p]))  BY CleanData
<1>2. PICK h \in Received(p, pc[p], Head(inbox[p]).val) :
         h \in Handler /\ StepsTo(p, h, issued[p], Tail(inbox[p]))
  BY <1>1, HandledSteps
<1>3. h.out \in Seq(Message)  BY <1>2 DEF Handler
<1>4. ASSUME Ack("addrs-request") \notin ToSet(h.out), Publishes(p, h.pub)
      PROVE  Delivers(p)' /\ Delivers(q)'
  BY <1>2, <1>3, <1>4, DeliversSteps
<1>5. ASSUME NEW pub, Plain(q, Head(inbox[p]))  PROVE Publishes(p, pub)
  BY <1>5 DEF Publishes, Plain
<1>6. Ack("addrs-request").kind = "string"  BY MessageFacts, Commands
<1>7. CASE pc[p] \in FinalReads
  <2>1. h.out = <<>>  BY <1>2, <1>7, FinalHandlers
  <2>2. Head(inbox[p]) = Final(q, pc[p])  BY <1>7 DEF Readable
  <2>3. Head(inbox[p]).val = <<pc[p], Other(p)>>  BY <1>0, <1>7, <2>2, FinalFacts
  <2>4. h \in Received(p, pc[p], <<pc[p], Other(p)>>)  BY <1>2, <2>3
  <2>5. Publishes(p, h.pub)
    <3>1. CASE pc[p] = "hello"
      <4>1. Plain(q, Head(inbox[p]))  BY <1>0, <2>2, <3>1, PlainFacts
      <4> QED  BY <1>5, <4>1
    <3>2. CASE \E c \in Command \ {"addrs-request"} :
                  <<Final(q, pc[p]), c>> \in Carriers(q) /\ h.pub = DataOf(q, c)
      <4>1. PICK c \in Command : <<Final(q, pc[p]), c>> \in Carriers(q) /\ h.pub = DataOf(q, c)
        BY <3>2
      <4> HIDE DEF q
      <4>2. ASSUME NEW w \in Carriers(q), w[1] = Head(inbox[p])  PROVE w[2] = c
        <5>1. <<Final(q, pc[p]), w[2]>> \in Carriers(q)  BY <1>0, <2>2, <4>2, CarriersAre
        <5> QED  BY <1>0, <4>1, <5>1, CarriersAre
      <4> QED  BY <4>1, <4>2 DEF Publishes, q
    <3> QED  BY <1>7, <2>4, <3>1, <3>2, Published
  <2>6. Ack("addrs-request") \notin ToSet(h.out)  BY <2>1, ToSetShort
  <2> QED  BY <1>4, <2>5, <2>6
<1>8. CASE pc[p] = "txId"
  <2>1. h.out \in {<<Raw("wanted", "no")>>, <<Raw("wanted", "yes")>>}
    <3>1. PICK val : h \in Received(p, "txId", val)  BY <1>2, <1>8
    <3>2. h.out = <<Raw("wanted", "no")>> \/ h.out = <<Raw("wanted", "yes")>>
      BY <3>1, IdHandlers
    <3> QED  BY <3>2
  <2>2. \A y \in {"yes", "no"} : Raw("wanted", y).kind = "wanted"  BY MessageFacts
  <2>3. Ack("addrs-request") \notin ToSet(h.out)  BY <1>6, <2>1, <2>2, ToSetShort
  <2>4. Plain(q, Head(inbox[p]))
    <3>1. Head(inbox[p]) = Raw("txId", q)  BY <1>8 DEF Readable
    <3> QED  BY <1>0, <3>1, PlainFacts
  <2> QED  BY <1>4, <1>5, <2>3, <2>4
<1>9. CASE pc[p] = "wanted"
  <2>1. h.out \in {<<>>, <<Raw("tx", p)>>}
    <3>1. PICK val : h \in Received(p, "wanted", val)  BY <1>2, <1>9
    <3>2. h.out = <<>> \/ h.out = <<Raw("tx", p)>>  BY <3>1, WantedHandlers
    <3> QED  BY <3>2
  <2>2. Raw("tx", p).kind = "tx"  BY MessageFacts
  <2>3. Ack("addrs-request") \notin ToSet(h.out)  BY <1>6, <2>1, <2>2, ToSetShort
  <2>4. Plain(q, Head(inbox[p]))
    <3>1. Head(inbox[p]) \in {Raw("wanted", "yes"), Raw("wanted", "no")}  BY <1>9 DEF Readable
    <3> QED  BY <1>0, <3>1, PlainFacts
  <2> QED  BY <1>4, <1>5, <2>3, <2>4
<1> QED  BY <1>7, <1>8, <1>9, PlaceSets

LEMMA ReceiveDelivers ==
  ASSUME TypeOK, PlacesOK, NEW p \in Peer, Delivers(p), Delivers(Other(p)), Readable(p),
         Reads(Other(p)), Receive(p)
  PROVE  Delivers(p)' /\ Delivers(Other(p))'
BY CleanReceive, ServedDelivers, PostponedDelivers, RanIssuedDelivers, HandledDelivers

LEMMA IssueDelivers ==
  ASSUME TypeOK, PlacesOK, NEW p \in Peer, NEW c \in Command, Delivers(p), Delivers(Other(p)),
         Reads(Other(p)), Issue(p, c)
  PROVE  Delivers(p)' /\ Delivers(Other(p))'
<1> DEFINE q == Other(p)
<1>0. q \in Peer /\ Other(q) = p /\ q # p  BY Peers
<1>1. /\ pc[p] = "loop" /\ issued' = [issued EXCEPT ![p] = c]
      /\ Exchange(p, inbox[p], <<Cmd(c)>>) /\ said' = [said EXCEPT ![p] = @ \cup DataOf(p, c)]
      /\ heard' = heard
  BY DEF Issue
<1>2. /\ inbox[p] \in Seq(Message) /\ inbox[q] \in Seq(Message) /\ <<Cmd(c)>> \in Seq(Message)
      /\ Cmd(c) # Ack("addrs-request") /\ c # None
  BY <1>0, Typed, MessageFacts, MessageSeqs, CmdIs, Commands
<1>3. inbox'[p] = inbox[p] /\ inbox'[q] = inbox[q] \o <<Cmd(c)>>
  BY <1>1, <1>2, ExchangeIs DEF Reads
<1>4. /\ said'[p] = said[p] \cup DataOf(p, c) /\ said'[q] = said[q]
      /\ issued'[p] = c /\ issued'[q] = issued[q] /\ issued[p] = None
  BY <1>0, <1>1, Typed DEF TypeOK
<1> HIDE DEF q
<1>5. /\ Ack("addrs-request") \in ToSet(inbox[p]) => DataOf(p, "addrs-request") \subseteq heard[q]
      /\ Ack("addrs-request") \in ToSet(inbox[q]) => DataOf(q, "addrs-request") \subseteq heard[p]
      /\ \A d \in said[p] \ heard[q] :
            d[1] = "new-tx" \/ (issued[p] # None /\ d \in DataOf(p, issued[p]))
               \/ Carried(p, inbox[q], d)
      /\ \A d \in said[q] \ heard[p] :
            d[1] = "new-tx" \/ (issued[q] # None /\ d \in DataOf(q, issued[q]))
               \/ Carried(q, inbox[p], d)
  BY <1>0 DEF Delivers, Underway, q
<1>6. ToSet(inbox'[q]) = ToSet(inbox[q]) \cup {Cmd(c)}
  <2>1. ToSet(inbox[q] \o <<Cmd(c)>>) = ToSet(inbox[q]) \cup ToSet(<<Cmd(c)>>)
    BY <1>2, JoinedElements
  <2> QED  BY <1>3, <2>1, ToSetShort
<1>7. ASSUME NEW d, Carried(p, inbox[q], d)  PROVE Carried(p, inbox'[q], d)
  BY <1>6, <1>7 DEF Carried
<1>8. Delivers(p)'
  <2>1. Other(p) = q  BY DEF q
  <2>2. (\A d \in said[p] \ heard[q] : Underway(p, d))'
    BY <1>1, <1>2, <1>4, <1>5, <1>7, <2>1 DEF Underway
  <2>3. (Ack("addrs-request") \in ToSet(inbox[p])
            => DataOf(p, "addrs-request") \subseteq heard[q])'
    BY <1>1, <1>3, <1>5
  <2> QED  BY <2>1, <2>2, <2>3 DEF Delivers
<1>9. Delivers(q)'
  <2>1. (\A d \in said[q] \ heard[p] : Underway(q, d))'
    BY <1>0, <1>1, <1>3, <1>4, <1>5 DEF Underway
  <2>2. (Ack("addrs-request") \in ToSet(inbox[q])
            => DataOf(q, "addrs-request") \subseteq heard[p])'
    BY <1>1, <1>2, <1>5, <1>6
  <2> QED  BY <1>0, <2>1, <2>2 DEF Delivers
<1> QED  BY <1>8, <1>9 DEF q

\* Two ends that begin have said nothing, and read at most the first sync-chain.
LEMMA DeliversInit ==
  ASSUME Init, Live, NEW p \in Peer
  PROVE  Delivers(p)
<1> DEFINE q == Other(p)
<1>0. q \in Peer /\ Other(q) = p  BY Peers
<1>1. ~refuses[p] /\ ~refuses[q] /\ said[p] = {}  BY <1>0 DEF Init, Live
<1>2. inbox[p] = <<>> \/ (issued[q] # None /\ inbox[p] = <<Cmd(issued[q])>>)
  BY <1>1 DEF Init
<1>3. issued[q] \in Command \cup {None}  BY <1>0, TypesInit, Typed
<1>4. Ack("addrs-request") \notin ToSet(inbox[p])
  <2>1. CASE inbox[p] = <<>>  BY <2>1, ToSetShort
  <2>2. CASE issued[q] \in Command /\ inbox[p] = <<Cmd(issued[q])>>
    BY <2>2, ToSetShort, CmdIs, Commands
  <2> QED  BY <1>2, <1>3, <2>1, <2>2
<1> QED  BY <1>1, <1>4 DEF Delivers

LEMMA DeliversStep ==
  ASSUME TypeOK, PlacesOK, Streams, ~stalled /\ Live => \A p \in Peer : Delivers(p), [Next]_vars
  PROVE  (~stalled /\ Live => \A p \in Peer : Delivers(p))'
<1> SUFFICES ASSUME ~stalled', Live'  PROVE \A p \in Peer : Delivers(p)'
  OBVIOUS
<1>1. \A p, x \in Peer : x = p \/ x = Other(p)  BY Peers
<1>2. ASSUME NEW p \in Peer, ~stalled, refuses' = refuses, \A x \in Peer \ {p} : pc'[x] = pc[x],
             pc[p] # "ended"
      PROVE  Ready(p) /\ Reads(Other(p)) /\ Delivers(p) /\ Delivers(Other(p))
  <2>1. Live  BY <1>2 DEF Live, Running
  <2>2. Ready(p) /\ Ready(Other(p))  BY <1>2, <2>1, StreamsReady, Peers
  <2> QED  BY <1>2, <2>1, <2>2, ReadyReads, Peers
<1>3. ASSUME NEW p \in Peer, Receive(p)  PROVE \A x \in Peer : Delivers(x)'
  <2>1. /\ ~stalled /\ refuses' = refuses /\ \A x \in Peer \ {p} : pc'[x] = pc[x]
        /\ pc[p] # "ended" /\ inbox[p] # <<>>
    BY <1>3, ReceiveMoves, ReceivesWhere DEF DataPlaces
  <2>2. Ready(p) /\ Reads(Other(p)) /\ Delivers(p) /\ Delivers(Other(p))  BY <1>2, <2>1
  <2>3. Readable(p)  BY <2>1, <2>2 DEF Ready
  <2>4. Delivers(p)' /\ Delivers(Other(p))'  BY <1>3, <2>2, <2>3, ReceiveDelivers
  <2> QED  BY <1>1, <2>4
<1>4. ASSUME NEW p \in Peer, IssueAny(p)  PROVE \A x \in Peer : Delivers(x)'
  <2>1. PICK c \in Command : Issue(p, c)  BY <1>4 DEF IssueAny
  <2>2. /\ ~stalled /\ refuses' = refuses /\ pc[p] # "ended"
        /\ \A x \in Peer \ {p} : pc'[x] = pc[x]
    BY <2>1, Typed DEF Issue
  <2>3. Reads(Other(p)) /\ Delivers(p) /\ Delivers(Other(p))  BY <1>2, <2>2
  <2>4. Delivers(p)' /\ Delivers(Other(p))'  BY <2>1, <2>3, IssueDelivers
  <2> QED  BY <1>1, <2>4
<1>5. ASSUME NEW p \in Peer, Timeout(p) \/ LoseByte(p)  PROVE FALSE
  BY <1>5 DEF Timeout, LoseByte
<1>6. ASSUME NEW p \in Peer, Hangup(p)  PROVE FALSE
  <2>1. pc'[p] = "ended"  BY <1>6, Typed DEF Hangup
  <2> QED  BY <2>1 DEF Live, Running
<1>8. ASSUME NEW p \in Peer, Collect(p)  PROVE FALSE
  BY <1>8 DEF Collect, Live, Running
<1>7. CASE UNCHANGED vars
  <2>1. /\ pc' = pc /\ issued' = issued /\ inbox' = inbox /\ stalled' = stalled
        /\ heard' = heard /\ said' = said /\ refuses' = refuses
    BY <1>7 DEF vars
  <2>2. \A p \in Peer : Delivers(p)  BY <2>1 DEF Live, Running
  <2> QED  BY <2>1, <2>2 DEF Delivers, Underway
<1> QED  BY <1>3, <1>4, <1>5, <1>6, <1>7, <1>8 DEF Next

\* The invariant of PeerInvariant.
LEMMA InvariantHolds == Spec => []IInv
<1> DEFINE H == ~stalled => \A p \in Peer : Honest(p)
           D == ~stalled /\ Live => \A p \in Peer : Delivers(p)
           I == TypeOK /\ PlacesOK /\ Refusers /\ Streams /\ H /\ D
<1>1. Init => I
  BY TypesInit, RefusersInit, StreamsInit, HonestInit, DeliversInit
<1>2. I /\ [Next]_vars => I'
  <2> SUFFICES ASSUME I, [Next]_vars  PROVE I'
    OBVIOUS
  <2>1. TypeOK' /\ PlacesOK'  BY TypesStep
  <2>2. Refusers'  BY RefusersStep
  <2>3. Streams'  BY StreamsStep
  <2>4. H'  BY HonestStep
  <2>5. D'  BY DeliversStep
  <2> QED  BY <2>1, <2>2, <2>3, <2>4, <2>5
<1>3. I => IInv  BY DEF IInv
<1> HIDE DEF I
<1> QED  BY <1>1, <1>2, <1>3, PTL DEF Spec

LEMMA QuietIsLive ==
  ASSUME TypeOK, Refusers, Quiet
  PROVE  Live /\ \A p \in Peer : issued[p] = None /\ inbox[p] = <<>>
<1>1. \A p \in Peer : pc[p] = "loop" /\ inbox[p] = <<>>  BY DEF Quiet
<1> QED  BY <1>1 DEF Live, Running, Refusers, TypeOK

\* Of two ends whose connection was never slower than a timeout, neither publishes what the
\* other did not issue as that command, though their commands may cross and either may refuse
\* the other or end; and when both are back in their loops with nothing to read, each has
\* heard all that the other said, but for transactions it had (handleReceivedMessage,
\* issueCommand and handlers.go).
THEOREM WhatIsHeardWasSaid == Spec => []HeardAsSaid
<1>1. IInv => HeardAsSaid
  <2> SUFFICES ASSUME IInv, ~stalled, NEW p \in Peer
               PROVE  /\ heard[p] \subseteq said[Other(p)]
                      /\ Quiet => \A d \in said[Other(p)] \ heard[p] : d[1] = "new-tx"
    BY DEF HeardAsSaid
  <2>0. Other(p) \in Peer /\ Other(Other(p)) = p  BY Peers
  <2>1. heard[p] \subseteq said[Other(p)]  BY DEF IInv, Honest
  <2>2. ASSUME Quiet, NEW d \in said[Other(p)] \ heard[p]  PROVE d[1] = "new-tx"
    <3>1. Live /\ issued[Other(p)] = None /\ inbox[p] = <<>>
      BY <2>0, <2>2, QuietIsLive DEF IInv
    <3>2. Delivers(Other(p))  BY <2>0, <3>1 DEF IInv
    <3>3. Underway(Other(p), d)  BY <2>0, <2>2, <3>2 DEF Delivers
    <3>4. ~Carried(Other(p), <<>>, d)  BY ToSetShort DEF Carried
    <3> QED  BY <2>0, <3>1, <3>3, <3>4 DEF Underway
  <2> QED  BY <2>1, <2>2
<1> QED  BY <1>1, InvariantHolds, PTL

=============================================================================
