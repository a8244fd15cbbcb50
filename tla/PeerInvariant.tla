---------------------------- MODULE PeerInvariant ---------------------------
(***************************************************************************)
(* The inductive invariant behind the safety theorems of PeerProofs: what  *)
(* two ends that both run have still to read and to write, joint place by  *)
(* joint place, and what an end that is left alone has still to read.      *)
(***************************************************************************)
EXTENDS Peer

\* An end in its loop has issued nothing, nor has one that serves what it owed.
PlacesOK ==
    \A p \in Peer : owed[p] # None /\ pc[p] # "ownAck" => issued[p] = None

\* An end that is not a peer takes no part.
Refusers == \A p \in Peer : refuses[p] => pc[p] \in Deaf

Live == \A p \in Peer : ~refuses[p] /\ Running(p)

-----------------------------------------------------------------------------
(* One end, before the messages t *)

FinalReads == {"addr", "addrs", "tx", "hello"}

\* The message that the last read of a handler waits for.
Final(from, place) == IF place = "addr" THEN String("addr", from) ELSE Raw(place, from)

\* The acknowledgement of a command, and what its handler writes at once.
Answer(server, c) == Serve(server, c).out

\* It has read nothing of t, and comes to the answer to its command with no message sent.
Behind(p, t) ==
    /\ owed[p] = None
    /\ \/ pc[p] = "ack" /\ inbox[p] = t
       \/ p = Initiator /\ pc[p] = "ackAfter" /\ inbox[p] = t
       \/ /\ p = Initiator /\ pc[p] \in FinalReads
          /\ inbox[p] = <<Final(Other(p), pc[p])>> \o t

\* It comes back to its loop, with t to read, and sends no message before.
Finishing(p, t) ==
    \/ /\ issued[p] = None /\ owed[p] = None
       /\ \/ pc[p] = "loop" /\ inbox[p] = t
          \/ pc[p] \in FinalReads /\ inbox[p] = <<Final(Other(p), pc[p])>> \o t
          \/ pc[p] = "wanted" /\ inbox[p] = <<Raw("wanted", "no")>> \o t
    \/ issued[p] = "addrs-request" /\ Behind(p, <<Ack("addrs-request")>> \o t)

At(p, place, c, o, s) ==
    pc[p] = place /\ issued[p] = c /\ owed[p] = o /\ inbox[p] = s

-----------------------------------------------------------------------------
(* Two ends, one command at a time *)

Apart == \A p \in Peer : Finishing(p, <<>>)

\* p's command is on its way.
Asked(p, c) == At(p, "ack", c, None, <<>>) /\ Finishing(Other(p), <<Cmd(c)>>)

Answered(p, c) ==
    /\ c # "addrs-request" /\ issued[p] = c /\ Behind(p, Answer(Other(p), c))
    /\ At(Other(p), Serve(Other(p), c).at, None, None, <<>>)

\* p has announced a transaction; the other end asks for it, or not.
Offered(p) ==
    \/ At(p, "wanted", None, None, <<>>) /\ At(Other(p), "txId", None, None, <<Raw("txId", p)>>)
    \/ /\ At(p, "wanted", None, None, <<Raw("wanted", "yes")>>)
       /\ At(Other(p), "tx", None, None, <<>>)

-----------------------------------------------------------------------------
(* Two commands that cross: the initiator's c, served second, and the acceptor's d *)

ServesFirst(c, d, s) ==
    At(Initiator, IF d = "addrs-request" THEN "ackAfter" ELSE Serve(Initiator, d).at, c, None, s)

Crossed(c, d) ==
    \/ At(Initiator, "ack", c, None, <<Cmd(d)>>) /\ At(Acceptor, "ack", d, None, <<Cmd(c)>>)
    \/ At(Initiator, "ack", c, None, <<Cmd(d)>>) /\ At(Acceptor, "ownAck", d, c, <<>>)
    \/ /\ ServesFirst(c, d, <<>>)
       /\ \/ At(Acceptor, "ack", d, None, <<Cmd(c)>> \o Answer(Initiator, d))
          \/ At(Acceptor, "ownAck", d, c, Answer(Initiator, d))

\* The acceptor is in the handler of its own command, and owes c.
Owing(c) ==
    \/ /\ \/ At(Initiator, "hello", c, None, <<Raw("hello", Acceptor)>>)
          \/ At(Initiator, "ackAfter", c, None, <<>>)
       /\ At(Acceptor, "hello", None, c, <<Raw("hello", Initiator)>>)
    \/ /\ At(Initiator, "txId", c, None, <<Raw("txId", Acceptor)>>)
       /\ At(Acceptor, "wanted", None, c, <<>>)
    \/ /\ At(Initiator, "tx", c, None, <<>>)
       /\ At(Acceptor, "wanted", None, c, <<Raw("wanted", "yes")>>)
    \/ /\ At(Initiator, "ackAfter", c, None, <<>>)
       /\ At(Acceptor, "wanted", None, c, <<Raw("wanted", "no")>>)

Joint ==
    \/ Apart
    \/ \E p \in Peer : Offered(p) \/ \E c \in Command : Asked(p, c) \/ Answered(p, c)
    \/ \E c \in Command : Owing(c) \/ \E d \in Command : Crossed(c, d)

-----------------------------------------------------------------------------
(* What an end reads, whatever became of the other *)

OnlyEof(s) == \A i \in DOMAIN s : s[i] = Eof

\* Behind a command comes only the end of the stream.
Tidy(s) ==
    \A i, j \in DOMAIN s : i < j /\ (\E c \in Command : s[i] = Cmd(c)) => s[j] = Eof

\* The messages that a handler reads at this place.
Expected(p, place) ==
    CASE place \in FinalReads -> {Final(Other(p), place)}
      [] place = "txId" -> {Raw("txId", Other(p))}
      [] place = "wanted" -> {Raw("wanted", "yes"), Raw("wanted", "no")}

\* Such a message, and no more.
Brings(p, place, s) ==
    OnlyEof(s) \/ (s # <<>> /\ Head(s) \in Expected(p, place) /\ OnlyEof(Tail(s)))

\* What follows the acknowledgement of an acceptor's command, when it owes another.
BringsRest(p, c, s) == IF c = "sync-chain" THEN Brings(p, "hello", s) ELSE OnlyEof(s)

\* The stream of an end at a place, with the command that it issued and the one it owes.
Proper(p, place, c, o, s) ==
    /\ Tidy(s)
    /\ place \in {"addr", "addrs", "tx"} /\ s # <<>> =>
          Head(s) \in {Eof} \cup Expected(p, place)
    /\ place = "txId" \/ (o # None /\ place \in {"wanted", "hello"}) => Brings(p, place, s)
    /\ place = "ownAck" /\ s # <<>> /\ Head(s) = Ack(c) => BringsRest(p, c, Tail(s))

\* A refusing node's command, and its data at once.
Refused(p) ==
    LET t == Tail(inbox[p]) IN
    /\ pc[p] \in {"loop", "ack"}
    /\ inbox[p] # <<>> /\ Head(inbox[p]) = Cmd("peer-addrs")
    /\ t # <<>> /\ Head(t) = Final(Other(p), "addrs") /\ Tidy(t)

\* A command that the acceptor will owe, and the answer to its own.
Passed(p) ==
    /\ p = Acceptor /\ pc[p] = "ack"
    /\ inbox[p] # <<>> /\ \E c \in Command : Head(inbox[p]) = Cmd(c)
    /\ Proper(p, "ownAck", issued[p], None, Tail(inbox[p]))

InOrder(p) ==
    pc[p] \notin Deaf =>
        Proper(p, pc[p], issued[p], owed[p], inbox[p]) \/ Refused(p) \/ Passed(p)

\* While both run they are at a joint place; an end that is left alone reads in order.
Streams == ~stalled => IF Live THEN Joint ELSE \A p \in Peer : InOrder(p)

-----------------------------------------------------------------------------
(* What the streams carry *)

\* The messages whose reading publishes the data of a command.
Carriers(from) ==
    {<<Cmd("addrs-request"), "addrs-request">>, <<Final(from, "addr"), "announce-addr">>,
     <<Final(from, "addrs"), "peer-addrs">>, <<Final(from, "tx"), "new-tx">>}

\* Of such a message the data was said.
Backed(from, s, data) ==
    \A w \in Carriers(from) : w[1] \in ToSet(s) => DataOf(from, w[2]) \subseteq data

\* An end has published, will write, and reads nothing that was not said.
Honest(p) ==
    /\ heard[p] \subseteq said[Other(p)]
    /\ issued[p] # None => DataOf(p, issued[p]) \subseteq said[p]
    /\ pc[p] = "wanted" => DataOf(p, "new-tx") \subseteq said[p]
    /\ owed[p] = "addrs-request" => DataOf(Other(p), "addrs-request") \subseteq said[Other(p)]
    /\ Backed(Other(p), inbox[p], said[Other(p)])

\* The message that has this data is in the stream.
Carried(from, s, d) ==
    \E w \in Carriers(from) :
        w[2] # "addrs-request" /\ d \in DataOf(from, w[2]) /\ w[1] \in ToSet(s)

\* Where data is found that the other end has not heard.
Underway(p, d) ==
    \/ d[1] = "new-tx"
    \/ issued[p] # None /\ d \in DataOf(p, issued[p])
    \/ Carried(p, inbox[Other(p)], d)

\* What an end said and the other has not heard is still to be written or to be read.
Delivers(p) ==
    /\ Ack("addrs-request") \in ToSet(inbox[p])
          => DataOf(p, "addrs-request") \subseteq heard[Other(p)]
    /\ \A d \in said[p] \ heard[Other(p)] : Underway(p, d)

\* IInv: inductive.
IInv ==
    /\ TypeOK /\ PlacesOK /\ Refusers /\ Streams
    /\ ~stalled =>
          /\ \A p \in Peer : Honest(p)
          /\ Live => \A p \in Peer : Delivers(p)

=============================================================================
