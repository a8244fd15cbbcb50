-------------------------------- MODULE Peer --------------------------------
(***************************************************************************)
(* internal/peer: the loops of the two ends of a connection.  Each end     *)
(* takes events from its topics and commands from the other end; a command *)
(* is acknowledged before its handler exchanges data, and both ends may    *)
(* issue one at the same time.  One of the ends may be a node that will    *)
(* not have the other as its peer, and a node may end.  The exchange of    *)
(* handleSyncChain is one message each way here; the module Sync has the   *)
(* whole of it, and assumes the clean streams that this one shows.         *)
(***************************************************************************)
EXTENDS Naturals, Sequences, FiniteSets, SequencesExt

CONSTANTS
    Initiator, Acceptor,    \* the two ends, by who opened the connection
    Events                  \* bounds: how often each end's topics may ask for each command

Peer == {Initiator, Acceptor}
Other(p) == IF p = Initiator THEN Acceptor ELSE Initiator

Command == {"sync-chain", "addrs-request", "peer-addrs", "announce-addr", "new-tx"}

ASSUME PeerAssumption == Initiator # Acceptor /\ Events \subseteq [Peer -> [Command -> Nat]]

VARIABLES
    refuses,    \* the end is not a peer: its factory's addConn closes the connection
    coming,     \* events that each end has still to take, which may come at any time
    pc,         \* what the end waits to read; "spinning" in a handler; "ended"
    issued,     \* the command it issued and has still to write the data of
    owed,       \* the acceptor's: the other end's command, after its own
    inbox,      \* what each end has still to read
    heard,      \* history: what each end published
    said,       \* history: the data of the commands that each end issued
    stalled     \* history: the connection was slower than a timeout of a read

vars == <<refuses, coming, pc, issued, owed, inbox, heard, said, stalled>>

None == "none"
Unknown == "unknown"    \* what follows "cmd:" in a string is no command
NoEvents == [c \in Command |-> 0]
Garbage == <<"garbage", None>>
Waits == {"ack", "ownAck", "ackAfter", "addr", "addrs", "txId", "wanted", "tx", "hello"}
Deaf == {"closing", "spinning", "ended"}
Running(p) == pc[p] # "ended"

-----------------------------------------------------------------------------
(* Messages *)

\* WriteString has a length before it; the others are read by their size.
String(kind, text) == [kind |-> "string", val |-> <<kind, text>>]
Cmd(c) == String("cmd", c)
Ack(c) == String("ack", c)
Raw(kind, val) == [kind |-> kind, val |-> <<kind, val>>]

\* Reading at the wrong place: what follows is not what was written.
Noise == [kind |-> "noise", val |-> Garbage]
Eof == [kind |-> "eof", val |-> Garbage]

\* What may be in the stream after a read at the wrong place: the middle of a message;
\* or nothing, when a read that fails has used up what was there.
Garbled(s) == IF s # <<>> /\ Last(s) = Eof THEN {<<Eof>>} ELSE {<<Noise>>, <<>>}

\* A stream that its writer closes.
Closed(s) == IF s = <<Noise>> THEN <<Eof>> ELSE Append(s, Eof)

\* An end reads, and writes; what is written behind noise is noise, and an end that
\* is gone, refuses or spins reads nothing.
Exchange(p, rest, msgs) ==
    LET theirs == inbox[Other(p)]
        unread == pc[Other(p)] \in Deaf \/ theirs = <<Noise>>
    IN  inbox' = [inbox EXCEPT ![p] = rest,
                               ![Other(p)] = IF unread THEN theirs ELSE theirs \o msgs]

\* A string at the wrong place may begin like a command, which is then the last of what is
\* misread: there is one at most.
MisreadCommands(kind) == IF kind = "string" THEN {<<"cmd", Unknown>>} ELSE {}

\* The outcomes of a read of this kind: an error, or a value.
Outcomes(s, kind) ==
    LET m == Head(s) IN
    CASE m = Eof -> {[ok |-> FALSE, val |-> Garbage, rest |-> s]}
      [] m.kind = kind -> {[ok |-> TRUE, val |-> m.val, rest |-> Tail(s)]}
      [] OTHER -> [ok : BOOLEAN, val : {Garbage}, rest : Garbled(s)]
                      \cup [ok : {TRUE}, val : MisreadCommands(kind), rest : Garbled(s) \ {<<Noise>>}]

-----------------------------------------------------------------------------
(* The handlers: what is written at once, what is read next, what is published *)

Then(place, out) == [at |-> place, out |-> out, pub |-> {}]

\* The write handlers.
Write(p, c) ==
    CASE c = "addrs-request" -> Then("loop", <<>>)
      [] c = "peer-addrs" -> Then("loop", <<Raw("addrs", p)>>)
      [] c = "announce-addr" -> Then("loop", <<String("addr", p)>>)
      [] c = "new-tx" -> Then("wanted", <<Raw("txId", p)>>)
      [] c = "sync-chain" -> Then("hello", <<Raw("hello", p)>>)

\* The data of a command, to be compared with what the other end publishes.
DataOf(p, c) ==
    CASE c = "addrs-request" -> {<<c, <<None, p>>>>}
      [] c = "peer-addrs" -> {<<c, <<"addrs", p>>>>}
      [] c = "announce-addr" -> {<<c, <<"addr", p>>>>}
      [] c = "new-tx" -> {<<c, <<"tx", p>>>>}
      [] OTHER -> {}

\* handleReceivedMessage of "cmd:" and a command: the acknowledgement, and its handler.
\* An unknown one has none.
Serve(p, c) ==
    CASE c = "addrs-request" ->
            [at |-> "loop", out |-> <<Ack(c)>>, pub |-> {<<c, <<None, Other(p)>>>>}]
      [] c = "peer-addrs" -> Then("addrs", <<Ack(c)>>)
      [] c = "announce-addr" -> Then("addr", <<Ack(c)>>)
      [] c = "new-tx" -> Then("txId", <<Ack(c)>>)
      [] c = "sync-chain" -> Then("hello", <<Ack(c), Raw("hello", p)>>)
      [] c = Unknown -> Then("loop", <<Ack(c)>>)

\* The command that a message is; others, "cmd:close" too, have no handler.
CommandsIn(val) == {c \in Command : val = <<"cmd", c>>}

\* A string with the prefix of a command is acknowledged before it is looked up.
Reply(val) == IF val = <<"cmd", Unknown>> THEN <<Ack(Unknown)>> ELSE <<>>

\* A handler runs to its next read.  When it is done, the end goes on with what a
\* simultaneous command has left: theirs to serve, or its own to be acknowledged.
Proceed(p, h, rest, mine) ==
    LET finished == h.at = "loop"
        next ==
            CASE finished /\ owed[p] # None -> Serve(p, owed[p])
              [] finished /\ mine # None -> Then("ackAfter", <<>>)
              [] OTHER -> Then(h.at, <<>>)
    IN
    /\ pc' = [pc EXCEPT ![p] = next.at]
    /\ owed' = [owed EXCEPT ![p] = IF finished THEN None ELSE @]
    /\ Exchange(p, rest, h.out \o next.out)
    /\ heard' = [heard EXCEPT ![p] = @ \cup h.pub \cup next.pub]
    /\ UNCHANGED <<refuses, coming, stalled>>

\* Mutant: the second command outlives the failure of the first.
Abandon_KeepsSecond(p, rest, reply) ==
    /\ pc' = [pc EXCEPT ![p] = "loop"]
    /\ issued' = [issued EXCEPT ![p] = None] /\ UNCHANGED owed
    /\ Exchange(p, rest, reply)
    /\ UNCHANGED <<refuses, coming, heard, said>>

\* The handler, or the command, fails: back in the loop, the error is popped.
Abandon(p, rest, reply) ==
    /\ pc' = [pc EXCEPT ![p] = "loop"]
    /\ issued' = [issued EXCEPT ![p] = None]
    /\ owed' = [owed EXCEPT ![p] = None]
    /\ Exchange(p, rest, reply)
    /\ UNCHANGED <<refuses, coming, heard, said>>

\* A handler that counts, for years, to a number that was none, whatever its reads say.
Spin(p) ==
    /\ pc' = [pc EXCEPT ![p] = "spinning"]
    /\ issued' = [issued EXCEPT ![p] = None]
    /\ owed' = [owed EXCEPT ![p] = None]
    /\ inbox' = [inbox EXCEPT ![p] = <<>>]
    /\ UNCHANGED <<refuses, coming, heard, said, stalled>>

\* The loop returns or panics, and the subscriptions are closed.  Nobody closes the
\* connection, so the other end is not told.
End(p, rest) ==
    /\ pc' = [pc EXCEPT ![p] = "ended"]
    /\ coming' = [coming EXCEPT ![p] = NoEvents]
    /\ issued' = [issued EXCEPT ![p] = None]
    /\ owed' = [owed EXCEPT ![p] = None]
    /\ inbox' = [inbox EXCEPT ![p] = rest]
    /\ UNCHANGED <<refuses, heard, said, stalled>>

-----------------------------------------------------------------------------
\* CloseIfPossible, of a factory that knows other addresses or knows none.
Refusals(p) == {<<Cmd("close")>>, <<Cmd("peer-addrs"), Raw("addrs", p), Cmd("close")>>}

\* An initiator that is a peer issues sync-chain before its loop.
Init ==
    /\ refuses \in [Peer -> BOOLEAN]
    /\ \E events \in Events :
         coming = [p \in Peer |-> IF refuses[p] THEN NoEvents ELSE events[p]]
    /\ pc = [p \in Peer |->
               IF refuses[p] THEN "closing" ELSE IF p = Initiator THEN "ack" ELSE "loop"]
    /\ issued = [p \in Peer |-> IF pc[p] = "ack" THEN "sync-chain" ELSE None]
    /\ owed = [p \in Peer |-> None]
    /\ \E refusal \in [Peer -> UNION {Refusals(p) : p \in Peer}] :
         /\ \A p \in Peer : refusal[p] \in Refusals(Other(p))
         /\ inbox = [p \in Peer |->
                    CASE refuses[p] -> <<>>
                      [] refuses[Other(p)] -> refusal[p]
                      [] issued[Other(p)] # None -> <<Cmd(issued[Other(p)])>>
                      [] OTHER -> <<>>]
    /\ heard = [p \in Peer |-> {}]
    /\ said = [p \in Peer |-> IF refuses[p] THEN DataOf(p, "peer-addrs") ELSE {}]
    /\ stalled = FALSE

\* Loop takes an event that has come for this peer; events for others are passed over.
Issue(p, c) ==
    /\ pc[p] = "loop" /\ coming[p][c] > 0
    /\ coming' = [coming EXCEPT ![p][c] = @ - 1]
    /\ pc' = [pc EXCEPT ![p] = "ack"]
    /\ issued' = [issued EXCEPT ![p] = c]
    /\ Exchange(p, inbox[p], <<Cmd(c)>>)
    /\ said' = [said EXCEPT ![p] = @ \cup DataOf(p, c)]
    /\ UNCHANGED <<refuses, owed, heard, stalled>>

\* Mutant: an error of the connection is printed like the others.
Broken_Never(r) == FALSE

\* TimeoutErrOrPanic panics.
Broken(r) == ~r.ok /\ r.rest = <<Eof>>

\* The default case of Loop: no event has come, and a message is there.
ReadCommand(p) ==
    /\ pc[p] = "loop" /\ inbox[p] # <<>>
    /\ \E r \in Outcomes(inbox[p], "string") :
         IF Broken(r) \/ (r.ok /\ r.val = <<"cmd", "close">>)
         THEN End(p, r.rest)
         ELSE /\ IF r.ok /\ CommandsIn(r.val) # {}
                 THEN \E c \in CommandsIn(r.val) : Proceed(p, Serve(p, c), r.rest, issued[p])
                 ELSE /\ Exchange(p, r.rest, IF r.ok THEN Reply(r.val) ELSE <<>>)
                      /\ UNCHANGED <<refuses, coming, pc, owed, heard, stalled>>
              /\ UNCHANGED <<issued, said>>

\* The command is acknowledged: its handler writes.
RunIssued(p, rest) ==
    /\ issued' = [issued EXCEPT ![p] = None]
    /\ UNCHANGED said
    /\ Proceed(p, Write(p, issued[p]), rest, None)

\* Mutant: each end serves the other's command first.
TheirsFirst_Always(p) == TRUE

\* Mutant: each end honours its own command first.
TheirsFirst_Never(p) == FALSE

\* Both ends issued a command.  The initiator of the connection serves the other's
\* first, the acceptor its own.
TheirsFirst(p) == p = Initiator

\* issueCommand reads the answer to its command.
ReadAnswer(p) ==
    /\ pc[p] = "ack" /\ inbox[p] # <<>>
    /\ \E r \in Outcomes(inbox[p], "string") :
         \/ /\ r.ok /\ r.val = <<"ack", issued[p]>>
            /\ RunIssued(p, r.rest)
         \/ /\ r.ok /\ r.val = <<"cmd", "close">>
            /\ End(p, r.rest)
         \/ /\ r.ok /\ TheirsFirst(p)
            /\ \E c \in CommandsIn(r.val) : Proceed(p, Serve(p, c), r.rest, issued[p])
            /\ UNCHANGED <<issued, said>>
         \/ /\ r.ok /\ ~TheirsFirst(p)
            /\ owed' \in {[owed EXCEPT ![p] = c] :
                            c \in {d \in Command \cup {Unknown} : r.val = <<"cmd", d>>}}
            /\ pc' = [pc EXCEPT ![p] = "ownAck"]
            /\ inbox' = [inbox EXCEPT ![p] = r.rest]
            /\ UNCHANGED <<refuses, coming, issued, heard, said, stalled>>
         \/ /\ r.ok => /\ r.val \notin {<<"ack", issued[p]>>, <<"cmd", "close">>}
                       /\ CommandsIn(r.val) = {}
                       /\ r.val = <<"cmd", Unknown>> => TheirsFirst(p)
            /\ Abandon(p, r.rest, IF r.ok THEN Reply(r.val) ELSE <<>>)
            /\ UNCHANGED stalled

\* ReadStringExpected: the acknowledgement, before or after the other end's command.
ReadOwnAck(p) ==
    /\ pc[p] \in {"ownAck", "ackAfter"} /\ inbox[p] # <<>>
    /\ \E r \in Outcomes(inbox[p], "string") :
         IF r.ok /\ r.val = <<"ack", issued[p]>>
         THEN RunIssued(p, r.rest)
         ELSE Abandon(p, r.rest, <<>>) /\ UNCHANGED stalled

-----------------------------------------------------------------------------
(* The reads of the handlers *)

Publish(what) == [at |-> "loop", out |-> <<>>, pub |-> {what}]

\* What each handler does with the value that it reads.
Received(p, place, val) ==
    CASE place = "addr" -> {Publish(<<"announce-addr", val>>)}
      [] place = "addrs" -> {Publish(<<"peer-addrs", val>>)}
      [] place = "txId" -> {Then("loop", <<Raw("wanted", "no")>>),
                            Then("tx", <<Raw("wanted", "yes")>>)}
      [] place = "wanted" -> {Then("loop", IF yes THEN <<Raw("tx", p)>> ELSE <<>>) :
                                yes \in IF val = Garbage THEN BOOLEAN ELSE {val[2] = "yes"}}
      [] place = "tx" -> {Publish(<<"new-tx", val>>)}
      [] place = "hello" -> {Then("loop", <<>>)}

\* A transaction with another id than the announced one is an error.
Acceptable(place, r) == r.ok /\ (place = "tx" => r.val # Garbage)

\* The reads that use a number from the stream unchecked: handleReadPeerAddrs counts to
\* it, ReadTx makes a slice of that length, which panics when it is too long, and a sync
\* reads txs too.
Counted == {"addrs"}
Sized == {"tx", "hello"}

ReadData(p) ==
    /\ pc[p] \in {"addr", "addrs", "txId", "wanted", "tx", "hello"} /\ inbox[p] # <<>>
    /\ \E r \in Outcomes(inbox[p], IF pc[p] = "addr" THEN "string" ELSE pc[p]) :
         \/ /\ Acceptable(pc[p], r)
            /\ \E h \in Received(p, pc[p], r.val) : Proceed(p, h, r.rest, issued[p])
            /\ UNCHANGED <<issued, said>>
         \/ /\ ~Acceptable(pc[p], r)
            /\ Abandon(p, r.rest, <<>>)
            /\ UNCHANGED stalled
         \/ r.ok /\ r.val = Garbage /\ pc[p] \in Counted /\ Spin(p)
         \/ r.ok /\ r.val = Garbage /\ pc[p] \in Sized /\ End(p, r.rest)

-----------------------------------------------------------------------------
(* Faults *)

\* Mutant: only the reads of issueCommand have a timeout.
TimedReads_Acks == {"ack", "ownAck", "ackAfter"}
TimedReads == Waits

\* A read that nothing answers in time fails; the error is popped and the loop goes on.
Timeout(p) ==
    /\ pc[p] \in TimedReads /\ inbox[p] = <<>>
    /\ stalled' = TRUE
    /\ Abandon(p, <<>>, <<>>)

\* The loop's short timeout falls between the two bytes of a length.
LoseByte(p) ==
    /\ pc[p] = "loop"
    /\ inbox[p] # <<>> /\ Head(inbox[p]).kind = "string"
    /\ stalled' = TRUE
    /\ \E rest \in Garbled(inbox[p]) : inbox' = [inbox EXCEPT ![p] = rest]
    /\ UNCHANGED <<refuses, coming, pc, issued, owed, heard, said>>

\* A node ends, or CloseIfPossible's second is over.
Hangup(p) ==
    /\ Running(p)
    /\ pc' = [pc EXCEPT ![p] = "ended"]
    /\ coming' = [coming EXCEPT ![p] = NoEvents]
    /\ issued' = [issued EXCEPT ![p] = None]
    /\ owed' = [owed EXCEPT ![p] = None]
    /\ inbox' = [inbox EXCEPT ![p] = <<>>, ![Other(p)] = Closed(@)]
    /\ UNCHANGED <<refuses, heard, said, stalled>>

\* The connection of an end that is gone is closed by the finalizer of its descriptor, when
\* the garbage collector runs.
Collect(p) ==
    /\ pc[p] = "ended" /\ Running(Other(p)) /\ Eof \notin ToSet(inbox[Other(p)])
    /\ inbox' = [inbox EXCEPT ![Other(p)] = Closed(@)]
    /\ UNCHANGED <<refuses, coming, pc, issued, owed, heard, said, stalled>>

-----------------------------------------------------------------------------
Receive(p) == ReadCommand(p) \/ ReadAnswer(p) \/ ReadOwnAck(p) \/ ReadData(p)
IssueAny(p) == \E c \in Command : Issue(p, c)

Next ==
    \E p \in Peer :
        \/ Receive(p) \/ IssueAny(p) \/ Timeout(p) \/ LoseByte(p)
        \/ Hangup(p) \/ Collect(p)

Spec == Init /\ [][Next]_vars

\* An end runs while it can, a read with no answer times out, a refusing node closes the
\* connection, and the garbage collector runs.  Events need not come.
FairSpec ==
    /\ Spec
    /\ \A p \in Peer :
         /\ WF_vars(Receive(p)) /\ WF_vars(Timeout(p))
         /\ WF_vars(refuses[p] /\ Hangup(p)) /\ WF_vars(Collect(p))

-----------------------------------------------------------------------------
(* Properties *)

Val == {"cmd", "ack", "addr", "addrs", "txId", "wanted", "tx", "hello", "garbage", None}
         \X (Command \cup Peer \cup {Unknown, "close", "yes", "no", None})

\* Only an acceptor owes a command, while it serves its own; a command that is not
\* acknowledged is one that the end waits for, or serves the other's before.  Nobody writes
\* a command that is none.
TypeOK ==
    /\ refuses \in [Peer -> BOOLEAN] /\ coming \in [Peer -> [Command -> Nat]]
    /\ pc \in [Peer -> Waits \cup {"loop"} \cup Deaf]
    /\ issued \in [Peer -> Command \cup {None}]
    /\ owed \in [Peer -> Command \cup {Unknown, None}]
    /\ inbox \in [Peer -> Seq([kind : {"string", "addrs", "txId", "wanted", "tx", "hello",
                                       "noise", "eof"}, val : Val \ {<<"cmd", Unknown>>}])]
    /\ {heard, said} \subseteq [Peer -> SUBSET (Command \X Val)]
    /\ stalled \in BOOLEAN
    /\ \A p \in Peer :
         /\ owed[p] # None => p = Acceptor /\ pc[p] \in {"ownAck", "wanted", "hello"}
         /\ pc[p] \in {"ack", "ownAck", "ackAfter"} => issued[p] # None
         /\ pc[p] \in {"loop"} \cup Deaf => issued[p] = None

\* What a peer publishes (addresses, lists, requests, transactions) is what the other
\* end issued as that command, however the two ends' commands cross, a refusing node's
\* among them; and once both are in their loops with nothing to read, each has heard
\* all that the other said, but for transactions it had.  A timeout breaks both.
Quiet == \A p \in Peer : pc[p] = "loop" /\ inbox[p] = <<>>
HeardAsSaid ==
    ~stalled =>
        \A p \in Peer :
            /\ heard[p] \subseteq said[Other(p)]
            /\ Quiet => \A d \in said[Other(p)] \ heard[p] : d[1] = "new-tx"

\* No end waits for a message that the other does not owe it: the two never wait on
\* each other, nor one for what the other will not write.
NoVainWait ==
    ~stalled /\ (\A p \in Peer : ~refuses[p]) /\ (\A p \in Peer : Running(p)) =>
        \A p \in Peer :
            pc[p] \in Waits /\ inbox[p] = <<>> =>
                inbox[Other(p)] # <<>>

\* The one handler that may keep an end for ever, on a stream that a timeout has put out of
\* step: handleReadPeerAddrs, counting to a number that was none.
SpinsAfterStall(p) == pc[p] = "spinning" /\ stalled

\* The peer of a node that refuses it or has ended ends too, and so frees its place in the
\* factory's table, even when it goes on to issue commands, or the stream is misread: unless
\* it spins.
LonePeerEnds ==
    \A p \in Peer : pc[Other(p)] \in {"closing", "ended"} ~> pc[p] = "ended" \/ SpinsAfterStall(p)

\* However slow the connection, and whatever it reads at the wrong place, no handler but that
\* one keeps an end from its loop for ever, and that one only after a timeout.
HandlersReturn ==
    \A p \in Peer : pc[p] \in Waits ~> pc[p] \in {"loop", "ended"} \/ SpinsAfterStall(p)

=============================================================================
