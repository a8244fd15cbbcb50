-------------------------------- MODULE Topic -------------------------------
(***************************************************************************)
(* pkg/topic and pkg/syncqueue: one topic of the bus with its publishers   *)
(* and its subscription channels.  A step is what one goroutine does under *)
(* one lock or in one channel operation.                                   *)
(***************************************************************************)
EXTENDS Naturals, Sequences

CONSTANTS
    Publisher,      \* goroutines that publish to the topic
    Sub,            \* the subscription channels that are ever made
    MaxSent         \* bound: messages of each publisher

ASSUME TopicAssumption == MaxSent \in [Publisher -> Nat]

VARIABLES
    sent,       \* how many messages each publisher has published
    taken,      \* history: the last message of each publisher that came out of C
    pushing,    \* the subs that each publisher's Pub has still to push to
    subs,       \* Topic.subs
    queue,      \* SyncQueue.q of each subscription
    closed,     \* subscriptions whose SyncQueue.closed is set
    held,       \* what SubCh.loop is sending to C, if anything
    loop,       \* where SubCh.loop is
    owner,      \* what the goroutine that owns the subscription does
    closer      \* the goroutine that SubCh.Close starts

vars == <<sent, taken, pushing, subs, queue, closed, held, loop, owner, closer>>

Message == [from : Publisher, n : Nat]

\* Between the rounds of its select, emptying the queue, blocked in C <- msg, told to
\* close, and gone.
LoopPlaces == {"none", "select", "drain", "send", "told", "returned"}
OwnerPlaces == {"none", "reading", "closing", "closed"}
CloserPlaces == {"none", "started", "sending", "done"}

TypeOK ==
    /\ sent \in [Publisher -> Nat] /\ \A p \in Publisher : sent[p] <= MaxSent[p]
    /\ taken \in [Sub -> [Publisher -> Nat]]
    /\ pushing \in [Publisher -> SUBSET subs]
    /\ subs \subseteq Sub /\ closed \subseteq Sub
    /\ queue \in [Sub -> Seq(Message)] /\ held \in [Sub -> Seq(Message)]
    /\ loop \in [Sub -> LoopPlaces]
    /\ owner \in [Sub -> OwnerPlaces] /\ closer \in [Sub -> CloserPlaces]
    /\ \A s \in Sub :
          /\ s \in closed => queue[s] = <<>>
          /\ Len(held[s]) = IF loop[s] = "send" THEN 1 ELSE 0

Init ==
    /\ sent = [p \in Publisher |-> 0]
    /\ taken = [s \in Sub |-> sent]
    /\ pushing = [p \in Publisher |-> {}]
    /\ subs = {} /\ closed = {}
    /\ queue = [s \in Sub |-> <<>>] /\ held = queue
    /\ loop = [s \in Sub |-> "none"]
    /\ owner = loop /\ closer = loop

-----------------------------------------------------------------------------
(* Topic.  Pub reads the map under a shared lock, so several run at once;   *)
(* Sub and gc take the lock exclusively.                                    *)

Exclusive == \A p \in Publisher : pushing[p] = {}

StartPub(p) ==
    /\ pushing[p] = {} /\ sent[p] < MaxSent[p]
    /\ sent' = [sent EXCEPT ![p] = @ + 1]
    /\ pushing' = [pushing EXCEPT ![p] = subs]
    /\ UNCHANGED <<taken, subs, queue, closed, held, loop, owner, closer>>

\* Mutant: a closed queue still grows.
Enqueue_Closed(s, m) == queue' = [queue EXCEPT ![s] = Append(@, m)]

\* Mutant: the newest item is at the front.
Enqueue_Front(s, m) ==
    IF s \in closed THEN UNCHANGED queue ELSE queue' = [queue EXCEPT ![s] = <<m>> \o @]

\* SyncQueue.Push: a closed queue takes nothing.
Enqueue(s, m) ==
    IF s \in closed THEN UNCHANGED queue ELSE queue' = [queue EXCEPT ![s] = Append(@, m)]

\* Pub ranges over a map, in any order.
Push(p, s) ==
    /\ s \in pushing[p]
    /\ pushing' = [pushing EXCEPT ![p] = @ \ {s}]
    /\ Enqueue(s, [from |-> p, n |-> sent[p]])
    /\ UNCHANGED <<sent, taken, subs, closed, held, loop, owner, closer>>

\* Topic.SubCh: register a queue and start its loop.
Subscribe(s) ==
    /\ owner[s] = "none" /\ Exclusive
    /\ subs' = subs \cup {s}
    /\ taken' = [taken EXCEPT ![s] = sent]
    /\ loop' = [loop EXCEPT ![s] = "select"]
    /\ owner' = [owner EXCEPT ![s] = "reading"]
    /\ UNCHANGED <<sent, pushing, queue, closed, held, closer>>

\* Mutant: a subscription with an empty queue is removed too.
Collectable_Empty == closed \cup {s \in subs : queue[s] = <<>>}

Collectable == closed

Gc ==
    /\ Exclusive /\ subs \cap Collectable # {}
    /\ subs' = subs \ Collectable
    /\ UNCHANGED <<sent, taken, pushing, queue, closed, held, loop, owner, closer>>

-----------------------------------------------------------------------------
(* SubCh.loop *)

LoopDefault(s) ==
    /\ loop[s] = "select" /\ closer[s] # "sending"
    /\ loop' = [loop EXCEPT ![s] = "drain"]
    /\ UNCHANGED <<sent, taken, pushing, subs, queue, closed, held, owner, closer>>

\* An empty queue ends the round, with a sleep.
LoopPop(s) ==
    /\ loop[s] = "drain"
    /\ IF queue[s] = <<>>
       THEN loop' = [loop EXCEPT ![s] = "select"] /\ UNCHANGED <<queue, held>>
       ELSE /\ held' = [held EXCEPT ![s] = <<Head(queue[s])>>]
            /\ queue' = [queue EXCEPT ![s] = Tail(@)]
            /\ loop' = [loop EXCEPT ![s] = "send"]
    /\ UNCHANGED <<sent, taken, pushing, subs, closed, owner, closer>>

\* The rendezvous on the close channel; the closing goroutine then sets done.
LoopTold(s) ==
    /\ loop[s] = "select" /\ closer[s] = "sending"
    /\ loop' = [loop EXCEPT ![s] = "told"]
    /\ closer' = [closer EXCEPT ![s] = "done"]
    /\ UNCHANGED <<sent, taken, pushing, subs, queue, closed, held, owner>>

CloseQueue(s) == closed' = closed \cup {s} /\ queue' = [queue EXCEPT ![s] = <<>>]

LoopReturn(s) ==
    /\ loop[s] = "told"
    /\ loop' = [loop EXCEPT ![s] = "returned"]
    /\ CloseQueue(s)
    /\ UNCHANGED <<sent, taken, pushing, subs, held, owner, closer>>

-----------------------------------------------------------------------------
(* The owner *)

Sent(s) == loop' = [loop EXCEPT ![s] = "drain"] /\ held' = [held EXCEPT ![s] = <<>>]

Receive(s) ==
    /\ loop[s] = "send" /\ owner[s] = "reading"
    /\ taken' = [taken EXCEPT ![s][held[s][1].from] = held[s][1].n]
    /\ Sent(s)
    /\ UNCHANGED <<sent, pushing, subs, queue, closed, owner, closer>>

StartClose(s) ==
    /\ owner[s] = "reading"
    /\ owner' = [owner EXCEPT ![s] = "closing"]
    /\ closer' = [closer EXCEPT ![s] = "started"]
    /\ UNCHANGED <<sent, taken, pushing, subs, queue, closed, held, loop>>

CloserSends(s) ==
    /\ closer[s] = "started"
    /\ closer' = [closer EXCEPT ![s] = "sending"]
    /\ UNCHANGED <<sent, taken, pushing, subs, queue, closed, held, loop, owner>>

\* Mutant: Close does not read C while it waits.
Discard_Never(s) == FALSE /\ UNCHANGED vars

\* Close takes items off C until the loop has seen the close.
Discard(s) ==
    /\ loop[s] = "send" /\ owner[s] = "closing"
    /\ Sent(s)
    /\ UNCHANGED <<sent, taken, pushing, subs, queue, closed, owner, closer>>

\* Mutant: C is closed at once.
MayCloseChannel_AtOnce(s) == owner[s] = "closing"

MayCloseChannel(s) == owner[s] = "closing" /\ closer[s] = "done"

EndClose(s) ==
    /\ MayCloseChannel(s)
    /\ owner' = [owner EXCEPT ![s] = "closed"]
    /\ CloseQueue(s)
    /\ UNCHANGED <<sent, taken, pushing, subs, held, loop, closer>>

-----------------------------------------------------------------------------
LoopStep(s) == LoopDefault(s) \/ LoopPop(s) \/ LoopTold(s) \/ LoopReturn(s)
CloseStep(s) == CloserSends(s) \/ Discard(s) \/ EndClose(s)

Next ==
    \/ \E p \in Publisher : StartPub(p) \/ \E s \in Sub : Push(p, s)
    \/ \E s \in Sub : Subscribe(s) \/ Receive(s) \/ StartClose(s)
    \/ \E s \in Sub : LoopStep(s) \/ CloseStep(s)
    \/ Gc

Spec == Init /\ [][Next]_vars

\* A Pub under way, each loop and each Close run on; an owner that is not closing
\* comes back to its select.
FairSpec ==
    /\ Spec
    /\ \A p \in Publisher, s \in Sub : WF_vars(Push(p, s))
    /\ \A s \in Sub : WF_vars(LoopStep(s)) /\ WF_vars(Receive(s))
    /\ \A s \in Sub : WF_vars(CloserSends(s)) /\ WF_vars(Discard(s)) /\ WF_vars(EndClose(s))

-----------------------------------------------------------------------------
(* Properties *)

\* Nothing is ever sent on a channel that Close has closed, which would panic the
\* loop and with it the node: by then the loop has left its sending part for good.
NoSendOnClosedChannel ==
    \A s \in Sub : owner[s] = "closed" => loop[s] \in {"told", "returned"}

\* The topic implements Delivery: through concurrent Pubs, the queue, the loop's
\* batches, gc and Close, no message is lost, doubled, or overtaken by a later one of
\* its publisher on its way to a subscription that is open.
D == INSTANCE Delivery
        WITH open <- {s \in Sub : owner[s] = "reading"}
ImplementsDelivery == D!Spec

\* And none is withheld for ever: each reaches every subscription that stays open.
NothingWithheld == D!Fairness

\* Close returns, though the loop may be blocked in a send and sees the close only
\* between two rounds, once publication pauses.
CloseReturns == \A s \in Sub : owner[s] = "closing" ~> owner[s] = "closed"

=============================================================================
