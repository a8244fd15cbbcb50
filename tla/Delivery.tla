------------------------------ MODULE Delivery ------------------------------
(***************************************************************************)
(* What a topic promises: a subscription gets every message of every       *)
(* publisher that is published while it is open, once and in the           *)
(* publisher's order.  Nothing is said of the order of two publishers.     *)
(***************************************************************************)
EXTENDS Naturals

CONSTANTS Publisher, Sub

VARIABLES
    sent,       \* how many messages each publisher has published
    taken,      \* the last message of each publisher that a subscription got
    open        \* the subscriptions that are open

vars == <<sent, taken, open>>

Init ==
    /\ sent = [p \in Publisher |-> 0]
    /\ taken = [s \in Sub |-> sent]
    /\ open = {}

Publish(p) == sent' = [sent EXCEPT ![p] = @ + 1] /\ UNCHANGED <<taken, open>>

\* A subscription starts with what is published after it.
Subscribe(s) ==
    /\ s \notin open
    /\ open' = open \cup {s}
    /\ taken' = [taken EXCEPT ![s] = sent]
    /\ UNCHANGED sent

Take(s, p) ==
    /\ s \in open /\ taken[s][p] < sent[p]
    /\ taken' = [taken EXCEPT ![s][p] = @ + 1]
    /\ UNCHANGED <<sent, open>>

Close(s) == s \in open /\ open' = open \ {s} /\ UNCHANGED <<sent, taken>>

Next ==
    \/ \E p \in Publisher : Publish(p)
    \/ \E s \in Sub : Subscribe(s) \/ Close(s) \/ \E p \in Publisher : Take(s, p)

Spec == Init /\ [][Next]_vars

\* No published message is withheld for ever from a subscription that stays open.
Fairness == \A s \in Sub, p \in Publisher : WF_vars(Take(s, p))
FairSpec == Spec /\ Fairness

=============================================================================
