------------------------------- MODULE Mining -------------------------------
(***************************************************************************)
(* A miner and its node's chain, seen through the headers of one growing   *)
(* chain: internal/miner, and the part of internal/chain that tells it     *)
(* what to mine.  Other nodes' blocks arrive with the times of their own   *)
(* clocks and any target that VerifyBlock lets through.  What the chain    *)
(* does with forks and with transactions is in the module Chain; a block   *)
(* that is not on the head is dropped here.                                *)
(***************************************************************************)
EXTENDS Difficulty

CONSTANTS
    MaxTime, MaxHeight, MaxTxs, \* bounds: of the clock, the chain, a block's transactions
    MaxQueue                    \* of events that wait at the chain and at the miner

ASSUME MiningAssumption ==
    {MaxTime, MaxHeight, MaxTxs, MaxQueue} \subseteq Nat /\ MaxTime > 0

\* What the proofs need of powers, which the provers do not know.
ASSUME PowersOfFour == \A k \in 0..MaxHeight : 4^k \in Nat \ {0} /\ 4^(k + 1) = 4 * 4^k

VARIABLES
    now,        \* time.Now().Unix()
    chain,      \* the headers up to Chain.state.head
    mempool,    \* how many transactions a block could include
    running,    \* the node has not ended in a panic of its chain's routine
    targetQ,    \* MinerTarget events that the miner has not taken
    template,   \* Miner.template and the transactions it was made of
    solutionQ   \* CandidateHead events of the miner

vars == <<now, chain, mempool, running, targetQ, template, solutionQ>>

NoTemplate == [none |-> TRUE]

\* A template is a header, the height of its parent, and its transactions.
Template == [parent : 0..MaxHeight, target : 0..MaxTarget, time : Nat, txs : 0..MaxTxs]
Target == [parent : 0..MaxHeight, target : 0..MaxTarget, txs : 0..MaxTxs]
HeaderOf(t) == [target |-> t.target, time |-> t.time]

-----------------------------------------------------------------------------
\* CreateMiningTarget, in the state after a step: an event, or the panic.
CreateMiningTarget ==
    IF NextTargetPanics(chain')
    THEN running' = FALSE /\ UNCHANGED targetQ
    ELSE /\ targetQ' = Append(targetQ, [parent |-> Len(chain'),
                                        target |-> NextTarget(chain'), txs |-> mempool'])
         /\ UNCHANGED running

\* Chain.Loop tells a first target before anything else.
Init ==
    /\ now \in 0..1
    /\ chain = <<>> /\ mempool = 0
    /\ running = TRUE
    /\ targetQ = <<[parent |-> 0, target |-> NextTarget(<<>>), txs |-> 0]>>
    /\ template = NoTemplate
    /\ solutionQ = <<>>

Tick ==
    /\ running /\ now < MaxTime
    /\ now' = now + 1
    /\ UNCHANGED <<chain, mempool, running, targetQ, template, solutionQ>>

\* handleCandidateHead compares the work of the two heads.
HasMoreWork(b) == TotalWork(chain) < TotalWork(Append(chain, b))

\* handleCandidateHead adopts a block on the head; its transactions are included.
Adopt(b) ==
    /\ Len(chain) < MaxHeight
    /\ chain' = Append(chain, b)
    /\ mempool' = 0
    /\ CreateMiningTarget

\* A block of another node: every target and time that VerifyBlock takes.
RemoteBlock ==
    /\ running /\ Len(targetQ) < MaxQueue
    /\ \E target \in 1..HashMax, time \in 0..now + Hour :
         LET b == [target |-> target, time |-> time] IN
         VerifyHeader(chain, b, now) /\ HasMoreWork(b) /\ Adopt(b)
    /\ UNCHANGED <<now, template, solutionQ>>

\* handleCandidateTx.
RemoteTx ==
    /\ running /\ mempool < MaxTxs /\ Len(targetQ) < MaxQueue
    /\ mempool' = mempool + 1
    /\ UNCHANGED chain
    /\ CreateMiningTarget
    /\ UNCHANGED <<now, template, solutionQ>>

\* Miner.Loop takes a target; the template's time is set once.
UpdateTemplate ==
    /\ running /\ targetQ # <<>>
    /\ LET t == Head(targetQ) IN
       template' = [parent |-> t.parent, target |-> t.target, time |-> now, txs |-> t.txs]
    /\ targetQ' = Tail(targetQ)
    /\ UNCHANGED <<now, chain, mempool, running, solutionQ>>

\* mine beats the target, and goes on with the next nonce.
PublishSolution ==
    /\ running /\ template # NoTemplate /\ Beatable(HeaderOf(template))
    /\ targetQ = <<>>       \* the default case of the select
    /\ Len(solutionQ) < MaxQueue
    /\ solutionQ' = Append(solutionQ, template)
    /\ UNCHANGED <<now, chain, mempool, running, targetQ, template>>

OnHead(t) == t.parent = Len(chain)

HandleSolution ==
    /\ running /\ solutionQ # <<>> /\ Len(targetQ) < MaxQueue
    /\ LET t == Head(solutionQ) IN
       IF OnHead(t) /\ VerifyHeader(chain, HeaderOf(t), now) /\ HasMoreWork(HeaderOf(t))
       THEN Adopt(HeaderOf(t))
       ELSE UNCHANGED <<chain, mempool, running, targetQ>>
    /\ solutionQ' = Tail(solutionQ)
    /\ UNCHANGED <<now, template>>

Next ==
    \/ Tick \/ RemoteBlock \/ RemoteTx
    \/ UpdateTemplate \/ PublishSolution \/ HandleSolution

Spec == Init /\ [][Next]_vars

-----------------------------------------------------------------------------
(* Properties *)

TypeOK ==
    /\ now \in 0..MaxTime
    /\ chain \in Seq([target : 1..MaxTarget, time : 0..MaxTime + Hour])
    /\ Len(chain) <= MaxHeight
    /\ mempool \in 0..MaxTxs /\ running \in BOOLEAN
    /\ targetQ \in Seq(Target) /\ solutionQ \in Seq(Template)
    /\ template \in Template \cup {NoTemplate}

\* Whatever targets the blocks of other nodes claim, the difficulty is the same in a
\* whole period, and after k adjustments it is within 4^k of the original one and no
\* easier than the net allows.
TargetsBounded ==
    \A h \in DOMAIN chain :
        LET k == h \div DifficultyPeriod IN
        /\ h = 1 \/ h % DifficultyPeriod = 0 \/ chain[h].target = chain[h - 1].target
        /\ chain[h].target <= Lesser(MaxTarget, OriginalTarget * 4^k)
        /\ (chain[h].target + 1) * 4^k > OriginalTarget

\* The median that block times must exceed never falls while the chain grows, though
\* the times themselves do, and the oldest of the five drops out.
MedianNeverFalls ==
    [][chain # <<>> => MedianTime(chain') >= MedianTime(chain)]_chain

\* VerifyBlock refuses no block of the node's own miner on the head for anything but a
\* time that is not above the median: what the template was told when the target was
\* made, and what waits as a solution while the clock and the mempool go on, is what
\* VerifyBlock demands now.
OwnBlocksVerify ==
    \A t \in ({template} \ {NoTemplate}) \cup ToSet(solutionQ) :
        OnHead(t) /\ Beatable(HeaderOf(t)) /\ AboveMedian(chain, HeaderOf(t)) =>
            VerifyHeader(chain, HeaderOf(t), now)

\* "This prevents panics in ExpectedTargetAdjustment" (verify.go:185).
NoTargetPanic == running

=============================================================================
