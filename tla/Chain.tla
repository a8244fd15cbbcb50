-------------------------------- MODULE Chain -------------------------------
(***************************************************************************)
(* internal/chain/chain.go and target.go: the one routine that owns the    *)
(* ledger.  A candidate head is handled one entity or one tx at a time,    *)
(* as other routines read the inventory meanwhile and the process may die  *)
(* between any two steps.                                                  *)
(***************************************************************************)
EXTENDS State

CONSTANTS
    CandidateHeads,     \* events that peers and miners may publish
    CandidateTxs,       \* txs that peers and wallets may publish
    SaveDir,            \* whether entities and head are kept on disk
    SupportMiners,      \* whether mining targets are published
    MaxRestarts         \* bound on the number of crashes

VARIABLES
    st,         \* Chain.state
    ns,         \* newState, the copy being rewound and advanced
    pc,         \* where the routine is
    ev,         \* the candidate head in hand; its lists hold what is left to store
    lcaId,      \* the common ancestor that ns is rewound to
    k,          \* next tx of the block that ns is rewinding or advancing
    headFile,   \* content of saveDir/head, NoBlock when absent or torn
    target,     \* the last MinerTarget published
    announced,  \* txs that the published ValidatedTx and ValidatedHead events announce
    restarts    \* crashes so far

vars ==
    <<invVars, st, ns, pc, ev, lcaId, k, headFile, target, announced, restarts>>

CandidateHeadEvent ==
    [head : Block, blocks : Seq(Block \ {Zero}), merkles : Seq(Merkle), txs : Seq(Tx),
     autoAdd : BOOLEAN]

NoEvent ==
    [head |-> Zero, blocks |-> <<>>, merkles |-> <<>>, txs |-> <<>>, autoAdd |-> FALSE]

\* NewChain's event: nothing to store, mempool filled as the chain is replayed.
SavedHeadEvent(b) == [NoEvent EXCEPT !.head = b, !.autoAdd = TRUE]

ASSUME ChainAssumption ==
    /\ \A e \in CandidateHeads : e \in CandidateHeadEvent /\ ~e.autoAdd
    /\ CandidateTxs \subseteq Tx
    /\ SaveDir \in BOOLEAN /\ SupportMiners \in BOOLEAN
    /\ MaxRestarts \in Nat

-----------------------------------------------------------------------------
Init ==
    /\ InventoryInit
    /\ st = EmptyState /\ ns = EmptyState
    /\ pc = "select" /\ ev = NoEvent /\ lcaId = Zero /\ k = 1
    /\ headFile = NoBlock
    /\ target = [head |-> Zero, txIds |-> <<>>]
    /\ announced = {}
    /\ restarts = 0

\* handleCandidateHead returns, with or without an error; the copy is dropped.
Return ==
    pc' = "select" /\ ns' = EmptyState /\ ev' = NoEvent /\ lcaId' = Zero /\ k' = 1

\* CreateMiningTarget, after the step's other effects.
PublishTarget ==
    IF SupportMiners THEN target' \in MiningTargets(st)' ELSE UNCHANGED target

-----------------------------------------------------------------------------
(* Events *)

ReceiveHead(e) ==
    /\ pc = "select"
    /\ pc' = "store" /\ ev' = e
    /\ UNCHANGED <<invVars, st, ns, lcaId, k, headFile, target, announced, restarts>>

\* The event NewChain queued for itself; a tx may be handled before it.
ReceiveSavedHead ==
    /\ pc = "load"
    /\ pc' = "store"
    /\ UNCHANGED <<invVars, st, ns, ev, lcaId, k, headFile, target, announced, restarts>>

\* handleCandidateTx; a known or unverifiable tx changes nothing.
HandleCandidateTx(t) ==
    /\ pc \in {"select", "load"}
    /\ t \notin txs /\ VerifyTx(t)
    /\ StoreTx(t)
    /\ st' = AddMempoolTx(st, t)
    /\ announced' = announced \cup {t}
    /\ UNCHANGED <<merkles, blocks, ns, pc, ev, lcaId, k, headFile, restarts>>
    /\ PublishTarget

-----------------------------------------------------------------------------
(* handleCandidateHead: store the entities, in order *)

StoreNextTx ==
    /\ pc = "store" /\ ev.txs # <<>>
    /\ LET t == Head(ev.txs) IN
       IF t \notin txs /\ ~VerifyTx(t)
       THEN Return /\ UNCHANGED <<txs, st>>
       ELSE /\ ev' = [ev EXCEPT !.txs = Tail(@)]
            /\ IF t \in txs THEN UNCHANGED <<txs, st>>
               ELSE StoreTx(t) /\ st' = AddMempoolTx(st, t)
            /\ UNCHANGED <<pc, ns, lcaId, k>>
    /\ UNCHANGED <<merkles, blocks, headFile, target, announced, restarts>>

StoreNextMerkle ==
    /\ pc = "store" /\ ev.txs = <<>> /\ ev.merkles # <<>>
    /\ LET m == Head(ev.merkles) IN
       IF m \notin merkles /\ ~VerifyMerkle(m)
       THEN Return /\ UNCHANGED merkles
       ELSE /\ ev' = [ev EXCEPT !.merkles = Tail(@)]
            /\ IF m \in merkles THEN UNCHANGED merkles ELSE StoreMerkle(m)
            /\ UNCHANGED <<pc, ns, lcaId, k>>
    /\ UNCHANGED <<txs, blocks, st, headFile, target, announced, restarts>>

StoreNextBlock ==
    /\ pc = "store" /\ ev.txs = <<>> /\ ev.merkles = <<>> /\ ev.blocks # <<>>
    /\ LET b == Head(ev.blocks) IN
       IF ~HasBlock(b) /\ ~VerifyBlock(b)
       THEN Return /\ UNCHANGED blocks
       ELSE /\ ev' = [ev EXCEPT !.blocks = Tail(@)]
            /\ IF HasBlock(b) THEN UNCHANGED blocks ELSE StoreBlock(b)
            /\ UNCHANGED <<pc, ns, lcaId, k>>
    /\ UNCHANGED <<txs, merkles, st, headFile, target, announced, restarts>>

(* handleCandidateHead: compare work, copy the state, rewind to the common *)
(* ancestor, advance to the new head, commit.                              *)

\* Mutant: an equal chain replaces ours.
HasMoreWork_OrEqual(b) == HasBlock(b) /\ TotalWork(st.head) <= TotalWork(b)

HasMoreWork(b) == HasBlock(b) /\ TotalWork(st.head) < TotalWork(b)

CompareWork ==
    /\ pc = "store" /\ ev.txs = <<>> /\ ev.merkles = <<>> /\ ev.blocks = <<>>
    /\ IF HasMoreWork(ev.head)
       THEN /\ pc' = "rewind" /\ ns' = st /\ k' = 1
            /\ lcaId' = GetBlockLCA(st.head, ev.head)
            /\ UNCHANGED ev
       ELSE Return
    /\ UNCHANGED <<invVars, st, headFile, target, announced, restarts>>

RewindNextTx ==
    /\ pc = "rewind" /\ ns.head # lcaId
    /\ k <= Len(BlockTxs(ns.head))
    /\ LET t == BlockTxs(ns.head)[k] IN
       IF RewindTxPanics(ns, t)
       THEN pc' = "panicked" /\ UNCHANGED <<ns, k>>
       ELSE ns' = RewindTx(ns, t) /\ k' = k + 1 /\ UNCHANGED pc
    /\ UNCHANGED <<invVars, st, ev, lcaId, headFile, target, announced, restarts>>

RewindBlock ==
    /\ pc = "rewind" /\ ns.head # lcaId
    /\ k > Len(BlockTxs(ns.head))
    /\ ns' = [ns EXCEPT !.head = BlockOf[ns.head].prev] /\ k' = 1
    /\ UNCHANGED <<invVars, st, pc, ev, lcaId, headFile, target, announced, restarts>>

RewindDone ==
    /\ pc = "rewind" /\ ns.head = lcaId
    /\ pc' = "advance"
    /\ UNCHANGED <<invVars, st, ns, ev, lcaId, k, headFile, target, announced, restarts>>

\* The block after h on the way to e: newBlocks from its end, then the new head.
ChildTowards(h, e) == CHOOSE b \in Ancestors[e] \ {Zero} : BlockOf[b].prev = h

NextBlock == ChildTowards(ns.head, ev.head)

AdvanceNextTx ==
    /\ pc = "advance" /\ ns.head # ev.head
    /\ k <= Len(BlockTxs(NextBlock))
    /\ LET t == BlockTxs(NextBlock)[k] IN
       IF CanAdvanceTx(ns, t, NextBlock, ev.autoAdd)
       THEN /\ ns' = AdvanceTx(EnterMempool(ns, t, ev.autoAdd), t, NextBlock)
            /\ k' = k + 1
            /\ UNCHANGED <<pc, ev, lcaId>>
       ELSE Return
    /\ UNCHANGED <<invVars, st, headFile, target, announced, restarts>>

AdvanceBlock ==
    /\ pc = "advance" /\ ns.head # ev.head
    /\ k > Len(BlockTxs(NextBlock))
    /\ ns' = [ns EXCEPT !.head = NextBlock] /\ k' = 1
    /\ UNCHANGED <<invVars, st, pc, ev, lcaId, headFile, target, announced, restarts>>

Commit ==
    /\ pc = "advance" /\ ns.head = ev.head
    /\ st' = ns
    /\ headFile' = IF SaveDir THEN ns.head ELSE headFile
    /\ announced' = announced \cup Included(ns)
    /\ Return
    /\ UNCHANGED <<invVars, restarts>>
    /\ PublishTarget

-----------------------------------------------------------------------------
(* The process dies, anywhere, and is started again.  With a save dir the   *)
(* inventory survives; a crash inside the write of the head tears the file. *)

Restart ==
    /\ restarts < MaxRestarts /\ restarts' = restarts + 1
    /\ IF SaveDir THEN UNCHANGED invVars
       ELSE txs' = {} /\ merkles' = {} /\ blocks' = EmptyBlocks
    /\ headFile' \in IF SaveDir /\ pc = "advance" /\ ns.head = ev.head
                     THEN {headFile, NoBlock} ELSE {headFile}
    /\ st' = EmptyState /\ ns' = EmptyState /\ lcaId' = Zero /\ k' = 1
    /\ IF headFile' = NoBlock
       THEN pc' = "select" /\ ev' = NoEvent
       ELSE pc' = "load" /\ ev' = SavedHeadEvent(headFile')
    /\ announced' = {}
    /\ PublishTarget

HandlerStep ==
    \/ ReceiveSavedHead
    \/ StoreNextTx \/ StoreNextMerkle \/ StoreNextBlock \/ CompareWork
    \/ RewindNextTx \/ RewindBlock \/ RewindDone
    \/ AdvanceNextTx \/ AdvanceBlock \/ Commit

Next ==
    \/ \E e \in CandidateHeads : ReceiveHead(e)
    \/ \E t \in CandidateTxs : HandleCandidateTx(t)
    \/ HandlerStep
    \/ Restart

Spec == Init /\ [][Next]_vars

\* The routine is never descheduled for good: its loop blocks only in select.
FairSpec == Spec /\ WF_vars(HandlerStep)

=============================================================================
