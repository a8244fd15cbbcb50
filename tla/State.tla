-------------------------------- MODULE State -------------------------------
(***************************************************************************)
(* internal/chain/state.go: the ledger at one head.  A State value is the  *)
(* Go struct; a Go map of sets is the set of its (key, member) pairs, so   *)
(* "the key is absent" is "no pair with that key".  mempoolRates always    *)
(* holds the rate of exactly the mempool's txs and is read off TxOf.       *)
(***************************************************************************)
EXTENDS Inventory

State ==
    [head : Block,
     mempool : SUBSET Tx,
     utxos : SUBSET Utxo,
     mempoolUtxoSpends : SUBSET (Utxo \X Tx),
     pkhUtxos : SUBSET (Pkh \X Utxo),
     includedTxBlocks : [Tx -> Block \cup {NoBlock}]]

\* NewState: at the zero block, with an empty mempool whatever the inventory holds.
EmptyState ==
    [head |-> Zero, mempool |-> {}, utxos |-> {}, mempoolUtxoSpends |-> {},
     pkhUtxos |-> {}, includedTxBlocks |-> [t \in Tx |-> NoBlock]]

Spends(t) == Consumed(t) \X {t}
Balances(us) == {<<Owner(u), u>> : u \in us}
Included(s) == {t \in Tx : s.includedTxBlocks[t] # NoBlock}

-----------------------------------------------------------------------------
AddMempoolTx(s, t) ==
    [s EXCEPT !.mempool = @ \cup {t},
              !.mempoolUtxoSpends = @ \cup Spends(t)]

(* Rewind, one tx of the head block *)

\* The loop's three panics: an output of t that is not unspent, an owner that does
\* not hold it, a tx that is not recorded under the head.
RewindTxPanics(s, t) ==
    \/ ~ Created(t) \subseteq s.utxos \cup Consumed(t)
    \/ ~ Balances(Created(t)) \subseteq s.pkhUtxos \cup Balances(Consumed(t))
    \/ s.includedTxBlocks[t] # s.head

\* Mutants: inputs stay spent; outputs stay unspent; the tx leaves the mempool for good.
RewindTx_KeepsInputsSpent(s, t) ==
    [AddMempoolTx(s, t) EXCEPT
        !.utxos = @ \ Created(t),
        !.pkhUtxos = @ \ Balances(Created(t)),
        !.includedTxBlocks[t] = NoBlock]

RewindTx_KeepsOutputs(s, t) ==
    [AddMempoolTx(s, t) EXCEPT
        !.utxos = @ \cup Consumed(t),
        !.pkhUtxos = @ \cup Balances(Consumed(t)),
        !.includedTxBlocks[t] = NoBlock]

RewindTx_DropsTx(s, t) ==
    [s EXCEPT !.utxos = (@ \cup Consumed(t)) \ Created(t),
              !.pkhUtxos = (@ \cup Balances(Consumed(t))) \ Balances(Created(t)),
              !.includedTxBlocks[t] = NoBlock]

RewindTx(s, t) ==
    [AddMempoolTx(s, t) EXCEPT
        !.utxos = (@ \cup Consumed(t)) \ Created(t),
        !.pkhUtxos = (@ \cup Balances(Consumed(t))) \ Balances(Created(t)),
        !.includedTxBlocks[t] = NoBlock]

-----------------------------------------------------------------------------
(* Advance, one tx of the next block *)

VerifyTxIncludable(s, t, autoAdd) ==
    /\ t \in txs
    /\ TxOf[t].minBlock <= Height(s.head) + 1
    /\ t \in s.mempool \/ autoAdd
    /\ Consumed(t) \subseteq s.utxos

\* Mutant: a trusted tx is not added.
EnterMempool_Never(s, t, autoAdd) == s

\* VerifyTxIncludable adds a trusted tx that the mempool lacks.
EnterMempool(s, t, autoAdd) ==
    IF autoAdd /\ t \notin s.mempool THEN AddMempoolTx(s, t) ELSE s

\* Mutant: the inputs are not checked.
CanAdvanceTx_AnyInput(s, t, b, autoAdd) ==
    /\ t \in txs /\ TxOf[t].minBlock <= Height(b)
    /\ t \in s.mempool \/ autoAdd
    /\ s.includedTxBlocks[t] = NoBlock

\* Advance gets through the tx with no error; s has t in its mempool.  A utxo that
\* t names twice is missing from the mempool index the second time.
CanAdvanceTx(s, t, b, autoAdd) ==
    /\ VerifyTxIncludable(s, t, autoAdd)
    /\ TxOf[t].minBlock <= Height(b)
    /\ ~DuplicateInput(t)
    /\ Spends(t) \subseteq EnterMempool(s, t, autoAdd).mempoolUtxoSpends
    /\ Balances(Consumed(t)) \subseteq s.pkhUtxos
    /\ s.includedTxBlocks[t] = NoBlock

\* Mutants: the tx stays pending; spends stay indexed; inputs stay unspent; the
\* parent is recorded.
AdvanceTx_StaysPending(s, t, b) ==
    [s EXCEPT !.mempoolUtxoSpends = @ \ Spends(t),
              !.utxos = (@ \ Consumed(t)) \cup Created(t),
              !.pkhUtxos = (@ \ Balances(Consumed(t))) \cup Balances(Created(t)),
              !.includedTxBlocks[t] = b]

AdvanceTx_KeepsSpends(s, t, b) ==
    [s EXCEPT !.mempool = @ \ {t},
              !.utxos = (@ \ Consumed(t)) \cup Created(t),
              !.pkhUtxos = (@ \ Balances(Consumed(t))) \cup Balances(Created(t)),
              !.includedTxBlocks[t] = b]

AdvanceTx_KeepsInputs(s, t, b) ==
    [s EXCEPT !.mempool = @ \ {t},
              !.mempoolUtxoSpends = @ \ Spends(t),
              !.utxos = @ \cup Created(t),
              !.pkhUtxos = @ \cup Balances(Created(t)),
              !.includedTxBlocks[t] = b]

AdvanceTx_UnderParent(s, t, b) ==
    [s EXCEPT !.mempool = @ \ {t},
              !.mempoolUtxoSpends = @ \ Spends(t),
              !.utxos = (@ \ Consumed(t)) \cup Created(t),
              !.pkhUtxos = (@ \ Balances(Consumed(t))) \cup Balances(Created(t)),
              !.includedTxBlocks[t] = s.head]

AdvanceTx(s, t, b) ==
    [s EXCEPT !.mempool = @ \ {t},
              !.mempoolUtxoSpends = @ \ Spends(t),
              !.utxos = (@ \ Consumed(t)) \cup Created(t),
              !.pkhUtxos = (@ \ Balances(Consumed(t))) \cup Balances(Created(t)),
              !.includedTxBlocks[t] = b]

-----------------------------------------------------------------------------
(* Queries *)

GetPkhUtxos(s, pkh, excludeMempool) ==
    LET held == {p[2] : p \in {p \in s.pkhUtxos : p[1] = pkh}}
        spent == {p[1] : p \in s.mempoolUtxoSpends}
    IN  IF excludeMempool THEN held \ spent ELSE held

GetPkhBalance(s, pkh) ==
    SumFunction([u \in GetPkhUtxos(s, pkh, FALSE) |-> u.value]) % UintMod

GetTxConfirms(s, t) ==
    IF s.includedTxBlocks[t] = NoBlock THEN 0
    ELSE Height(s.head) - Height(s.includedTxBlocks[t]) + 1

-----------------------------------------------------------------------------
(* Mining target *)

\* GetSortedIncludableMempool: the orders the sort may return (ties are unordered).
SortedIncludable(s) ==
    LET mem == {t \in s.mempool : VerifyTxIncludable(s, t, FALSE) /\ HasSurplus(t)}
    IN  {q \in SetToSeqs(mem) :
            \A i, j \in DOMAIN q : i < j => RateAtLeast(q[i], q[j])}

\* Mutant: conflicting txs may be chosen together.
FillBlock_AnyInputs(candidates) ==
    LET Add(acc, t) ==
            IF acc.size + TxOf[t].vSize > MaxBlockVSize THEN acc
            ELSE [txIds |-> Append(acc.txIds, t), size |-> acc.size + TxOf[t].vSize]
    IN  FoldLeft(Add, [txIds |-> <<>>, size |-> CoinbaseVSize], candidates).txIds

\* The greedy fill of CreateMiningTarget, over one sorted list.
FillBlock(candidates) ==
    LET start == [txIds |-> <<>>, size |-> CoinbaseVSize, used |-> {}]
        Add(acc, t) ==
            IF \/ acc.txIds # <<>> /\ acc.size > MaxBlockVSize - MinNonCoinbaseVSize
               \/ acc.size + TxOf[t].vSize > MaxBlockVSize
               \/ acc.used \cap Consumed(t) # {}
            THEN acc
            ELSE [txIds |-> Append(acc.txIds, t),
                  size |-> acc.size + TxOf[t].vSize,
                  used |-> acc.used \cup Consumed(t)]
    IN  FoldLeft(Add, start, candidates).txIds

MiningTargets(s) ==
    {[head |-> s.head, txIds |-> FillBlock(q)] : q \in SortedIncludable(s)}

=============================================================================
