--------------------------- MODULE ChainProperties --------------------------
(***************************************************************************)
(* What the chain routine must guarantee, whatever heads and txs arrive.   *)
(***************************************************************************)
EXTENDS Chain

\* Every variable keeps its type, the routine's copy of the state included.
TypeOK ==
    /\ InventoryTypeOK
    /\ st \in State /\ ns \in State
    /\ pc \in {"select", "load", "store", "rewind", "advance", "panicked"}
    /\ ev \in CandidateHeadEvent
    /\ lcaId \in Block /\ k \in Nat \ {0}
    /\ headFile \in Block \cup {NoBlock}
    /\ target.head \in Block
    /\ announced \subseteq Tx
    /\ restarts \in 0..MaxRestarts

-----------------------------------------------------------------------------
(* The ledger and its indexes *)

\* mempoolUtxoSpends and pkhUtxos, kept up to date entry by entry by
\* AddMempoolTx, Rewind and Advance, always hold exactly what the mempool and the
\* utxo set determine; a stale entry would hide or double a wallet's coins.
IndexesExact ==
    /\ st.mempoolUtxoSpends = UNION {Spends(t) : t \in st.mempool}
    /\ st.pkhUtxos = Balances(st.utxos)

\* The utxo set is what the included txs created and have not consumed, however
\* many rewinds and advances led here.
UtxosExact ==
    st.utxos = CreatedBy(Included(st)) \ ConsumedBy(Included(st))

\* No two included txs consume the same utxo.
NoDoubleSpend ==
    \A t1, t2 \in Included(st) : t1 # t2 => Consumed(t1) \cap Consumed(t2) = {}

\* A tx is recorded under exactly the block of the head's chain that holds it, so
\* GetTxConfirms never underflows; a tx of an abandoned branch is unconfirmed.
ConfirmedOnChain ==
    /\ Included(st) = ChainTxs(st.head)
    /\ \A t \in Included(st) :
          LET b == st.includedTxBlocks[t] IN
          /\ b \in Ancestors[st.head] \ {Zero} /\ t \in ToSet(BlockTxs(b))
          /\ GetTxConfirms(st, t) \in 1..Height(st.head)

\* Without a restart the mempool holds exactly the known txs that the head's chain
\* does not include: a reorganisation loses none and confirms none twice.
MempoolIsUnincluded == st.mempool = txs \ Included(st)

\* The coins that the balances of all owners add up to are the block rewards so
\* far: neither a fork nor a fee creates or burns any.
SupplyConserved ==
    SumFunction([pkh \in Pkh |-> GetPkhBalance(st, pkh)]) = BlockReward * Height(st.head)

-----------------------------------------------------------------------------
(* Choosing the head *)

Places(b) == UNION {{a} \X DOMAIN BlockTxs(a) : a \in Ancestors[b] \ {Zero}}
TxAt(p) == BlockTxs(p[1])[p[2]]
Before(p, q) ==
    Height(p[1]) < Height(q[1]) \/ (p[1] = q[1] /\ p[2] < q[2])

\* The definition of a correct chain, with no state, order of arrival or mempool in
\* it: every tx occurs once and in time, and consumes outputs that were created
\* before it and that nothing else consumes.
ValidChain(b) ==
    \A q \in Places(b) :
        /\ TxOf[TxAt(q)].minBlock <= Height(q[1])
        /\ ~DuplicateInput(TxAt(q))
        /\ \A p \in Places(b) \ {q} :
              TxAt(p) # TxAt(q) /\ Consumed(TxAt(p)) \cap Consumed(TxAt(q)) = {}
        /\ \A u \in Consumed(TxAt(q)) :
              \E p \in Places(b) : Before(p, q) /\ u \in Created(TxAt(p))

\* chain.go:133, "if it proves to be correct": the head's chain is always correct.
HeadChainValid == ValidChain(st.head)

\* chain.go:133, the other half: advancing is given up only for a wrong chain.
RejectOnlyInvalid ==
    [][AdvanceNextTx /\ pc' = "select" => ~ValidChain(ev.head)]_vars

\* The head changes only to a block with strictly more work, except by a restart.
HeadGainsWork ==
    [][st'.head # st.head /\ restarts' = restarts
        => TotalWork(st'.head) > TotalWork(st.head)]_vars

\* Once a correct chain with more work than ours is being switched to, its head
\* or a better one becomes ours: no order of steps loses it or gets stuck.
ValidHeadAdopted ==
    \A b \in Block :
        (pc = "rewind" /\ ev.head = b /\ ValidChain(b))
            ~> (HasBlock(b) /\ TotalWork(st.head) >= TotalWork(b))

\* Rewinding never meets one of the panics that state.go calls "state corrupt".
NoPanic == pc # "panicked"

-----------------------------------------------------------------------------
(* Mining *)

\* A block made of a coinbase and the published txs would be advanced to: the txs
\* are includable at the current head together, not just one by one.
TargetMinable ==
    SupportMiners =>
        LET ids == target.txIds IN
        /\ target.head = st.head
        /\ ToSet(ids) \subseteq st.mempool
        /\ \A i \in DOMAIN ids :
              /\ TxOf[ids[i]].minBlock <= Height(st.head) + 1
              /\ Consumed(ids[i]) \subseteq st.utxos
              /\ ~DuplicateInput(ids[i])
              /\ \A j \in DOMAIN ids \ {i} :
                    ids[i] # ids[j] /\ Consumed(ids[i]) \cap Consumed(ids[j]) = {}
        /\ CoinbaseVSize + SumFunction([t \in ToSet(ids) |-> TxOf[t].vSize])
              <= MaxBlockVSize
        /\ Len(ids) + 1 <= BlockMaxTxs

-----------------------------------------------------------------------------
(* Restarting *)

\* After a restart the chain is replayed to the saved head, whatever was stored
\* and wherever the process died; without a head file it is back at zero.
RestartRestoresHead ==
    SaveDir /\ pc = "select" =>
        st.head = IF headFile = NoBlock THEN Zero ELSE headFile

-----------------------------------------------------------------------------
\* The routine implements the abstract ledger.
LedgerOfState ==
    INSTANCE Ledger WITH
        head <- st.head,
        weight <- TotalWork(st.head),
        confirmed <- Included(st),
        utxos <- st.utxos

ImplementsLedger == LedgerOfState!Spec

=============================================================================
