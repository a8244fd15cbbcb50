------------------------------- MODULE Ledger -------------------------------
(***************************************************************************)
(* What internal/chain promises: the node's ledger is the one that some    *)
(* chain of blocks from the zero block determines, without double spends,  *)
(* and it is only ever replaced by the ledger of a chain with more work.   *)
(* Nothing is said of mempools, of rewinding or of how blocks arrive.      *)
(***************************************************************************)
EXTENDS Entities

VARIABLES
    head,       \* the block whose chain is confirmed
    weight,     \* total work of that chain
    confirmed,  \* txs of that chain
    utxos       \* outputs of confirmed txs that no confirmed tx consumes

ledgerVars == <<head, weight, confirmed, utxos>>

IsLedgerOf(b) ==
    /\ head = b
    /\ confirmed = ChainTxs(b)
    /\ Consistent(confirmed)
    /\ utxos = CreatedBy(confirmed) \ ConsumedBy(confirmed)

Init == weight = 0 /\ IsLedgerOf(Zero)

Adopt(b) == weight' > weight /\ IsLedgerOf(b)'

\* The process died; its ledger lives in memory only.
Reset == weight' = 0 /\ IsLedgerOf(Zero)'

Next == (\E b \in Block : Adopt(b)) \/ Reset

Spec == Init /\ [][Next]_ledgerVars

=============================================================================
