----------------------------- MODULE ChainProofs ----------------------------
(***************************************************************************)
(* Safety of the chain routine for every set of entities, every order of   *)
(* events and any number of restarts: IInv is inductive, and the           *)
(* properties of ChainProperties follow from it.                           *)
(***************************************************************************)
EXTENDS ChainInvariant, EntitiesProofs

-----------------------------------------------------------------------------
(* Heights, in a closed inventory *)

\* What the lemmas below need of the inventory.
LEMMA KnownBlockFacts ==
  ASSUME InventoryOK, NEW b \in DOMAIN blocks
  PROVE  /\ b \in Block /\ Height(b) \in Nat /\ TotalWork(b) \in Nat
         /\ b # Zero => /\ HasBlock(BlockOf[b].prev) /\ BlockOf[b].prev \in Block
                        /\ Height(b) = Height(BlockOf[b].prev) + 1
BY DEF InventoryOK, InventoryTypeOK, BlockInfo, BlocksClosed, Height, TotalWork, HasBlock

\* The ancestors of a known block are known and not above it.
LEMMA AncestorsKnown ==
  ASSUME InventoryOK, NEW b \in DOMAIN blocks
  PROVE  \A a \in Ancestors[b] : a \in DOMAIN blocks /\ Height(a) <= Height(b)
<1> DEFINE S == {x \in DOMAIN blocks : Height(x) <= Height(b)}
<1>1. S \subseteq Block /\ b \in S  BY KnownBlockFacts
<1>2. ASSUME NEW x \in S \ {Zero}  PROVE BlockOf[x].prev \in S
  <2> DEFINE p == BlockOf[x].prev
  <2>1. /\ p \in DOMAIN blocks /\ Height(p) \in Nat /\ Height(b) \in Nat
        /\ Height(x) = Height(p) + 1 /\ Height(x) <= Height(b)
    BY KnownBlockFacts DEF HasBlock
  <2> HIDE DEF p
  <2>2. Height(p) <= Height(b)  BY <2>1
  <2> QED  BY <2>1, <2>2 DEF p
<1>3. ClosedUnderParent(S)  BY <1>2 DEF ClosedUnderParent
<1>4. Ancestors[b] \subseteq S  BY <1>1, <1>3, AncestorsLeast
<1> QED  BY <1>4

\* A block is not among the ancestors of its parent.
LEMMA NotOwnAncestor ==
  ASSUME InventoryOK, NEW b \in DOMAIN blocks \ {Zero}
  PROVE  b \notin Ancestors[BlockOf[b].prev]
<1> DEFINE p == BlockOf[b].prev
<1>1. /\ p \in DOMAIN blocks /\ Height(p) \in Nat /\ Height(b) = Height(p) + 1
  BY KnownBlockFacts DEF HasBlock
<1>2. b \in Ancestors[p] => Height(b) <= Height(p)  BY <1>1, AncestorsKnown
<1> HIDE DEF p
<1>3. b \notin Ancestors[p]  BY <1>1, <1>2
<1> QED  BY <1>3 DEF p

\* Every known chain starts at the zero block: a lowest ancestor has no parent.
LEMMA ZeroIsAncestor ==
  ASSUME InventoryOK, NEW b \in DOMAIN blocks
  PROVE  Zero \in Ancestors[b]
<1> SUFFICES ASSUME Zero \notin Ancestors[b]  PROVE FALSE
  OBVIOUS
<1>1. b \in Block  BY KnownBlockFacts
<1>2. \A a \in Ancestors[b] : a \in DOMAIN blocks /\ Height(a) \in Nat
  BY AncestorsKnown, KnownBlockFacts
<1> DEFINE T == {Height(a) : a \in Ancestors[b]}
<1>3. T \subseteq Nat /\ T # {}  BY <1>1, <1>2, AncestorsClosed
<1>4. PICK m \in T : \A n \in T : m <= n  BY <1>3, LeastNatural
<1>5. PICK a \in Ancestors[b] : m = Height(a)  BY <1>4
<1> DEFINE p == BlockOf[a].prev
<1>6. p \in Ancestors[b]  BY <1>1, AncestorsClosed DEF ClosedUnderParent
<1>7. Height(p) \in Nat /\ Height(a) = Height(p) + 1
  BY <1>2, <1>6, KnownBlockFacts
<1>8. Height(a) <= Height(p)  BY <1>4, <1>5, <1>6
<1> HIDE DEF p
<1> QED  BY <1>7, <1>8

\* GetBlockLCA returns a common ancestor of two known blocks.
LEMMA LCAFacts ==
  ASSUME InventoryOK, NEW a \in DOMAIN blocks, NEW b \in DOMAIN blocks
  PROVE  GetBlockLCA(a, b) \in Ancestors[a] \cap Ancestors[b]
<1> DEFINE common == Ancestors[a] \cap Ancestors[b]
           top == Height(a)
           T == {top - Height(c) : c \in common}
<1>1. Zero \in common  BY ZeroIsAncestor
<1>2. \A c \in common : Height(c) \in Nat /\ Height(c) <= top
  BY AncestorsKnown, KnownBlockFacts
<1>3. top \in Nat  BY KnownBlockFacts
<1> HIDE DEF common, top
<1>4. T \subseteq Nat  BY <1>2, <1>3
<1>5. T # {}  BY <1>1
<1>6. PICK m \in T : \A n \in T : m <= n  BY <1>4, <1>5, LeastNatural
<1>7. PICK c \in common : m = top - Height(c)  BY <1>6
<1>8. ASSUME NEW d \in common  PROVE Height(d) <= Height(c)
  <2>1. top - Height(c) <= top - Height(d)  BY <1>6, <1>7
  <2> QED  BY <2>1, <1>2, <1>3
<1>9. (CHOOSE x \in common : \A d \in common : Height(d) <= Height(x)) \in common
  BY <1>8
<1> QED  BY <1>9 DEF GetBlockLCA, common

\* The next block on the way to a known head extends the block we are at.
LEMMA ChildTowardsFacts ==
  ASSUME InventoryOK, NEW e \in DOMAIN blocks, NEW h \in Ancestors[e], h # e
  PROVE  /\ ChildTowards(h, e) \in Ancestors[e] \ {Zero}
         /\ ChildTowards(h, e) \in DOMAIN blocks /\ ChildTowards(h, e) \in Block
         /\ BlockOf[ChildTowards(h, e)].prev = h
         /\ Ancestors[ChildTowards(h, e)] = {ChildTowards(h, e)} \cup Ancestors[h]
         /\ ChildTowards(h, e) \notin Ancestors[h]
<1> DEFINE c == ChildTowards(h, e)
<1>1. e \in Block  BY KnownBlockFacts
<1>2. c \in Ancestors[e] \ {Zero} /\ BlockOf[c].prev = h
  BY <1>1, ChildExists DEF ChildTowards
<1>3. c \in DOMAIN blocks /\ c \in Block
  BY <1>1, <1>2, AncestorsKnown, AncestorsClosed
<1> HIDE DEF c
<1>4. Ancestors[c] = {c} \cup Ancestors[h]  BY <1>2, <1>3, AncestorsStep
<1>5. c \notin Ancestors[h]  BY <1>2, <1>3, NotOwnAncestor
<1> QED  BY <1>2, <1>3, <1>4, <1>5 DEF c

-----------------------------------------------------------------------------
(* One tx of a rewind or an advance, on a consistent ledger *)

\* Distinct txs create distinct utxos.
LEMMA CreatedDisjoint ==
  ASSUME NEW t \in Tx, NEW S \in SUBSET Tx
  PROVE  /\ CreatedBy(S \ {t}) = CreatedBy(S) \ Created(t)
         /\ t \notin S => Created(t) \cap CreatedBy(S) = {}
BY TxFacts DEF CreatedBy

\* Undoing an included tx whose outputs are unspent leaves the utxos of the others.
LEMMA RewindUtxos ==
  ASSUME NEW S \in SUBSET Tx, NEW t \in S,
         ConsumedBy(S) \subseteq CreatedBy(S),
         \A t1, t2 \in S : t1 # t2 => Consumed(t1) \cap Consumed(t2) = {},
         Created(t) \subseteq (CreatedBy(S) \ ConsumedBy(S)) \cup Consumed(t)
  PROVE  /\ ((CreatedBy(S) \ ConsumedBy(S)) \cup Consumed(t)) \ Created(t)
              = CreatedBy(S \ {t}) \ ConsumedBy(S \ {t})
         /\ ConsumedBy(S \ {t}) \subseteq CreatedBy(S \ {t})
<1>1. CreatedBy(S \ {t}) = CreatedBy(S) \ Created(t)  BY CreatedDisjoint
<1>2. ConsumedBy(S \ {t}) = ConsumedBy(S) \ Consumed(t)  BY DEF ConsumedBy
<1>3. Consumed(t) \subseteq ConsumedBy(S)  BY DEF ConsumedBy
<1>4. ConsumedBy(S \ {t}) \cap Created(t) = {}  BY <1>2
<1> QED  BY <1>1, <1>2, <1>3, <1>4

\* Including a tx whose inputs are unspent consumes them and adds its outputs.
LEMMA AdvanceUtxos ==
  ASSUME NEW S \in SUBSET Tx, NEW t \in Tx \ S,
         ConsumedBy(S) \subseteq CreatedBy(S),
         \A t1, t2 \in S : t1 # t2 => Consumed(t1) \cap Consumed(t2) = {},
         Consumed(t) \subseteq CreatedBy(S) \ ConsumedBy(S)
  PROVE  /\ ((CreatedBy(S) \ ConsumedBy(S)) \ Consumed(t)) \cup Created(t)
              = CreatedBy(S \cup {t}) \ ConsumedBy(S \cup {t})
         /\ ConsumedBy(S \cup {t}) \subseteq CreatedBy(S \cup {t})
         /\ \A t1, t2 \in S \cup {t} : t1 # t2 => Consumed(t1) \cap Consumed(t2) = {}
<1>1. CreatedBy(S \cup {t}) = CreatedBy(S) \cup Created(t)  BY DEF CreatedBy
<1>2. ConsumedBy(S \cup {t}) = ConsumedBy(S) \cup Consumed(t)  BY DEF ConsumedBy
<1>3. Created(t) \cap CreatedBy(S) = {}  BY CreatedDisjoint
<1>4. \A t1 \in S : Consumed(t1) \cap Consumed(t) = {}  BY DEF ConsumedBy
<1> QED  BY <1>1, <1>2, <1>3, <1>4

\* A utxo's balance entry names it, so the index of a difference is the difference.
LEMMA BalancesFacts ==
  ASSUME NEW A, NEW B
  PROVE  /\ Balances(A \cup B) = Balances(A) \cup Balances(B)
         /\ Balances(A \ B) = Balances(A) \ Balances(B)
BY DEF Balances

\* Every utxo of a ledger was created by an included tx, and so has an owner.
LEMMA BalancesType ==
  ASSUME NEW S \in SUBSET Tx, NEW U \in SUBSET CreatedBy(S)
  PROVE  U \subseteq Utxo /\ Balances(U) \subseteq Pkh \X Utxo
BY TxFacts DEF CreatedBy, Balances

\* The index of the mempool's spends, one tx more or less.
LEMMA SpendsFacts ==
  ASSUME NEW M \in SUBSET Tx, NEW t \in Tx
  PROVE  /\ UNION {Spends(x) : x \in M \cup {t}} = (UNION {Spends(x) : x \in M}) \cup Spends(t)
         /\ UNION {Spends(x) : x \in M \ {t}} = (UNION {Spends(x) : x \in M}) \ Spends(t)
         /\ UNION {Spends(x) : x \in M} \subseteq Utxo \X Tx
<1>1. UNION {Spends(x) : x \in M \cup {t}} = (UNION {Spends(x) : x \in M}) \cup Spends(t)
  OBVIOUS
<1>2. \A x \in M : \A p \in Spends(x) : p[2] = x  BY DEF Spends
<1>3. UNION {Spends(x) : x \in M \ {t}} = (UNION {Spends(x) : x \in M}) \ Spends(t)
  BY <1>2 DEF Spends
<1>4. UNION {Spends(x) : x \in M} \subseteq Utxo \X Tx  BY TxFacts DEF Spends
<1> QED  BY <1>1, <1>3, <1>4

-----------------------------------------------------------------------------
(* LedgerOK, operation by operation *)

\* NewState is consistent.
LEMMA EmptyStateOK ==
  /\ LedgerOK(EmptyState) /\ Included(EmptyState) = {}
  /\ EmptyState.head = Zero /\ EmptyState.mempool = {}
<1>1. EmptyState \in State  BY EntitiesAssumption DEF EmptyState, State
<1>2. /\ EmptyState.head = Zero /\ EmptyState.mempool = {} /\ EmptyState.utxos = {}
      /\ EmptyState.mempoolUtxoSpends = {} /\ EmptyState.pkhUtxos = {}
  BY DEF EmptyState
<1>3. Included(EmptyState) = {}  BY DEF EmptyState, Included
<1>4. Consistent({})  BY DEF Consistent, ConsumedBy
<1>5. CreatedBy({}) = {}  BY DEF CreatedBy
<1> QED  BY <1>1, <1>2, <1>3, <1>4, <1>5 DEF LedgerOK, Balances

\* The fields of a consistent ledger.
LEMMA LedgerFields ==
  ASSUME NEW s, LedgerOK(s)
  PROVE  /\ s \in State /\ s.head \in Block /\ s.mempool \subseteq Tx
         /\ Included(s) \subseteq Tx /\ s.utxos \subseteq Utxo
         /\ s.includedTxBlocks \in [Tx -> Block \cup {NoBlock}]
         /\ s.mempoolUtxoSpends \subseteq Utxo \X Tx /\ s.pkhUtxos \subseteq Pkh \X Utxo
         /\ ConsumedBy(Included(s)) \subseteq CreatedBy(Included(s))
         /\ \A t1, t2 \in Included(s) : t1 # t2 => Consumed(t1) \cap Consumed(t2) = {}
BY DEF Consistent, LedgerOK, State, Included

\* Moving the head alone keeps the ledger consistent.
LEMMA MoveHeadOK ==
  ASSUME NEW s, LedgerOK(s), NEW b \in Block
  PROVE  LET s2 == [s EXCEPT !.head = b] IN
         /\ LedgerOK(s2) /\ s2.head = b /\ s2.mempool = s.mempool
         /\ s2.includedTxBlocks = s.includedTxBlocks /\ Included(s2) = Included(s)
<1> DEFINE s2 == [s EXCEPT !.head = b]
<1>0. s \in State  BY LedgerFields
<1>1. /\ s2 \in State /\ s2.head = b /\ s2.mempool = s.mempool
      /\ s2.includedTxBlocks = s.includedTxBlocks /\ s2.utxos = s.utxos
      /\ s2.mempoolUtxoSpends = s.mempoolUtxoSpends /\ s2.pkhUtxos = s.pkhUtxos
  BY <1>0 DEF State
<1> HIDE DEF s2
<1>2. Included(s2) = Included(s)  BY <1>1 DEF Included
<1>3. LedgerOK(s2)  BY <1>1, <1>2 DEF LedgerOK
<1> QED  BY <1>1, <1>2, <1>3 DEF s2

\* What AddMempoolTx does to each field.
LEMMA AddMempoolTxFields ==
  ASSUME NEW s \in State, NEW t \in Tx
  PROVE  LET s2 == AddMempoolTx(s, t) IN
         /\ s2 \in State
         /\ s2.head = s.head /\ s2.mempool = s.mempool \cup {t}
         /\ s2.includedTxBlocks = s.includedTxBlocks /\ s2.utxos = s.utxos
         /\ s2.mempoolUtxoSpends = s.mempoolUtxoSpends \cup Spends(t)
         /\ s2.pkhUtxos = s.pkhUtxos
<1>1. Spends(t) \subseteq Utxo \X Tx  BY TxFacts DEF Spends
<1> QED  BY <1>1 DEF State, AddMempoolTx

\* What RewindTx does to each field.
LEMMA RewindTxFields ==
  ASSUME NEW s \in State, NEW t \in Tx
  PROVE  LET s2 == RewindTx(s, t) IN
         /\ s2.head = s.head /\ s2.mempool = s.mempool \cup {t}
         /\ s2.includedTxBlocks = [s.includedTxBlocks EXCEPT ![t] = NoBlock]
         /\ s2.utxos = (s.utxos \cup Consumed(t)) \ Created(t)
         /\ s2.pkhUtxos = (s.pkhUtxos \cup Balances(Consumed(t))) \ Balances(Created(t))
         /\ s2.mempoolUtxoSpends = s.mempoolUtxoSpends \cup Spends(t)
         /\ s2.pkhUtxos \subseteq Pkh \X Utxo => s2 \in State
<1> DEFINE a == AddMempoolTx(s, t)
           s2 == [a EXCEPT
                   !.utxos = (a.utxos \cup Consumed(t)) \ Created(t),
                   !.pkhUtxos = (a.pkhUtxos \cup Balances(Consumed(t)))
                                  \ Balances(Created(t)),
                   !.includedTxBlocks[t] = NoBlock]
<1>1. /\ a \in State
      /\ a.head = s.head /\ a.mempool = s.mempool \cup {t}
      /\ a.includedTxBlocks = s.includedTxBlocks /\ a.utxos = s.utxos
      /\ a.mempoolUtxoSpends = s.mempoolUtxoSpends \cup Spends(t)
      /\ a.pkhUtxos = s.pkhUtxos
  BY AddMempoolTxFields
<1>2. RewindTx(s, t) = s2  BY DEF RewindTx
<1> HIDE DEF a
<1>3. /\ s2.head = a.head /\ s2.mempool = a.mempool
      /\ s2.includedTxBlocks = [a.includedTxBlocks EXCEPT ![t] = NoBlock]
      /\ s2.utxos = (a.utxos \cup Consumed(t)) \ Created(t)
      /\ s2.pkhUtxos = (a.pkhUtxos \cup Balances(Consumed(t))) \ Balances(Created(t))
      /\ s2.mempoolUtxoSpends = a.mempoolUtxoSpends
  BY <1>1 DEF State
<1>4. (a.utxos \cup Consumed(t)) \ Created(t) \subseteq Utxo
  BY <1>1, TxFacts DEF State
<1>5. [a.includedTxBlocks EXCEPT ![t] = NoBlock] \in [Tx -> Block \cup {NoBlock}]
  BY <1>1 DEF State
<1>6. s2.pkhUtxos \subseteq Pkh \X Utxo => s2 \in State
  BY <1>1, <1>3, <1>4, <1>5 DEF State
<1> QED  BY <1>1, <1>2, <1>3, <1>6

\* AddMempoolTx keeps a ledger consistent, for a tx that it does not include.
LEMMA AddMempoolTxOK ==
  ASSUME NEW s, LedgerOK(s), NEW t \in Tx \ Included(s)
  PROVE  LET s2 == AddMempoolTx(s, t) IN
         /\ LedgerOK(s2) /\ s2.head = s.head /\ s2.mempool = s.mempool \cup {t}
         /\ s2.includedTxBlocks = s.includedTxBlocks /\ Included(s2) = Included(s)
         /\ s2.utxos = s.utxos
<1> DEFINE s2 == AddMempoolTx(s, t)
<1>0. /\ s \in State /\ s.mempool \subseteq Tx /\ s.mempoolUtxoSpends \subseteq Utxo \X Tx
  BY LedgerFields
<1>1. /\ s2.head = s.head /\ s2.mempool = s.mempool \cup {t}
      /\ s2.includedTxBlocks = s.includedTxBlocks /\ s2.utxos = s.utxos
      /\ s2.mempoolUtxoSpends = s.mempoolUtxoSpends \cup Spends(t)
      /\ s2.pkhUtxos = s.pkhUtxos
  BY <1>0, AddMempoolTxFields
<1>3. s2 \in State  BY <1>0, AddMempoolTxFields
<1> HIDE DEF s2
<1>4. Included(s2) = Included(s)  BY <1>1 DEF Included
<1>5. s2.mempoolUtxoSpends = UNION {Spends(x) : x \in s2.mempool}
  BY <1>0, <1>1, SpendsFacts DEF LedgerOK
<1>6. LedgerOK(s2)  BY <1>1, <1>3, <1>4, <1>5 DEF LedgerOK
<1> QED  BY <1>1, <1>4, <1>6 DEF s2

\* Rewinding a tx that does not panic keeps the ledger consistent.
LEMMA RewindTxOK ==
  ASSUME NEW s, LedgerOK(s), NEW t \in Included(s), ~RewindTxPanics(s, t)
  PROVE  LET s2 == RewindTx(s, t) IN
         /\ LedgerOK(s2) /\ s2.head = s.head /\ s2.mempool = s.mempool \cup {t}
         /\ s2.includedTxBlocks = [s.includedTxBlocks EXCEPT ![t] = NoBlock]
         /\ Included(s2) = Included(s) \ {t}
<1> DEFINE s2 == RewindTx(s, t)
           I == Included(s)
<1>1. /\ s \in State /\ s.mempool \subseteq Tx /\ s.mempoolUtxoSpends \subseteq Utxo \X Tx
      /\ t \in Tx /\ I \in SUBSET Tx
      /\ s.includedTxBlocks \in [Tx -> Block \cup {NoBlock}]
      /\ ConsumedBy(I) \subseteq CreatedBy(I)
      /\ \A t1, t2 \in I : t1 # t2 => Consumed(t1) \cap Consumed(t2) = {}
      /\ s.utxos = CreatedBy(I) \ ConsumedBy(I)
      /\ s.pkhUtxos = Balances(s.utxos)
      /\ s.mempoolUtxoSpends = UNION {Spends(x) : x \in s.mempool}
      /\ s.mempool \cap I = {}
  BY LedgerFields DEF LedgerOK
<1>2. /\ s2.head = s.head /\ s2.mempool = s.mempool \cup {t}
      /\ s2.includedTxBlocks = [s.includedTxBlocks EXCEPT ![t] = NoBlock]
      /\ s2.utxos = (s.utxos \cup Consumed(t)) \ Created(t)
      /\ s2.pkhUtxos = (s.pkhUtxos \cup Balances(Consumed(t))) \ Balances(Created(t))
      /\ s2.mempoolUtxoSpends = s.mempoolUtxoSpends \cup Spends(t)
  BY <1>1, RewindTxFields
<1> HIDE DEF s2, I
<1>3. Included(s2) = I \ {t}  BY <1>1, <1>2 DEF Included, I
<1>4. /\ s2.utxos = CreatedBy(I \ {t}) \ ConsumedBy(I \ {t})
      /\ ConsumedBy(I \ {t}) \subseteq CreatedBy(I \ {t})
  <2>1. Created(t) \subseteq (CreatedBy(I) \ ConsumedBy(I)) \cup Consumed(t)
    BY <1>1 DEF RewindTxPanics
  <2>2. t \in I  BY DEF I
  <2> QED  BY <1>1, <1>2, <2>1, <2>2, RewindUtxos
<1>5. Consistent(I \ {t})  BY <1>1, <1>4 DEF Consistent
<1>6. s2.pkhUtxos = Balances(s2.utxos)
  <2>1. Balances(s.utxos \cup Consumed(t)) = Balances(s.utxos) \cup Balances(Consumed(t))
    BY BalancesFacts
  <2>2. Balances((s.utxos \cup Consumed(t)) \ Created(t))
          = Balances(s.utxos \cup Consumed(t)) \ Balances(Created(t))
    BY BalancesFacts
  <2> QED  BY <1>1, <1>2, <2>1, <2>2
<1>7. s2.mempoolUtxoSpends = UNION {Spends(x) : x \in s2.mempool}
  BY <1>1, <1>2, SpendsFacts
<1>8. s2.mempool \cap Included(s2) = {}  BY <1>1, <1>2, <1>3
<1>9. s2 \in State
  <2>1. s2.utxos \subseteq Utxo /\ s2.pkhUtxos \subseteq Pkh \X Utxo
    <3> DEFINE S == I \ {t}
    <3>1. S \in SUBSET Tx /\ s2.utxos \in SUBSET CreatedBy(S)  BY <1>1, <1>4
    <3> HIDE DEF S
    <3> QED  BY <1>6, <3>1, BalancesType
  <2> QED  BY <1>1, <2>1, RewindTxFields DEF s2
<1>10. LedgerOK(s2)  BY <1>3, <1>4, <1>5, <1>6, <1>7, <1>8, <1>9 DEF LedgerOK
<1> QED  BY <1>2, <1>3, <1>10 DEF s2, I

\* What AdvanceTx does to each field.
LEMMA AdvanceTxFields ==
  ASSUME NEW s \in State, NEW t \in Tx, NEW b \in Block
  PROVE  LET s2 == AdvanceTx(s, t, b) IN
         /\ s2.head = s.head /\ s2.mempool = s.mempool \ {t}
         /\ s2.includedTxBlocks = [s.includedTxBlocks EXCEPT ![t] = b]
         /\ s2.utxos = (s.utxos \ Consumed(t)) \cup Created(t)
         /\ s2.pkhUtxos = (s.pkhUtxos \ Balances(Consumed(t))) \cup Balances(Created(t))
         /\ s2.mempoolUtxoSpends = s.mempoolUtxoSpends \ Spends(t)
         /\ s2.pkhUtxos \subseteq Pkh \X Utxo => s2 \in State
<1> DEFINE s2 == [s EXCEPT
                   !.mempool = s.mempool \ {t},
                   !.mempoolUtxoSpends = s.mempoolUtxoSpends \ Spends(t),
                   !.utxos = (s.utxos \ Consumed(t)) \cup Created(t),
                   !.pkhUtxos = (s.pkhUtxos \ Balances(Consumed(t)))
                                  \cup Balances(Created(t)),
                   !.includedTxBlocks[t] = b]
<1>1. AdvanceTx(s, t, b) = s2  BY DEF AdvanceTx
<1>2. /\ s2.head = s.head /\ s2.mempool = s.mempool \ {t}
      /\ s2.includedTxBlocks = [s.includedTxBlocks EXCEPT ![t] = b]
      /\ s2.utxos = (s.utxos \ Consumed(t)) \cup Created(t)
      /\ s2.pkhUtxos = (s.pkhUtxos \ Balances(Consumed(t))) \cup Balances(Created(t))
      /\ s2.mempoolUtxoSpends = s.mempoolUtxoSpends \ Spends(t)
  BY DEF State
<1>3. (s.utxos \ Consumed(t)) \cup Created(t) \subseteq Utxo
  BY TxFacts DEF State
<1>4. [s.includedTxBlocks EXCEPT ![t] = b] \in [Tx -> Block \cup {NoBlock}]
  BY DEF State
<1>5. s2.pkhUtxos \subseteq Pkh \X Utxo => s2 \in State
  BY <1>2, <1>3, <1>4 DEF State
<1> QED  BY <1>1, <1>2, <1>5

\* VerifyTxIncludable's addition of a trusted tx keeps the ledger consistent.
LEMMA EnterMempoolOK ==
  ASSUME NEW s, LedgerOK(s), NEW autoAdd, NEW t \in Tx \ Included(s),
         t \in s.mempool \/ autoAdd
  PROVE  LET s2 == EnterMempool(s, t, autoAdd) IN
         /\ LedgerOK(s2) /\ s2.head = s.head /\ s2.mempool = s.mempool \cup {t}
         /\ s2.includedTxBlocks = s.includedTxBlocks /\ Included(s2) = Included(s)
         /\ s2.utxos = s.utxos
<1>1. CASE t \in s.mempool
  BY <1>1 DEF EnterMempool
<1>2. CASE t \notin s.mempool
  BY <1>2, AddMempoolTxOK DEF EnterMempool
<1> QED  BY <1>1, <1>2

\* Advancing over a tx whose inputs are unspent keeps the ledger consistent.
LEMMA AdvanceTxOK ==
  ASSUME NEW s, LedgerOK(s), NEW t \in s.mempool, NEW b \in Block,
         Consumed(t) \subseteq s.utxos, b # NoBlock
  PROVE  LET s2 == AdvanceTx(s, t, b) IN
         /\ LedgerOK(s2) /\ s2.head = s.head /\ s2.mempool = s.mempool \ {t}
         /\ s2.includedTxBlocks = [s.includedTxBlocks EXCEPT ![t] = b]
         /\ Included(s2) = Included(s) \cup {t}
<1> DEFINE s2 == AdvanceTx(s, t, b)
           I == Included(s)
<1>1. /\ s \in State /\ s.mempool \subseteq Tx
      /\ t \in Tx \ I /\ I \in SUBSET Tx
      /\ s.includedTxBlocks \in [Tx -> Block \cup {NoBlock}]
      /\ ConsumedBy(I) \subseteq CreatedBy(I)
      /\ \A t1, t2 \in I : t1 # t2 => Consumed(t1) \cap Consumed(t2) = {}
      /\ s.utxos = CreatedBy(I) \ ConsumedBy(I)
      /\ s.pkhUtxos = Balances(s.utxos)
      /\ s.mempoolUtxoSpends = UNION {Spends(x) : x \in s.mempool}
      /\ s.mempool \cap I = {}
  BY LedgerFields DEF LedgerOK
<1>2. /\ s2.head = s.head /\ s2.mempool = s.mempool \ {t}
      /\ s2.includedTxBlocks = [s.includedTxBlocks EXCEPT ![t] = b]
      /\ s2.utxos = (s.utxos \ Consumed(t)) \cup Created(t)
      /\ s2.pkhUtxos = (s.pkhUtxos \ Balances(Consumed(t))) \cup Balances(Created(t))
      /\ s2.mempoolUtxoSpends = s.mempoolUtxoSpends \ Spends(t)
  BY <1>1, AdvanceTxFields
<1>3. s2.pkhUtxos \subseteq Pkh \X Utxo => s2 \in State  BY <1>1, AdvanceTxFields
<1> HIDE DEF s2, I
<1>4. Included(s2) = I \cup {t}  BY <1>1, <1>2 DEF Included, I
<1>5. /\ s2.utxos = CreatedBy(I \cup {t}) \ ConsumedBy(I \cup {t})
      /\ ConsumedBy(I \cup {t}) \subseteq CreatedBy(I \cup {t})
      /\ \A t1, t2 \in I \cup {t} : t1 # t2 => Consumed(t1) \cap Consumed(t2) = {}
  BY <1>1, <1>2, AdvanceUtxos
<1>6. Consistent(I \cup {t})  BY <1>5 DEF Consistent
<1>7. s2.pkhUtxos = Balances(s2.utxos)
  <2>1. Balances(s.utxos \ Consumed(t)) = Balances(s.utxos) \ Balances(Consumed(t))
    BY BalancesFacts
  <2>2. Balances((s.utxos \ Consumed(t)) \cup Created(t))
          = Balances(s.utxos \ Consumed(t)) \cup Balances(Created(t))
    BY BalancesFacts
  <2> QED  BY <1>1, <1>2, <2>1, <2>2
<1>8. s2.mempoolUtxoSpends = UNION {Spends(x) : x \in s2.mempool}
  BY <1>1, <1>2, SpendsFacts
<1>9. s2.mempool \cap Included(s2) = {}  BY <1>1, <1>2, <1>4
<1>10. s2.pkhUtxos \subseteq Pkh \X Utxo
  <2> DEFINE S == I \cup {t}
  <2>1. S \in SUBSET Tx /\ s2.utxos \in SUBSET CreatedBy(S)  BY <1>1, <1>5
  <2> HIDE DEF S
  <2> QED  BY <1>7, <2>1, BalancesType
<1>11. LedgerOK(s2)  BY <1>3, <1>4, <1>5, <1>6, <1>7, <1>8, <1>9, <1>10 DEF LedgerOK
<1> QED  BY <1>2, <1>4, <1>11 DEF s2, I

-----------------------------------------------------------------------------
(* RecordedAt, operation by operation *)

\* It depends on includedTxBlocks alone.
LEMMA RecordedSame ==
  ASSUME NEW s, NEW s2, NEW p, s2.includedTxBlocks = s.includedTxBlocks,
         RecordedAt(s, p)
  PROVE  RecordedAt(s2, p)
BY DEF RecordedAt, Included

\* NewState records nothing.
LEMMA RecordedEmpty == RecordedAt(EmptyState, WholeChain(Zero))
<1>1. \A a \in Block \ {Zero} : WholeChain(Zero)[a] = {}
  BY AncestorsOfZero DEF WholeChain
<1> QED  BY <1>1, EmptyStateOK DEF RecordedAt

\* Rewinding the tx at position i of block a takes that position away.
LEMMA RecordedRewind ==
  ASSUME NEW s, NEW s2, NEW p, NEW q,
         s.includedTxBlocks \in [Tx -> Block \cup {NoBlock}],
         NEW a \in Block \ {Zero}, NEW i \in p[a],
         s2.includedTxBlocks = [s.includedTxBlocks EXCEPT ![BlockTxs(a)[i]] = NoBlock],
         \A b \in Block \ {Zero} : q[b] = IF b = a THEN p[a] \ {i} ELSE p[b],
         RecordedAt(s, p)
  PROVE  RecordedAt(s2, q)
<1> DEFINE t == BlockTxs(a)[i]
<1>1. i \in DOMAIN BlockTxs(a) /\ t \in Tx /\ s.includedTxBlocks[t] = a
  BY BlockFacts, SeqElements DEF RecordedAt
<1>2. ASSUME NEW b \in Block \ {Zero}, NEW j \in q[b]
      PROVE  /\ j \in DOMAIN BlockTxs(b) /\ s2.includedTxBlocks[BlockTxs(b)[j]] = b
             /\ \A m \in q[b] : BlockTxs(b)[j] = BlockTxs(b)[m] => j = m
  <2>1. j \in p[b] /\ q[b] \subseteq p[b] /\ (b = a => j # i)  BY <1>2
  <2>2. /\ j \in DOMAIN BlockTxs(b) /\ s.includedTxBlocks[BlockTxs(b)[j]] = b
        /\ \A m \in p[b] : BlockTxs(b)[j] = BlockTxs(b)[m] => j = m
    BY <2>1 DEF RecordedAt
  <2>3. BlockTxs(b)[j] # t  BY <1>1, <2>1, <2>2
  <2>4. BlockTxs(b)[j] \in Tx  BY <2>2, BlockFacts, SeqElements
  <2> QED  BY <2>1, <2>2, <2>3, <2>4
<1>3. ASSUME NEW x \in Included(s2)
      PROVE  /\ s2.includedTxBlocks[x] # Zero
             /\ \E j \in q[s2.includedTxBlocks[x]] :
                   BlockTxs(s2.includedTxBlocks[x])[j] = x
  <2>1. x \in Included(s) /\ x # t /\ s2.includedTxBlocks[x] = s.includedTxBlocks[x]
    BY <1>1 DEF Included
  <2> DEFINE b == s.includedTxBlocks[x]
  <2>2. b # Zero /\ \E j \in p[b] : BlockTxs(b)[j] = x  BY <2>1 DEF RecordedAt
  <2>3. b \in Block \ {Zero}  BY <2>1, <2>2 DEF Included
  <2> QED  BY <2>1, <2>2, <2>3
<1> QED  BY <1>2, <1>3 DEF RecordedAt

\* Advancing over the tx at position i of block a adds that position.
LEMMA RecordedAdvance ==
  ASSUME NEW s, NEW s2, NEW p, NEW q,
         s.includedTxBlocks \in [Tx -> Block \cup {NoBlock}],
         NEW a \in Block \ {Zero}, NEW i \in DOMAIN BlockTxs(a),
         s.includedTxBlocks[BlockTxs(a)[i]] = NoBlock,
         s2.includedTxBlocks = [s.includedTxBlocks EXCEPT ![BlockTxs(a)[i]] = a],
         \A b \in Block \ {Zero} : q[b] = IF b = a THEN p[a] \cup {i} ELSE p[b],
         RecordedAt(s, p)
  PROVE  RecordedAt(s2, q)
<1> DEFINE t == BlockTxs(a)[i]
<1>1. t \in Tx /\ a # NoBlock
  BY BlockFacts, SeqElements, EntitiesAssumption
<1>2. ASSUME NEW b \in Block \ {Zero}, NEW j \in p[b]
      PROVE  /\ j \in DOMAIN BlockTxs(b) /\ BlockTxs(b)[j] # t
             /\ s2.includedTxBlocks[BlockTxs(b)[j]] = b
             /\ \A m \in p[b] : BlockTxs(b)[j] = BlockTxs(b)[m] => j = m
  <2>1. /\ j \in DOMAIN BlockTxs(b) /\ s.includedTxBlocks[BlockTxs(b)[j]] = b
        /\ \A m \in p[b] : BlockTxs(b)[j] = BlockTxs(b)[m] => j = m
    BY <1>2 DEF RecordedAt
  <2>2. BlockTxs(b)[j] # t  BY <2>1, EntitiesAssumption
  <2>3. BlockTxs(b)[j] \in Tx  BY <2>1, BlockFacts, SeqElements
  <2> QED  BY <2>1, <2>2, <2>3
<1>3. ASSUME NEW b \in Block \ {Zero}, NEW j \in q[b]
      PROVE  /\ j \in DOMAIN BlockTxs(b) /\ s2.includedTxBlocks[BlockTxs(b)[j]] = b
             /\ \A m \in q[b] : BlockTxs(b)[j] = BlockTxs(b)[m] => j = m
  <2>1. CASE b # a  BY <2>1, <1>2, <1>3
  <2>2. CASE b = a /\ j = i
    <3>1. \A m \in p[a] : BlockTxs(a)[m] # t  BY <1>2
    <3>2. s2.includedTxBlocks[t] = a  BY <1>1
    <3> QED  BY <2>2, <3>1, <3>2
  <2>3. CASE b = a /\ j # i
    BY <2>3, <1>2, <1>3
  <2> QED  BY <2>1, <2>2, <2>3
<1>4. ASSUME NEW x \in Included(s2)
      PROVE  /\ s2.includedTxBlocks[x] # Zero
             /\ \E j \in q[s2.includedTxBlocks[x]] :
                   BlockTxs(s2.includedTxBlocks[x])[j] = x
  <2>1. CASE x = t
    <3>1. s2.includedTxBlocks[x] = a /\ i \in q[a]  BY <2>1, <1>1
    <3> QED  BY <2>1, <3>1
  <2>2. CASE x # t
    <3>1. x \in Included(s) /\ s2.includedTxBlocks[x] = s.includedTxBlocks[x]
      BY <2>2, <1>1 DEF Included
    <3> DEFINE b == s.includedTxBlocks[x]
    <3>2. b # Zero /\ \E j \in p[b] : BlockTxs(b)[j] = x  BY <3>1 DEF RecordedAt
    <3>3. b \in Block \ {Zero}  BY <3>1, <3>2 DEF Included
    <3> QED  BY <3>1, <3>2, <3>3
  <2> QED  BY <2>1, <2>2
<1> QED  BY <1>3, <1>4 DEF RecordedAt

\* It depends on the positions alone, however they are written.
LEMMA RecordedMoved ==
  ASSUME NEW s, NEW s2, NEW p, NEW q, s2.includedTxBlocks = s.includedTxBlocks,
         \A b \in Block \ {Zero} : q[b] = p[b],
         RecordedAt(s, p), Included(s) \subseteq Tx,
         s.includedTxBlocks \in [Tx -> Block \cup {NoBlock}]
  PROVE  RecordedAt(s2, q)
<1>1. \A t \in Included(s) : s.includedTxBlocks[t] \in Block \ {Zero}
  BY DEF RecordedAt, Included
<1> QED  BY <1>1 DEF RecordedAt, Included

LEMMA InitOK == Init => IInv
<1> SUFFICES ASSUME Init  PROVE IInv
  OBVIOUS
<1> USE DEF Init
<1>1. TypeOK
  <2>1. NoEvent \in CandidateHeadEvent
    BY EntitiesAssumption DEF NoEvent, CandidateHeadEvent
  <2>2. InventoryTypeOK
    BY EntitiesAssumption DEF InventoryInit, EmptyBlocks, InventoryTypeOK, BlockInfo
  <2>3. EmptyState \in State  BY EmptyStateOK DEF LedgerOK
  <2> QED  BY <2>1, <2>2, <2>3, EntitiesAssumption, ChainAssumption DEF TypeOK
<1>2. InventoryOK
  BY <1>1 DEF TypeOK, InventoryInit, InventoryOK, TxsClosed, MerklesClosed, BlocksClosed,
              EmptyBlocks
<1>3. StateOK
  <2>1. HasBlock(Zero)  BY DEF InventoryInit, EmptyBlocks, HasBlock
  <2>2. FromInventory(st)  BY EmptyStateOK DEF FromInventory, InventoryInit
  <2> QED  BY <2>1, <2>2, EmptyStateOK, RecordedEmpty DEF StateOK
<1>4. CopyOK  BY EmptyStateOK DEF CopyOK
<1> QED  BY <1>1, <1>2, <1>3, <1>4 DEF IInv

-----------------------------------------------------------------------------
(* What an action leaves alone *)

\* The state's part holds as long as state, inventory and restarts do.
LEMMA StateKept ==
  ASSUME StateOK, UNCHANGED <<invVars, st, restarts>>
  PROVE  StateOK'
BY DEF StateOK, FromInventory, HasBlock, invVars

LEMMA InventoryKept ==
  ASSUME InventoryOK, UNCHANGED invVars
  PROVE  InventoryOK'
BY DEF InventoryOK, InventoryTypeOK, TxsClosed, MerklesClosed, BlocksClosed, invVars,
       HasBlock, Height

\* handleCandidateHead's return, and any step outside the rewind and the advance.
LEMMA CopyIdle ==
  ASSUME LedgerOK(ns'), pc' \notin {"rewind", "advance"}
  PROVE  CopyOK'
BY DEF CopyOK

LEMMA ReturnFacts ==
  ASSUME Return
  PROVE  /\ CopyOK' /\ ns' \in State /\ pc' = "select" /\ ev' \in CandidateHeadEvent
         /\ lcaId' \in Block /\ k' \in Nat \ {0}
<1>1. NoEvent \in CandidateHeadEvent
  BY EntitiesAssumption DEF NoEvent, CandidateHeadEvent
<1> QED  BY <1>1, EmptyStateOK, CopyIdle, EntitiesAssumption DEF Return, LedgerOK

\* A published target is for the head of the state it is made from.
LEMMA TargetTyped ==
  ASSUME PublishTarget, target.head \in Block, st'.head \in Block
  PROVE  target'.head \in Block
BY DEF PublishTarget, MiningTargets

-----------------------------------------------------------------------------
(* Storing entities *)

\* A verified tx refers to outputs of known txs.
LEMMA StoreTxOK ==
  ASSUME InventoryOK, NEW t \in Tx, VerifyTx(t), StoreTx(t), UNCHANGED <<merkles, blocks>>
  PROVE  InventoryOK'
<1>1. InventoryTypeOK'
  BY DEF InventoryOK, InventoryTypeOK, StoreTx
<1>2. \A u \in Consumed(t) : u.txId \in txs /\ u \in Created(u.txId)
  BY DEF Consumed, VerifyTx
<1>3. TxsClosed'  BY <1>2 DEF InventoryOK, TxsClosed, StoreTx
<1>4. MerklesClosed'  BY DEF InventoryOK, MerklesClosed, StoreTx
<1>5. BlocksClosed'  BY DEF InventoryOK, BlocksClosed, HasBlock, Height
<1> QED  BY <1>1, <1>3, <1>4, <1>5 DEF InventoryOK

\* A verified merkle's leaves are known: its children are stored or are txs.
LEMMA StoreMerkleOK ==
  ASSUME InventoryOK, NEW m \in Merkle, VerifyMerkle(m), StoreMerkle(m),
         UNCHANGED <<txs, blocks>>
  PROVE  InventoryOK'
<1>1. InventoryTypeOK'
  BY DEF InventoryOK, InventoryTypeOK, StoreMerkle
<1>2. ASSUME NEW id, HasEntity(id)  PROVE LeafSet(id) \subseteq txs
  <2>1. CASE id \in txs
    BY <2>1 DEF LeafSet, InventoryOK, InventoryTypeOK
  <2>2. CASE id \in merkles
    BY <2>2 DEF InventoryOK, MerklesClosed
  <2> QED  BY <1>2, <2>1, <2>2 DEF HasEntity
<1>3. LeafSet(m) = LeafSet(MerkleOf[m].l) \cup LeafSet(MerkleOf[m].r)
  BY EntitiesAssumption, LeavesAssumption DEF LeafSet
<1>4. LeafSet(m) \subseteq txs  BY <1>2, <1>3 DEF VerifyMerkle
<1>5. MerklesClosed'  BY <1>4 DEF InventoryOK, MerklesClosed, StoreMerkle
<1>6. TxsClosed' /\ BlocksClosed'
  BY DEF InventoryOK, TxsClosed, BlocksClosed, StoreMerkle, HasBlock, Height
<1> QED  BY <1>1, <1>5, <1>6 DEF InventoryOK

\* A verified block extends a known one, whose record does not change.
LEMMA StoreBlockOK ==
  ASSUME InventoryOK, NEW b \in Block \ {Zero}, ~HasBlock(b), VerifyBlock(b),
         StoreBlock(b), UNCHANGED <<txs, merkles>>
  PROVE  /\ InventoryOK'
         /\ \A x \in DOMAIN blocks : x \in DOMAIN blocks' /\ blocks'[x] = blocks[x]
<1> DEFINE prev == BlockOf[b].prev
           info == [height |-> Height(prev) + 1,
                    totalWork |-> TotalWork(prev) + BlockOf[b].work]
<1>1. prev \in DOMAIN blocks /\ BlockOf[b].merkleRoot \in merkles
  BY DEF VerifyBlock, HasBlock
<1>2. Height(prev) \in Nat /\ TotalWork(prev) \in Nat  BY <1>1, KnownBlockFacts
<1>3. BlockOf[b].work \in Nat  BY EntitiesAssumption DEF BlockRecord
<1>4. info \in BlockInfo  BY <1>2, <1>3 DEF BlockInfo
<1>5. blocks' = [x \in DOMAIN blocks \cup {b} |-> IF x = b THEN info ELSE blocks[x]]
  BY DEF StoreBlock
<1>6. info.height = Height(prev) + 1  OBVIOUS
<1> HIDE DEF info, prev
<1>7. b \notin DOMAIN blocks  BY DEF HasBlock
<1>8. DOMAIN blocks' = DOMAIN blocks \cup {b} /\ blocks'[b] = info
      /\ \A x \in DOMAIN blocks : blocks'[x] = blocks[x]
  BY <1>5, <1>7
<1>9. InventoryTypeOK'
  BY <1>4, <1>8 DEF InventoryOK, InventoryTypeOK
<1>10. TxsClosed' /\ MerklesClosed'
  BY DEF InventoryOK, TxsClosed, MerklesClosed
<1>11. BlocksClosed'
  <2>1. blocks'[Zero] = EmptyBlocks[Zero]
    BY <1>8 DEF InventoryOK, InventoryTypeOK, BlocksClosed
  <2>2. ASSUME NEW x \in DOMAIN blocks' \ {Zero}
        PROVE  /\ BlockOf[x].merkleRoot \in merkles'
               /\ BlockOf[x].prev \in DOMAIN blocks'
               /\ blocks'[x].height = blocks'[BlockOf[x].prev].height + 1
    <3>1. CASE x = b
      BY <3>1, <1>1, <1>6, <1>8 DEF prev, Height
    <3>2. CASE x # b
      <4>1. x \in DOMAIN blocks \ {Zero}  BY <3>2, <1>8
      <4>2. /\ BlockOf[x].merkleRoot \in merkles /\ BlockOf[x].prev \in DOMAIN blocks
            /\ blocks[x].height = blocks[BlockOf[x].prev].height + 1
        BY <4>1 DEF InventoryOK, BlocksClosed, HasBlock, Height
      <4> QED  BY <4>1, <4>2, <1>8
    <3> QED  BY <3>1, <3>2
  <2> QED  BY <2>1, <2>2 DEF BlocksClosed, HasBlock, Height
<1> QED  BY <1>8, <1>9, <1>10, <1>11 DEF InventoryOK

-----------------------------------------------------------------------------
(* Events and storing: the copy is idle *)

LEMMA ReceiveHeadOK ==
  ASSUME IInv, NEW e \in CandidateHeads, ReceiveHead(e)
  PROVE  IInv'
<1> USE DEF IInv, ReceiveHead
<1>1. InventoryOK' /\ StateOK'  BY InventoryKept, StateKept
<1>2. CopyOK'  BY CopyIdle DEF CopyOK
<1>3. TypeOK'
  BY <1>1, ChainAssumption DEF TypeOK, InventoryOK
<1> QED  BY <1>1, <1>2, <1>3

LEMMA ReceiveSavedHeadOK ==
  ASSUME IInv, ReceiveSavedHead
  PROVE  IInv'
<1> USE DEF IInv, ReceiveSavedHead
<1>1. InventoryOK' /\ StateOK'  BY InventoryKept, StateKept
<1>2. CopyOK'  BY CopyIdle DEF CopyOK
<1>3. TypeOK'  BY <1>1 DEF TypeOK, InventoryOK
<1> QED  BY <1>1, <1>2, <1>3

\* A new tx enters the inventory and the mempool together.
LEMMA EnterTxOK ==
  ASSUME InventoryOK, StateOK, NEW t \in Tx \ txs, VerifyTx(t), StoreTx(t),
         st' = AddMempoolTx(st, t), UNCHANGED <<merkles, blocks, restarts>>
  PROVE  InventoryOK' /\ StateOK' /\ st' \in State /\ st'.head = st.head
         /\ Included(st') = Included(st)
<1>1. InventoryOK'  BY StoreTxOK
<1>2. t \notin Included(st)  BY DEF StateOK, FromInventory
<1>3. /\ LedgerOK(st') /\ st'.head = st.head /\ st'.mempool = st.mempool \cup {t}
      /\ st'.includedTxBlocks = st.includedTxBlocks /\ Included(st') = Included(st)
  BY <1>2, AddMempoolTxOK DEF StateOK
<1>4. FromInventory(st)'  BY <1>3 DEF StateOK, FromInventory, StoreTx
<1>5. RecordedAt(st', WholeChain(st'.head))
  BY <1>3, RecordedSame DEF StateOK
<1>6. HasBlock(st.head)'  BY <1>3 DEF StateOK, HasBlock
<1> QED  BY <1>1, <1>3, <1>4, <1>5, <1>6, LedgerFields DEF StateOK

LEMMA HandleCandidateTxOK ==
  ASSUME IInv, NEW t \in CandidateTxs, HandleCandidateTx(t)
  PROVE  IInv'
<1> USE DEF IInv, HandleCandidateTx
<1>1. t \in Tx \ txs  BY ChainAssumption
<1>2. InventoryOK' /\ StateOK' /\ st' \in State /\ st'.head = st.head
  BY <1>1, EnterTxOK
<1>3. CopyOK'  BY CopyIdle DEF CopyOK
<1>4. target'.head \in Block
  BY <1>2, TargetTyped DEF TypeOK, State
<1>5. TypeOK'  BY <1>1, <1>2, <1>4 DEF TypeOK, InventoryOK
<1> QED  BY <1>2, <1>3, <1>5

\* What is left of a candidate head's lists is still a candidate head.
LEMMA EventTails ==
  ASSUME NEW e \in CandidateHeadEvent
  PROVE  /\ e.txs # <<>> => /\ Head(e.txs) \in Tx
                            /\ [e EXCEPT !.txs = Tail(@)] \in CandidateHeadEvent
         /\ e.merkles # <<>> => /\ Head(e.merkles) \in Merkle
                                /\ [e EXCEPT !.merkles = Tail(@)] \in CandidateHeadEvent
         /\ e.blocks # <<>> => /\ Head(e.blocks) \in Block \ {Zero}
                               /\ [e EXCEPT !.blocks = Tail(@)] \in CandidateHeadEvent
<1>1. /\ e.txs \in Seq(Tx) /\ e.merkles \in Seq(Merkle)
      /\ e.blocks \in Seq(Block \ {Zero})
  BY DEF CandidateHeadEvent
<1>2. e.txs # <<>> => Head(e.txs) \in Tx /\ Tail(e.txs) \in Seq(Tx)
  BY <1>1
<1>3. e.merkles # <<>> => Head(e.merkles) \in Merkle /\ Tail(e.merkles) \in Seq(Merkle)
  BY <1>1
<1>4. e.blocks # <<>> =>
        Head(e.blocks) \in Block \ {Zero} /\ Tail(e.blocks) \in Seq(Block \ {Zero})
  BY <1>1
<1> QED  BY <1>2, <1>3, <1>4 DEF CandidateHeadEvent

LEMMA StoreNextTxOK ==
  ASSUME IInv, StoreNextTx
  PROVE  IInv'
<1> DEFINE t == Head(ev.txs)
<1> USE DEF IInv, StoreNextTx
<1>0. t \in Tx /\ [ev EXCEPT !.txs = Tail(@)] \in CandidateHeadEvent
  BY EventTails DEF TypeOK
<1>1. CASE t \notin txs /\ ~VerifyTx(t)
  <2>1. Return /\ UNCHANGED <<txs, st>>  BY <1>1
  <2>2. InventoryOK' /\ StateOK'
    BY <2>1, InventoryKept, StateKept DEF invVars
  <2>3. TypeOK'  BY <2>1, <2>2, ReturnFacts DEF TypeOK, InventoryOK
  <2> QED  BY <2>1, <2>2, <2>3, ReturnFacts
<1>2. CASE t \in txs
  <2>1. UNCHANGED <<invVars, st, ns, pc, restarts, lcaId, k, headFile, target, announced>>
        /\ ev' = [ev EXCEPT !.txs = Tail(@)]
    BY <1>2 DEF invVars
  <2>2. InventoryOK' /\ StateOK'  BY <2>1, InventoryKept, StateKept
  <2>3. CopyOK'  BY <2>1, CopyIdle DEF CopyOK
  <2>4. TypeOK'  BY <1>0, <2>1, <2>2 DEF TypeOK, InventoryOK
  <2> QED  BY <2>2, <2>3, <2>4
<1>3. CASE t \notin txs /\ VerifyTx(t)
  <2>1. /\ StoreTx(t) /\ st' = AddMempoolTx(st, t)
        /\ UNCHANGED <<merkles, blocks, ns, pc, restarts, lcaId, k, headFile, target, announced>>
        /\ ev' = [ev EXCEPT !.txs = Tail(@)]
    BY <1>3
  <2>2. InventoryOK' /\ StateOK' /\ st' \in State
    BY <1>0, <1>3, <2>1, EnterTxOK
  <2>3. CopyOK'  BY <2>1, CopyIdle DEF CopyOK
  <2>4. TypeOK'  BY <1>0, <2>1, <2>2 DEF TypeOK, InventoryOK
  <2> QED  BY <2>2, <2>3, <2>4
<1> QED  BY <1>1, <1>2, <1>3

LEMMA StoreNextMerkleOK ==
  ASSUME IInv, StoreNextMerkle
  PROVE  IInv'
<1> DEFINE m == Head(ev.merkles)
<1> USE DEF IInv, StoreNextMerkle
<1>0. m \in Merkle /\ [ev EXCEPT !.merkles = Tail(@)] \in CandidateHeadEvent
  BY EventTails DEF TypeOK
<1>1. StateOK'  BY DEF StateOK, FromInventory, HasBlock
<1>2. CASE m \notin merkles /\ ~VerifyMerkle(m)
  <2>1. Return /\ UNCHANGED merkles  BY <1>2
  <2>2. InventoryOK'  BY <2>1, InventoryKept DEF invVars
  <2>3. TypeOK'  BY <2>1, <2>2, ReturnFacts DEF TypeOK, InventoryOK
  <2> QED  BY <1>1, <2>1, <2>2, <2>3, ReturnFacts
<1>3. CASE m \in merkles \/ VerifyMerkle(m)
  <2>1. /\ IF m \in merkles THEN UNCHANGED merkles ELSE StoreMerkle(m)
        /\ UNCHANGED <<txs, blocks, st, ns, pc, lcaId, k, headFile, target, announced, restarts>>
        /\ ev' = [ev EXCEPT !.merkles = Tail(@)]
    BY <1>3
  <2>2. InventoryOK'
    BY <1>0, <1>3, <2>1, StoreMerkleOK, InventoryKept DEF invVars
  <2>3. CopyOK'  BY <2>1, CopyIdle DEF CopyOK
  <2>4. TypeOK'  BY <1>0, <2>1, <2>2 DEF TypeOK, InventoryOK
  <2> QED  BY <1>1, <2>2, <2>3, <2>4
<1> QED  BY <1>2, <1>3

LEMMA StoreNextBlockOK ==
  ASSUME IInv, StoreNextBlock
  PROVE  IInv'
<1> DEFINE b == Head(ev.blocks)
<1> USE DEF IInv, StoreNextBlock
<1>0. b \in Block \ {Zero} /\ [ev EXCEPT !.blocks = Tail(@)] \in CandidateHeadEvent
  BY EventTails DEF TypeOK
<1>1. CASE ~HasBlock(b) /\ ~VerifyBlock(b)
  <2>1. Return /\ UNCHANGED blocks  BY <1>1
  <2>2. InventoryOK' /\ StateOK'
    BY <2>1, InventoryKept, StateKept DEF invVars
  <2>3. TypeOK'  BY <2>1, <2>2, ReturnFacts DEF TypeOK, InventoryOK
  <2> QED  BY <2>1, <2>2, <2>3, ReturnFacts
<1>2. CASE HasBlock(b) \/ VerifyBlock(b)
  <2>1. /\ IF HasBlock(b) THEN UNCHANGED blocks ELSE StoreBlock(b)
        /\ UNCHANGED <<txs, merkles, st, ns, pc, lcaId, k, headFile, target, announced, restarts>>
        /\ ev' = [ev EXCEPT !.blocks = Tail(@)]
    BY <1>2
  <2>2. InventoryOK' /\ \A x \in DOMAIN blocks : x \in DOMAIN blocks'
    BY <1>0, <1>2, <2>1, StoreBlockOK, InventoryKept DEF invVars
  <2>3. StateOK'  BY <2>1, <2>2 DEF StateOK, FromInventory, HasBlock
  <2>4. CopyOK'  BY <2>1, CopyIdle DEF CopyOK
  <2>5. TypeOK'  BY <1>0, <2>1, <2>2 DEF TypeOK, InventoryOK
  <2> QED  BY <2>2, <2>3, <2>4, <2>5
<1> QED  BY <1>1, <1>2

-----------------------------------------------------------------------------
(* Comparing work and rewinding *)

\* What the invariant says of the copy while it is worked on.
LEMMA WorkFacts ==
  ASSUME IInv, pc \in {"rewind", "advance"}
  PROVE  /\ LedgerOK(ns) /\ FromInventory(ns) /\ HasMoreWork(ev.head)
         /\ ns.head \in DOMAIN blocks /\ ns.head \in Block
         /\ ev.head \in DOMAIN blocks /\ ev.head \in Block
         /\ ns.includedTxBlocks \in [Tx -> Block \cup {NoBlock}]
         /\ Included(ns) \subseteq Tx
<1>1. /\ LedgerOK(ns) /\ FromInventory(ns) /\ HasMoreWork(ev.head)
      /\ ns.head \in DOMAIN blocks
  BY DEF IInv, CopyOK, HasBlock
<1>2. ev.head \in DOMAIN blocks  BY <1>1 DEF HasMoreWork, HasBlock
<1> QED  BY <1>1, <1>2, LedgerFields, KnownBlockFacts DEF IInv

\* Steps that touch nothing but the copy.
LEMMA CopyStep ==
  ASSUME IInv, UNCHANGED <<invVars, st, headFile, target, announced, restarts>>,
         ns' \in State, pc' \in {"select", "load", "store", "rewind", "advance", "panicked"},
         ev' \in CandidateHeadEvent, lcaId' \in Block, k' \in Nat \ {0}, CopyOK'
  PROVE  IInv'
<1>1. InventoryOK' /\ StateOK'
  BY InventoryKept, StateKept DEF IInv
<1> QED  BY <1>1 DEF IInv, TypeOK, InventoryOK

LEMMA CompareWorkOK ==
  ASSUME IInv, CompareWork
  PROVE  IInv'
<1> USE DEF CompareWork
<1>1. CASE ~HasMoreWork(ev.head)
  <2>1. Return  BY <1>1
  <2> QED  BY <2>1, ReturnFacts, CopyStep
<1>2. CASE HasMoreWork(ev.head)
  <2>1. /\ pc' = "rewind" /\ ns' = st /\ k' = 1
        /\ lcaId' = GetBlockLCA(st.head, ev.head)
        /\ UNCHANGED ev
    BY <1>2
  <2>2. /\ st.head \in DOMAIN blocks /\ LedgerOK(st) /\ FromInventory(st)
        /\ RecordedAt(st, WholeChain(st.head))
    BY DEF IInv, StateOK, HasBlock
  <2>3. ev.head \in DOMAIN blocks  BY <1>2 DEF HasMoreWork, HasBlock
  <2>4. lcaId' \in Ancestors[st.head] /\ lcaId' \in Ancestors[ev.head]
    BY <2>1, <2>2, <2>3, LCAFacts DEF IInv
  <2>5. \A a \in Block \ {Zero} : Rewinding'[a] = WholeChain(st.head)[a]
    <3>1. ASSUME NEW a \in Block \ {Zero}, NEW i \in WholeChain(st.head)[a]  PROVE i >= 1
      <4>1. i \in DOMAIN BlockTxs(a)  BY <3>1 DEF WholeChain
      <4> QED  BY <4>1, BlockFacts, SeqElements
    <3> QED  BY <2>1, <3>1 DEF Rewinding
  <2>6. RecordedAt(ns', Rewinding')
    BY <2>1, <2>2, <2>5, RecordedMoved, LedgerFields
  <2>7. FromInventory(ns)' /\ HasMoreWork(ev.head)' /\ HasBlock(ns.head)'
    BY <1>2, <2>1, <2>2 DEF FromInventory, HasMoreWork, HasBlock, TotalWork, invVars
  <2>8. CopyOK'
    BY <2>1, <2>2, <2>4, <2>6, <2>7 DEF CopyOK
  <2>9. lcaId' \in Block
    BY <2>2, <2>4, AncestorsKnown, KnownBlockFacts DEF IInv
  <2> QED  BY <2>1, <2>2, <2>8, <2>9, CopyStep, LedgerFields DEF IInv, TypeOK
<1> QED  BY <1>1, <1>2

LEMMA RewindNextTxOK ==
  ASSUME IInv, RewindNextTx
  PROVE  IInv'
<1> DEFINE t == BlockTxs(ns.head)[k]
<1>0. /\ pc = "rewind" /\ ns.head # lcaId /\ k <= Len(BlockTxs(ns.head))
      /\ UNCHANGED <<invVars, st, ev, lcaId, headFile, target, announced, restarts>>
      /\ ns \in State /\ ev \in CandidateHeadEvent /\ lcaId \in Block /\ k \in Nat \ {0}
  BY DEF RewindNextTx, IInv, TypeOK
<1>1. CASE RewindTxPanics(ns, t)
  <2>1. pc' = "panicked" /\ UNCHANGED <<ns, k>>  BY <1>1 DEF RewindNextTx
  <2>2. CopyOK'  BY <2>1, CopyIdle DEF IInv, CopyOK
  <2> QED  BY <1>0, <2>1, <2>2, CopyStep
<1>2. CASE ~RewindTxPanics(ns, t)
  <2>1. ns' = RewindTx(ns, t) /\ k' = k + 1 /\ pc' = "rewind"
    BY <1>0, <1>2 DEF RewindNextTx
  <2>2. /\ LedgerOK(ns) /\ FromInventory(ns) /\ HasMoreWork(ev.head)
        /\ ns.head \in DOMAIN blocks /\ ns.head \in Block
        /\ ns.includedTxBlocks \in [Tx -> Block \cup {NoBlock}]
    BY <1>0, WorkFacts
  <2>3. /\ lcaId \in Ancestors[ns.head] /\ lcaId \in Ancestors[ev.head]
        /\ RecordedAt(ns, Rewinding)
    BY <1>0 DEF IInv, CopyOK
  <2>4. ns.head \in Block \ {Zero}
    BY <1>0, <2>2, <2>3, AncestorsOfZero
  <2>5. k \in Rewinding[ns.head]
    <3>1. k \in DOMAIN BlockTxs(ns.head)  BY <1>0, <2>4, BlockFacts, SeqElements
    <3>2. ns.head \in Ancestors[ns.head]  BY <2>2, AncestorsClosed
    <3> QED  BY <1>0, <2>4, <3>1, <3>2 DEF Rewinding, WholeChain
  <2>6. t \in Included(ns)
    <3>1. ns.includedTxBlocks[t] = ns.head /\ t \in Tx
      BY <2>3, <2>4, <2>5, BlockFacts, SeqElements DEF RecordedAt
    <3> QED  BY <2>2, <3>1, EntitiesAssumption DEF Included
  <2>7. /\ LedgerOK(ns') /\ ns'.head = ns.head /\ ns'.mempool = ns.mempool \cup {t}
        /\ ns'.includedTxBlocks = [ns.includedTxBlocks EXCEPT ![t] = NoBlock]
        /\ Included(ns') = Included(ns) \ {t}
    BY <1>2, <2>1, <2>2, <2>6, RewindTxOK
  <2>8. \A a \in Block \ {Zero} : Rewinding'[a] =
           IF a = ns.head THEN Rewinding[ns.head] \ {k} ELSE Rewinding[a]
    <3>1. ASSUME NEW i \in WholeChain(ns.head)[ns.head]
          PROVE  i >= k + 1 <=> i >= k /\ i # k
      <4>1. i \in Nat
        BY <3>1, <2>4, BlockFacts, SeqElements DEF WholeChain
      <4> QED  BY <4>1, <1>0
    <3> QED  BY <2>1, <2>4, <2>7, <3>1 DEF Rewinding
  <2>9. RecordedAt(ns', Rewinding')
    BY <2>2, <2>3, <2>4, <2>5, <2>7, <2>8, RecordedRewind
  <2>10. FromInventory(ns)' /\ HasMoreWork(ev.head)' /\ HasBlock(ns.head)'
    BY <1>0, <2>2, <2>6, <2>7 DEF FromInventory, HasMoreWork, HasBlock, TotalWork, invVars
  <2>11. CopyOK'
    BY <1>0, <2>1, <2>3, <2>7, <2>9, <2>10 DEF CopyOK
  <2> QED  BY <1>0, <2>1, <2>7, <2>11, CopyStep, LedgerFields
<1> QED  BY <1>1, <1>2

LEMMA RewindBlockOK ==
  ASSUME IInv, RewindBlock
  PROVE  IInv'
<1> DEFINE h == ns.head
           prev == BlockOf[h].prev
<1>0. /\ pc = "rewind" /\ h # lcaId /\ k > Len(BlockTxs(h))
      /\ ns' = [ns EXCEPT !.head = prev] /\ k' = 1
      /\ UNCHANGED <<invVars, st, pc, ev, lcaId, headFile, target, announced, restarts>>
      /\ ns \in State /\ ev \in CandidateHeadEvent /\ lcaId \in Block /\ k \in Nat \ {0}
  BY DEF RewindBlock, IInv, TypeOK
<1>1. /\ LedgerOK(ns) /\ FromInventory(ns) /\ HasMoreWork(ev.head)
      /\ h \in DOMAIN blocks /\ h \in Block /\ Included(ns) \subseteq Tx
      /\ ns.includedTxBlocks \in [Tx -> Block \cup {NoBlock}]
  BY <1>0, WorkFacts
<1>2. /\ lcaId \in Ancestors[h] /\ lcaId \in Ancestors[ev.head]
      /\ RecordedAt(ns, Rewinding)
  BY <1>0 DEF IInv, CopyOK
<1>3. h \in Block \ {Zero}  BY <1>0, <1>1, <1>2, AncestorsOfZero
<1>4. prev \in DOMAIN blocks /\ prev \in Block
  BY <1>1, <1>3, KnownBlockFacts DEF IInv, HasBlock
<1>5. Ancestors[h] = {h} \cup Ancestors[prev] /\ h \notin Ancestors[prev]
  BY <1>1, <1>3, AncestorsStep, NotOwnAncestor DEF IInv
<1>6. /\ LedgerOK(ns') /\ ns'.head = prev /\ ns'.mempool = ns.mempool
      /\ ns'.includedTxBlocks = ns.includedTxBlocks /\ Included(ns') = Included(ns)
  BY <1>0, <1>1, <1>4, MoveHeadOK
<1>7. ASSUME NEW a \in Block \ {Zero}  PROVE Rewinding'[a] = Rewinding[a]
  <2>1. \A i \in DOMAIN BlockTxs(a) : i \in Nat /\ i >= 1 /\ i <= Len(BlockTxs(a))
    BY BlockFacts, SeqElements
  <2>2. Rewinding'[a] = WholeChain(prev)[a]
    <3>1. \A i \in WholeChain(prev)[a] : i >= 1  BY <2>1 DEF WholeChain
    <3> QED  BY <1>0, <1>6, <3>1 DEF Rewinding
  <2>3. CASE a = h
    <3>1. WholeChain(prev)[a] = {}  BY <2>3, <1>5 DEF WholeChain
    <3>2. \A i \in DOMAIN BlockTxs(a) : ~(i >= k)
      BY <2>1, <2>3, <1>0, BlockFacts, SeqElements
    <3>3. Rewinding[a] = {}  BY <2>3, <3>2 DEF Rewinding, WholeChain
    <3> QED  BY <2>2, <3>1, <3>3
  <2>4. CASE a # h
    <3>1. WholeChain(prev)[a] = WholeChain(h)[a]  BY <2>4, <1>5 DEF WholeChain
    <3>2. Rewinding[a] = WholeChain(h)[a]  BY <2>4 DEF Rewinding
    <3> QED  BY <2>2, <3>1, <3>2
  <2> QED  BY <2>3, <2>4
<1>8. RecordedAt(ns', Rewinding')
  BY <1>1, <1>2, <1>6, <1>7, RecordedMoved
<1>9. FromInventory(ns)' /\ HasMoreWork(ev.head)' /\ HasBlock(ns.head)'
  BY <1>0, <1>1, <1>4, <1>6 DEF FromInventory, HasMoreWork, HasBlock, TotalWork, invVars
<1>10. CopyOK'
  BY <1>0, <1>2, <1>5, <1>6, <1>8, <1>9 DEF CopyOK
<1> QED  BY <1>0, <1>6, <1>10, CopyStep, LedgerFields DEF IInv, TypeOK

\* With nothing left to rewind, the chain is whole, and none of the next block is in place.
LEMMA RewindDonePlaces ==
  ASSUME IInv, RewindDone
  PROVE  \A a \in Block \ {Zero} :
            /\ Rewinding[a] = WholeChain(ns.head)[a]
            /\ Advancing'[a] = WholeChain(ns.head)[a]
<1>1. /\ pc = "rewind" /\ ns.head = lcaId /\ UNCHANGED <<ns, ev, k>>
      /\ lcaId \in Ancestors[ev.head] /\ k = 1
      /\ ev.head \in DOMAIN blocks /\ InventoryOK
  BY WorkFacts DEF RewindDone, IInv, CopyOK
<1>2. ns.head # ev.head =>
        NextBlock \in Block \ {Zero} /\ NextBlock \notin Ancestors[ns.head]
  BY <1>1, ChildTowardsFacts DEF NextBlock
<1> SUFFICES ASSUME NEW a \in Block \ {Zero}
             PROVE  /\ Rewinding[a] = WholeChain(ns.head)[a]
                    /\ Advancing'[a] = WholeChain(ns.head)[a]
  OBVIOUS
<1>3. \A i \in DOMAIN BlockTxs(a) : i >= 1  BY BlockFacts, SeqElements
<1>4. Rewinding[a] = WholeChain(ns.head)[a]
  BY <1>1, <1>3 DEF Rewinding, WholeChain
<1>5. Advancing' = Advancing  BY <1>1 DEF Advancing, NextBlock
<1>6. Advancing[a] = WholeChain(ns.head)[a]
  BY <1>1, <1>2 DEF Advancing, WholeChain
<1> QED  BY <1>4, <1>5, <1>6

LEMMA RewindDoneOK ==
  ASSUME IInv, RewindDone
  PROVE  IInv'
<1>0. /\ pc = "rewind" /\ ns.head = lcaId /\ pc' = "advance"
      /\ UNCHANGED <<invVars, st, ns, ev, lcaId, k, headFile, target, announced, restarts>>
      /\ ns \in State /\ ev \in CandidateHeadEvent /\ lcaId \in Block /\ k \in Nat \ {0}
  BY DEF RewindDone, IInv, TypeOK
<1>1. /\ LedgerOK(ns) /\ FromInventory(ns) /\ HasMoreWork(ev.head)
      /\ ns.head \in DOMAIN blocks /\ ns.head \in Block /\ Included(ns) \subseteq Tx
      /\ ev.head \in DOMAIN blocks /\ ev.head \in Block
      /\ ns.includedTxBlocks \in [Tx -> Block \cup {NoBlock}]
  BY <1>0, WorkFacts
<1>2. /\ lcaId \in Ancestors[ev.head] /\ k = 1 /\ RecordedAt(ns, Rewinding)
  BY <1>0 DEF IInv, CopyOK
<1>3. ns.head # ev.head => Len(BlockTxs(NextBlock)) \in Nat
  <2>1. ns.head # ev.head => ChildTowards(ns.head, ev.head) \in Block \ {Zero}
    BY <1>0, <1>1, <1>2, ChildTowardsFacts DEF IInv
  <2> QED  BY <2>1, BlockFacts, SeqElements DEF NextBlock
<1>4. \A a \in Block \ {Zero} : Advancing'[a] = Rewinding[a]  BY RewindDonePlaces
<1>5. RecordedAt(ns', Advancing')
  BY <1>0, <1>1, <1>2, <1>4, RecordedMoved
<1>6. FromInventory(ns)' /\ HasMoreWork(ev.head)' /\ HasBlock(ns.head)'
  BY <1>0, <1>1 DEF FromInventory, HasMoreWork, HasBlock, TotalWork, invVars
<1>7. (ns.head # ev.head => k \in 1..(Len(BlockTxs(NextBlock)) + 1))'
  <2>1. ns.head # ev.head => k \in 1..(Len(BlockTxs(NextBlock)) + 1)
    BY <1>2, <1>3
  <2> QED  BY <1>0, <2>1 DEF NextBlock
<1>8. CopyOK'
  BY <1>0, <1>1, <1>2, <1>5, <1>6, <1>7 DEF CopyOK
<1> QED  BY <1>0, <1>8, CopyStep

-----------------------------------------------------------------------------
(* Advancing *)

\* What the invariant says while the copy is advanced and not at the new head yet.
LEMMA AdvanceFacts ==
  ASSUME IInv, pc = "advance", ns.head # ev.head
  PROVE  /\ NextBlock \in Block \ {Zero} /\ NextBlock \in DOMAIN blocks
         /\ NextBlock \in Ancestors[ev.head]
         /\ Ancestors[NextBlock] = {NextBlock} \cup Ancestors[ns.head]
         /\ NextBlock \notin Ancestors[ns.head]
         /\ BlockTxs(NextBlock) \in Seq(Tx) /\ DOMAIN BlockTxs(NextBlock) = 1..Len(BlockTxs(NextBlock))
         /\ Len(BlockTxs(NextBlock)) \in Nat
         /\ k \in 1..(Len(BlockTxs(NextBlock)) + 1)
         /\ lcaId \in Ancestors[ev.head] /\ RecordedAt(ns, Advancing)
<1>1. ev.head \in DOMAIN blocks /\ ns.head \in Ancestors[ev.head] /\ InventoryOK
      /\ k \in 1..(Len(BlockTxs(NextBlock)) + 1)
      /\ lcaId \in Ancestors[ev.head] /\ RecordedAt(ns, Advancing)
  BY WorkFacts DEF IInv, CopyOK
<1>2. /\ NextBlock \in Block \ {Zero} /\ NextBlock \in DOMAIN blocks
      /\ NextBlock \in Ancestors[ev.head]
      /\ Ancestors[NextBlock] = {NextBlock} \cup Ancestors[ns.head]
      /\ NextBlock \notin Ancestors[ns.head]
  BY <1>1, ChildTowardsFacts DEF NextBlock
<1>3. BlockTxs(NextBlock) \in Seq(Tx)  BY <1>2, BlockFacts
<1> QED  BY <1>1, <1>2, <1>3, SeqElements

\* What an advanced tx does to the copy, to the rest of the routine and to what is in place.
LEMMA AdvanceNextTxFacts ==
  ASSUME IInv, AdvanceNextTx, CanAdvanceTx(ns, BlockTxs(NextBlock)[k], NextBlock, ev.autoAdd)
  PROVE  LET b == NextBlock
             t == BlockTxs(b)[k]
         IN
         /\ k \in DOMAIN BlockTxs(b) /\ k \in Nat \ {0} /\ t \in Tx
         /\ UNCHANGED <<pc, ev, lcaId>> /\ k' = k + 1
         /\ LedgerOK(ns') /\ ns'.head = ns.head
         /\ ns'.mempool = (ns.mempool \cup {t}) \ {t}
         /\ ns'.includedTxBlocks = [ns.includedTxBlocks EXCEPT ![t] = b]
         /\ Included(ns') = Included(ns) \cup {t}
         /\ NextBlock' = b
         /\ \A a \in Block \ {Zero} :
               Advancing'[a] = IF a = b THEN Advancing[b] \cup {k} ELSE Advancing[a]
<1> DEFINE b == NextBlock
           t == BlockTxs(b)[k]
           s1 == EnterMempool(ns, t, ev.autoAdd)
<1>1. /\ pc = "advance" /\ ns.head # ev.head /\ k <= Len(BlockTxs(b)) /\ k \in Nat \ {0}
  BY DEF AdvanceNextTx, IInv, TypeOK
<1>2. ns' = AdvanceTx(s1, t, b) /\ k' = k + 1 /\ UNCHANGED <<pc, ev, lcaId>>
  BY DEF AdvanceNextTx
<1>3. LedgerOK(ns) /\ ns.includedTxBlocks \in [Tx -> Block \cup {NoBlock}]
  BY <1>1, WorkFacts
<1>4. /\ b \in Block \ {Zero} /\ BlockTxs(b) \in Seq(Tx)
      /\ DOMAIN BlockTxs(b) = 1..Len(BlockTxs(b)) /\ Len(BlockTxs(b)) \in Nat
  BY <1>1, AdvanceFacts
<1>5. /\ t \in ns.mempool \/ ev.autoAdd
      /\ Consumed(t) \subseteq ns.utxos /\ ns.includedTxBlocks[t] = NoBlock
  BY DEF CanAdvanceTx, VerifyTxIncludable
<1>6. k \in DOMAIN BlockTxs(b) /\ t \in Tx  BY <1>1, <1>4, SeqElements
<1>7. t \in Tx \ Included(ns)  BY <1>5, <1>6 DEF Included
<1>8. /\ LedgerOK(s1) /\ s1.head = ns.head /\ s1.mempool = ns.mempool \cup {t}
      /\ s1.includedTxBlocks = ns.includedTxBlocks /\ Included(s1) = Included(ns)
      /\ s1.utxos = ns.utxos
  BY <1>3, <1>5, <1>7, EnterMempoolOK
<1> HIDE DEF s1
<1>9. /\ LedgerOK(ns') /\ ns'.head = ns.head /\ ns'.mempool = s1.mempool \ {t}
      /\ ns'.includedTxBlocks = [s1.includedTxBlocks EXCEPT ![t] = b]
      /\ Included(ns') = Included(s1) \cup {t}
  <2>1. b # NoBlock /\ t \in s1.mempool /\ Consumed(t) \subseteq s1.utxos
    BY <1>4, <1>5, <1>8, EntitiesAssumption
  <2> QED  BY <1>2, <1>4, <1>8, <2>1, AdvanceTxOK
<1>10. NextBlock' = b  BY <1>2, <1>9 DEF NextBlock
<1>11. \A a \in Block \ {Zero} : Advancing'[a] =
          IF a = b THEN Advancing[b] \cup {k} ELSE Advancing[a]
  <2>1. 1..((k + 1) - 1) = (1..(k - 1)) \cup {k}  BY <1>1
  <2> QED  BY <1>1, <1>2, <1>4, <1>9, <1>10, <2>1 DEF Advancing
<1> QED  BY <1>1, <1>2, <1>6, <1>8, <1>9, <1>10, <1>11

LEMMA AdvanceNextTxOK ==
  ASSUME IInv, AdvanceNextTx
  PROVE  IInv'
<1> DEFINE b == NextBlock
           t == BlockTxs(b)[k]
<1>0. /\ pc = "advance" /\ ns.head # ev.head /\ k <= Len(BlockTxs(b))
      /\ UNCHANGED <<invVars, st, headFile, target, announced, restarts>>
      /\ ns \in State /\ ev \in CandidateHeadEvent /\ lcaId \in Block /\ k \in Nat \ {0}
  BY DEF AdvanceNextTx, IInv, TypeOK
<1>1. CASE ~CanAdvanceTx(ns, t, b, ev.autoAdd)
  <2>1. Return  BY <1>1 DEF AdvanceNextTx
  <2> QED  BY <1>0, <2>1, ReturnFacts, CopyStep
<1>2. CASE CanAdvanceTx(ns, t, b, ev.autoAdd)
  <2>1. /\ k \in DOMAIN BlockTxs(b) /\ t \in Tx
        /\ UNCHANGED <<pc, ev, lcaId>> /\ k' = k + 1
        /\ LedgerOK(ns') /\ ns'.head = ns.head
        /\ ns'.mempool = (ns.mempool \cup {t}) \ {t}
        /\ ns'.includedTxBlocks = [ns.includedTxBlocks EXCEPT ![t] = b]
        /\ Included(ns') = Included(ns) \cup {t}
        /\ NextBlock' = b
        /\ \A a \in Block \ {Zero} :
              Advancing'[a] = IF a = b THEN Advancing[b] \cup {k} ELSE Advancing[a]
    BY <1>2, AdvanceNextTxFacts
  <2>2. /\ FromInventory(ns) /\ HasMoreWork(ev.head) /\ ns.head \in DOMAIN blocks
        /\ ns.includedTxBlocks \in [Tx -> Block \cup {NoBlock}]
    BY <1>0, WorkFacts
  <2>3. /\ b \in Block \ {Zero} /\ DOMAIN BlockTxs(b) = 1..Len(BlockTxs(b))
        /\ Len(BlockTxs(b)) \in Nat
        /\ lcaId \in Ancestors[ev.head] /\ RecordedAt(ns, Advancing)
        /\ ns.head \in Ancestors[ev.head]
    BY <1>0, AdvanceFacts DEF IInv, CopyOK
  <2>4. t \in txs /\ ns.includedTxBlocks[t] = NoBlock
    BY <1>2 DEF CanAdvanceTx, VerifyTxIncludable
  <2>5. RecordedAt(ns', Advancing')
    <3>1. ns.includedTxBlocks[BlockTxs(b)[k]] = NoBlock
          /\ ns'.includedTxBlocks = [ns.includedTxBlocks EXCEPT ![BlockTxs(b)[k]] = b]
      BY <2>1, <2>4
    <3>2. k \in DOMAIN BlockTxs(b)  BY <2>1
    <3>3. \A a \in Block \ {Zero} :
             Advancing'[a] = IF a = b THEN Advancing[b] \cup {k} ELSE Advancing[a]
      BY <2>1
    <3> HIDE DEF b
    <3> QED  BY <2>2, <2>3, <3>1, <3>2, <3>3, RecordedAdvance
  <2>6. FromInventory(ns)' /\ HasMoreWork(ev.head)' /\ HasBlock(ns.head)'
    BY <1>0, <2>1, <2>2, <2>4
       DEF FromInventory, HasMoreWork, HasBlock, TotalWork, invVars
  <2>7. k' \in 1..(Len(BlockTxs(NextBlock')) + 1)
    BY <1>0, <2>1, <2>3
  <2>8. CopyOK'
    BY <1>0, <2>1, <2>3, <2>5, <2>6, <2>7 DEF CopyOK
  <2> QED  BY <1>0, <2>1, <2>8, CopyStep, LedgerFields
<1> QED  BY <1>1, <1>2

\* A finished block joins the chain as it is in place.
LEMMA AdvanceBlockPlaces ==
  ASSUME IInv, AdvanceBlock
  PROVE  \A a \in Block \ {Zero} : Advancing'[a] = Advancing[a]
<1> DEFINE b == NextBlock
<1>0. /\ pc = "advance" /\ ns.head # ev.head /\ k > Len(BlockTxs(b))
      /\ ns' = [ns EXCEPT !.head = b] /\ k' = 1 /\ UNCHANGED ev
      /\ ns \in State /\ InventoryOK
  BY DEF AdvanceBlock, IInv, TypeOK
<1>1. ev.head \in DOMAIN blocks  BY <1>0, WorkFacts
<1>2. /\ b \in Block \ {Zero} /\ b \in DOMAIN blocks /\ b \in Ancestors[ev.head]
      /\ Ancestors[b] = {b} \cup Ancestors[ns.head] /\ b \notin Ancestors[ns.head]
      /\ DOMAIN BlockTxs(b) = 1..Len(BlockTxs(b)) /\ Len(BlockTxs(b)) \in Nat
      /\ k \in 1..(Len(BlockTxs(b)) + 1)
  BY <1>0, AdvanceFacts
<1>3. ns'.head = b  BY <1>0, <1>2 DEF State
<1>4. b # ev.head =>
        /\ ChildTowards(b, ev.head) \in Block \ {Zero}
        /\ ChildTowards(b, ev.head) \notin Ancestors[b]
        /\ Len(BlockTxs(ChildTowards(b, ev.head))) \in Nat
  BY <1>0, <1>1, <1>2, ChildTowardsFacts, BlockFacts, SeqElements
<1>5. NextBlock' = ChildTowards(b, ev.head)  BY <1>0, <1>3 DEF NextBlock
<1> HIDE DEF b
<1> SUFFICES ASSUME NEW a \in Block \ {Zero}  PROVE Advancing'[a] = Advancing[a]
  OBVIOUS
<1>6. Advancing'[a] = WholeChain(b)[a]
  <2>1. Advancing'[a] =
          IF b # ev.head /\ a = ChildTowards(b, ev.head) THEN 1..(1-1) ELSE WholeChain(b)[a]
    BY <1>0, <1>3, <1>5 DEF Advancing
  <2>2. b # ev.head /\ a = ChildTowards(b, ev.head) => WholeChain(b)[a] = {}
    BY <1>4 DEF WholeChain
  <2> QED  BY <2>1, <2>2
<1>7. Advancing[a] = IF a = b THEN 1..(k-1) ELSE WholeChain(ns.head)[a]
  BY <1>0 DEF Advancing, b
<1>8. k - 1 = Len(BlockTxs(b))  BY <1>0, <1>2 DEF b
<1>9. CASE a = b  BY <1>6, <1>7, <1>8, <1>9, <1>2 DEF WholeChain
<1>10. CASE a # b  BY <1>6, <1>7, <1>10, <1>2 DEF WholeChain
<1> QED  BY <1>9, <1>10

LEMMA AdvanceBlockOK ==
  ASSUME IInv, AdvanceBlock
  PROVE  IInv'
<1> DEFINE b == NextBlock
<1>0. /\ pc = "advance" /\ ns.head # ev.head /\ k > Len(BlockTxs(b))
      /\ ns' = [ns EXCEPT !.head = b] /\ k' = 1
      /\ UNCHANGED <<invVars, st, pc, ev, lcaId, headFile, target, announced, restarts>>
      /\ ns \in State /\ ev \in CandidateHeadEvent /\ lcaId \in Block /\ k \in Nat \ {0}
  BY DEF AdvanceBlock, IInv, TypeOK
<1>1. /\ LedgerOK(ns) /\ FromInventory(ns) /\ HasMoreWork(ev.head)
      /\ ns.includedTxBlocks \in [Tx -> Block \cup {NoBlock}] /\ Included(ns) \subseteq Tx
      /\ ev.head \in DOMAIN blocks
  BY <1>0, WorkFacts
<1>2. /\ b \in Block \ {Zero} /\ b \in DOMAIN blocks /\ b \in Ancestors[ev.head]
      /\ Ancestors[b] = {b} \cup Ancestors[ns.head] /\ b \notin Ancestors[ns.head]
      /\ DOMAIN BlockTxs(b) = 1..Len(BlockTxs(b)) /\ Len(BlockTxs(b)) \in Nat
      /\ k \in 1..(Len(BlockTxs(b)) + 1)
      /\ lcaId \in Ancestors[ev.head] /\ RecordedAt(ns, Advancing)
  BY <1>0, AdvanceFacts
<1>3. /\ LedgerOK(ns') /\ ns'.head = b /\ ns'.mempool = ns.mempool
      /\ ns'.includedTxBlocks = ns.includedTxBlocks /\ Included(ns') = Included(ns)
  BY <1>0, <1>1, <1>2, MoveHeadOK
<1>4. b # ev.head => Len(BlockTxs(ChildTowards(b, ev.head))) \in Nat
  <2>1. b # ev.head => ChildTowards(b, ev.head) \in Block \ {Zero}
    BY <1>1, <1>2, ChildTowardsFacts DEF IInv
  <2> QED  BY <2>1, BlockFacts, SeqElements
<1>5. NextBlock' = ChildTowards(b, ev.head)  BY <1>0, <1>3 DEF NextBlock
<1>6. \A a \in Block \ {Zero} : Advancing'[a] = Advancing[a]  BY AdvanceBlockPlaces
<1> HIDE DEF b
<1>7. RecordedAt(ns', Advancing')
  BY <1>1, <1>2, <1>3, <1>6, RecordedMoved
<1>8. FromInventory(ns)' /\ HasMoreWork(ev.head)' /\ HasBlock(ns.head)'
  BY <1>0, <1>1, <1>2, <1>3 DEF FromInventory, HasMoreWork, HasBlock, TotalWork, invVars
<1>9. (ns.head # ev.head => k \in 1..(Len(BlockTxs(NextBlock)) + 1))'
  BY <1>0, <1>3, <1>4, <1>5
<1>10. CopyOK'
  BY <1>0, <1>2, <1>3, <1>7, <1>8, <1>9 DEF CopyOK
<1> QED  BY <1>0, <1>3, <1>10, CopyStep, LedgerFields DEF IInv, TypeOK

LEMMA CommitOK ==
  ASSUME IInv, Commit
  PROVE  IInv'
<1>0. /\ pc = "advance" /\ ns.head = ev.head /\ st' = ns
      /\ headFile' \in {headFile, ns.head} /\ announced' = announced \cup Included(ns)
      /\ Return /\ UNCHANGED <<invVars, restarts>> /\ PublishTarget
  BY DEF Commit
<1>1. /\ LedgerOK(ns) /\ FromInventory(ns) /\ ns.head \in DOMAIN blocks
      /\ ns.head \in Block /\ Included(ns) \subseteq Tx
      /\ ns.includedTxBlocks \in [Tx -> Block \cup {NoBlock}]
  BY <1>0, WorkFacts
<1>2. RecordedAt(ns, Advancing)  BY <1>0 DEF IInv, CopyOK
<1>3. \A a \in Block \ {Zero} : WholeChain(ns.head)[a] = Advancing[a]
  BY <1>0 DEF Advancing
<1>4. RecordedAt(ns, WholeChain(ns.head))
  BY <1>1, <1>2, <1>3, RecordedMoved
<1>5. StateOK'
  BY <1>0, <1>1, <1>4 DEF StateOK, HasBlock, FromInventory, invVars
<1>6. InventoryOK'  BY <1>0, InventoryKept DEF IInv
<1>7. target'.head \in Block
  BY <1>0, <1>1, TargetTyped DEF IInv, TypeOK
<1>8. TypeOK'
  BY <1>0, <1>1, <1>6, <1>7, ReturnFacts, LedgerFields DEF IInv, TypeOK, InventoryOK
<1> QED  BY <1>0, <1>5, <1>6, <1>8, ReturnFacts DEF IInv

LEMMA SavedHeadEventTyped ==
  ASSUME NEW b \in Block
  PROVE  SavedHeadEvent(b) \in CandidateHeadEvent
<1>1. NoEvent \in CandidateHeadEvent
  BY EntitiesAssumption DEF NoEvent, CandidateHeadEvent
<1> QED  BY <1>1 DEF SavedHeadEvent, CandidateHeadEvent

LEMMA RestartOK ==
  ASSUME IInv, Restart
  PROVE  IInv'
<1>0. /\ restarts' = restarts + 1 /\ st' = EmptyState /\ ns' = EmptyState
      /\ lcaId' = Zero /\ k' = 1 /\ announced' = {} /\ PublishTarget
      /\ headFile' \in {headFile, NoBlock} /\ restarts < MaxRestarts
  BY DEF Restart
<1>1. headFile' \in Block \cup {NoBlock} /\ restarts \in 0..MaxRestarts
      /\ target.head \in Block /\ restarts' \in 0..MaxRestarts /\ restarts' # 0
  BY <1>0, ChainAssumption DEF IInv, TypeOK
<1>2. pc' \in {"select", "load"} /\ ev' \in CandidateHeadEvent
  <2>1. NoEvent \in CandidateHeadEvent
    BY EntitiesAssumption DEF NoEvent, CandidateHeadEvent
  <2>2. headFile' # NoBlock => SavedHeadEvent(headFile') \in CandidateHeadEvent
    BY <1>1, SavedHeadEventTyped
  <2> QED  BY <2>1, <2>2 DEF Restart
<1>3. InventoryOK' /\ HasBlock(Zero)'
  <2>1. CASE SaveDir
    <3>1. UNCHANGED invVars  BY <2>1 DEF Restart
    <3>2. InventoryOK'  BY <3>1, InventoryKept DEF IInv
    <3> QED  BY <3>2 DEF InventoryOK, InventoryTypeOK, HasBlock
  <2>2. CASE ~SaveDir
    <3>1. txs' = {} /\ merkles' = {} /\ blocks' = EmptyBlocks  BY <2>2 DEF Restart
    <3>2. InventoryTypeOK'
      BY <3>1, EntitiesAssumption DEF EmptyBlocks, InventoryTypeOK, BlockInfo
    <3>3. TxsClosed' /\ MerklesClosed'  BY <3>1 DEF TxsClosed, MerklesClosed
    <3>4. BlocksClosed'  BY <3>1 DEF BlocksClosed, EmptyBlocks
    <3> QED  BY <3>2, <3>3, <3>4 DEF InventoryOK, InventoryTypeOK, HasBlock
  <2> QED  BY <2>1, <2>2
<1>4. FromInventory(st)'
  BY <1>0, <1>1, EmptyStateOK DEF FromInventory
<1>5. StateOK'
  BY <1>0, <1>3, <1>4, EmptyStateOK, RecordedEmpty DEF StateOK
<1>6. CopyOK'
  BY <1>0, <1>2, EmptyStateOK, CopyIdle
<1>7. Zero \in Block /\ st'.head = Zero /\ EmptyState \in State
  BY <1>0, EmptyStateOK, LedgerFields, EntitiesAssumption
<1>8. target'.head \in Block
  BY <1>0, <1>1, <1>7, TargetTyped
<1>9. TypeOK'
  BY <1>0, <1>1, <1>2, <1>3, <1>7, <1>8 DEF TypeOK, InventoryOK
<1> QED  BY <1>3, <1>5, <1>6, <1>9 DEF IInv

-----------------------------------------------------------------------------
(* The invariant *)

LEMMA NextOK == IInv /\ [Next]_vars => IInv'
<1> SUFFICES ASSUME IInv, [Next]_vars  PROVE IInv'
  OBVIOUS
<1>1. CASE UNCHANGED vars
  <2>1. UNCHANGED <<invVars, st, ns, pc, ev, lcaId, k, headFile, target, announced, restarts>>
    BY <1>1 DEF vars
  <2>2. InventoryOK' /\ StateOK'
    BY <2>1, InventoryKept, StateKept DEF IInv
  <2>3. CopyOK'
    BY <2>1 DEF IInv, CopyOK, FromInventory, HasMoreWork, HasBlock, TotalWork, invVars,
                Rewinding, Advancing, NextBlock
  <2> QED  BY <2>1, <2>2, <2>3 DEF IInv, TypeOK, InventoryOK
<1>2. CASE \E e \in CandidateHeads : ReceiveHead(e)  BY <1>2, ReceiveHeadOK
<1>3. CASE \E t \in CandidateTxs : HandleCandidateTx(t)  BY <1>3, HandleCandidateTxOK
<1>4. CASE HandlerStep
  BY <1>4, ReceiveSavedHeadOK, StoreNextTxOK, StoreNextMerkleOK, StoreNextBlockOK,
     CompareWorkOK, RewindNextTxOK, RewindBlockOK, RewindDoneOK, AdvanceNextTxOK,
     AdvanceBlockOK, CommitOK DEF HandlerStep
<1>5. CASE Restart  BY <1>5, RestartOK
<1> QED  BY <1>1, <1>2, <1>3, <1>4, <1>5 DEF Next

\* The routine keeps its invariant, also half way through a block.
THEOREM InvariantHolds == Spec => []IInv
<1>1. Init => IInv  BY InitOK
<1>2. IInv /\ [Next]_vars => IInv'  BY NextOK
<1> QED  BY <1>1, <1>2, PTL DEF Spec

\* Every variable of the routine keeps its type.
THEOREM TypeCorrect == Spec => []TypeOK
<1>1. IInv => TypeOK  BY DEF IInv
<1> QED  BY <1>1, InvariantHolds, PTL

\* The mempool and balance indexes of state.go are always exact.
THEOREM IndexesAreExact == Spec => []IndexesExact
<1>1. IInv => IndexesExact  BY DEF IInv, StateOK, LedgerOK, IndexesExact
<1> QED  BY <1>1, InvariantHolds, PTL

\* The utxo set is what the included txs created and did not consume.
THEOREM UtxosAreExact == Spec => []UtxosExact
<1>1. IInv => UtxosExact  BY DEF IInv, StateOK, LedgerOK, UtxosExact
<1> QED  BY <1>1, InvariantHolds, PTL

\* Nothing is ever spent twice in the node's chain.
THEOREM NothingSpentTwice == Spec => []NoDoubleSpend
<1>1. IInv => NoDoubleSpend  BY DEF IInv, StateOK, LedgerOK, Consistent, NoDoubleSpend
<1> QED  BY <1>1, InvariantHolds, PTL

\* Exactly the txs of the head's chain are included, each under its own block.
LEMMA IncludedIsChain == IInv => ConfirmedOnChain
<1> SUFFICES ASSUME IInv  PROVE ConfirmedOnChain
  OBVIOUS
<1> DEFINE h == st.head
<1>1. /\ h \in DOMAIN blocks /\ h \in Block /\ InventoryOK
      /\ RecordedAt(st, WholeChain(h))
      /\ st.includedTxBlocks \in [Tx -> Block \cup {NoBlock}]
  BY LedgerFields DEF IInv, StateOK, HasBlock
<1>2. Ancestors[h] \subseteq Block  BY <1>1, AncestorsClosed
<1> HIDE DEF h
<1>3. ASSUME NEW t \in Included(st)
      PROVE  LET b == st.includedTxBlocks[t] IN
             b \in Ancestors[h] \ {Zero} /\ t \in ToSet(BlockTxs(b))
  <2> DEFINE b == st.includedTxBlocks[t]
  <2>1. b # Zero /\ \E i \in WholeChain(h)[b] : BlockTxs(b)[i] = t
    BY <1>1 DEF RecordedAt
  <2>2. b \in Block \ {Zero}  BY <1>1, <2>1 DEF Included
  <2> HIDE DEF b
  <2>3. b \in Ancestors[h] /\ \E i \in DOMAIN BlockTxs(b) : BlockTxs(b)[i] = t
    BY <2>1, <2>2 DEF WholeChain
  <2> QED  BY <2>2, <2>3 DEF ToSet, b
<1>4. ASSUME NEW a \in Ancestors[h] \ {Zero}, NEW i \in DOMAIN BlockTxs(a)
      PROVE  BlockTxs(a)[i] \in Included(st)
  <2>1. i \in WholeChain(h)[a] /\ a \in Block \ {Zero}  BY <1>2, <1>4 DEF WholeChain
  <2>2. st.includedTxBlocks[BlockTxs(a)[i]] = a  BY <1>1, <2>1 DEF RecordedAt
  <2> QED  BY <2>1, <2>2, BlockFacts, SeqElements, EntitiesAssumption DEF Included
<1>5. Included(st) = ChainTxs(h)
  BY <1>3, <1>4 DEF ChainTxs, ToSet
<1>6. ASSUME NEW t \in Included(st)
      PROVE  GetTxConfirms(st, t) \in 1..Height(st.head)
  <2> DEFINE b == st.includedTxBlocks[t]
  <2>1. b \in Ancestors[h] \ {Zero}  BY <1>3
  <2>2. b \in DOMAIN blocks \ {Zero} /\ Height(b) <= Height(h)
    BY <1>1, <2>1, AncestorsKnown
  <2>3. /\ Height(b) \in Nat /\ Height(h) \in Nat
        /\ Height(BlockOf[b].prev) \in Nat /\ Height(b) = Height(BlockOf[b].prev) + 1
    BY <1>1, <2>2, KnownBlockFacts DEF HasBlock
  <2>4. Height(h) - Height(b) + 1 \in 1..Height(h)
    <3> HIDE DEF b
    <3> QED  BY <2>2, <2>3
  <2>5. GetTxConfirms(st, t) = Height(h) - Height(b) + 1
    BY DEF GetTxConfirms, Included, h
  <2> QED  BY <2>4, <2>5 DEF h
<1> QED  BY <1>3, <1>5, <1>6 DEF ConfirmedOnChain, h

\* Confirmation counts are those of the head's chain and never underflow.
THEOREM ConfirmationsAreOfChain == Spec => []ConfirmedOnChain
BY IncludedIsChain, InvariantHolds, PTL

\* Without restarts no tx is lost: what is known and not confirmed is in the mempool.
THEOREM NoTxLost == Spec => [](MaxRestarts = 0 => MempoolIsUnincluded)
<1>1. IInv => (MaxRestarts = 0 => MempoolIsUnincluded)
  <2> SUFFICES ASSUME IInv, MaxRestarts = 0  PROVE MempoolIsUnincluded
    OBVIOUS
  <2>1. restarts = 0  BY DEF IInv, TypeOK
  <2>2. st.mempool \cup Included(st) = txs  BY <2>1 DEF IInv, StateOK, FromInventory
  <2>3. st.mempool \cap Included(st) = {}  BY DEF IInv, StateOK, LedgerOK
  <2> QED  BY <2>2, <2>3 DEF MempoolIsUnincluded
<1> QED  BY <1>1, InvariantHolds, PTL

-----------------------------------------------------------------------------
(* The head, and the abstract ledger *)

\* What a step does to the ledger: Commit replaces it by a heavier one, Restart
\* empties it, and any other step leaves it.
LEMMA LedgerSteps ==
  ASSUME IInv, [Next]_vars
  PROVE  \/ /\ st'.head = st.head /\ Included(st') = Included(st)
            /\ st'.utxos = st.utxos /\ blocks'[st.head] = blocks[st.head]
         \/ /\ st'.head \in DOMAIN blocks /\ UNCHANGED <<blocks, restarts>>
            /\ TotalWork(st'.head) > TotalWork(st.head)
         \/ st' = EmptyState /\ restarts' = restarts + 1
<1> DEFINE Kept == /\ st'.head = st.head /\ Included(st') = Included(st)
                   /\ st'.utxos = st.utxos /\ blocks'[st.head] = blocks[st.head]
<1>1. CASE UNCHANGED <<st, blocks>>
  <2>1. Kept  BY <1>1 DEF Included
  <2> QED  BY <2>1
<1>2. ASSUME UNCHANGED blocks, NEW t \in Tx \ txs, st' = AddMempoolTx(st, t)
      PROVE  Kept
  <2>1. t \notin Included(st)  BY <1>2 DEF IInv, StateOK, FromInventory
  <2> QED  BY <1>2, <2>1, AddMempoolTxOK DEF IInv, StateOK
<1>3. CASE \E t \in CandidateTxs : HandleCandidateTx(t)
  BY <1>2, <1>3, ChainAssumption DEF HandleCandidateTx
<1>4. CASE StoreNextTx
  <2>1. CASE UNCHANGED st  BY <1>1, <1>4, <2>1 DEF StoreNextTx
  <2>2. CASE st' # st
    <3>1. Head(ev.txs) \in Tx \ txs /\ st' = AddMempoolTx(st, Head(ev.txs))
          /\ UNCHANGED blocks
      BY <1>4, <2>2, EventTails DEF StoreNextTx, IInv, TypeOK
    <3> QED  BY <1>2, <3>1
  <2> QED  BY <2>1, <2>2
<1>5. CASE StoreNextBlock
  <2>1. CASE UNCHANGED blocks  BY <1>1, <1>5, <2>1 DEF StoreNextBlock
  <2>2. CASE blocks' # blocks
    <3> DEFINE b == Head(ev.blocks)
    <3>1. /\ ~HasBlock(b) /\ VerifyBlock(b) /\ StoreBlock(b)
          /\ b \in Block \ {Zero} /\ UNCHANGED <<txs, merkles, st>>
      BY <1>5, <2>2, EventTails DEF StoreNextBlock, IInv, TypeOK
    <3> HIDE DEF b
    <3>2. blocks'[st.head] = blocks[st.head]
      BY <3>1, StoreBlockOK DEF IInv, StateOK, HasBlock
    <3> QED  BY <3>1, <3>2 DEF Included
  <2> QED  BY <2>1, <2>2
<1>6. CASE Commit
  <2>1. st' = ns /\ ns.head = ev.head /\ pc = "advance" /\ UNCHANGED <<blocks, restarts>>
    BY <1>6 DEF Commit, invVars
  <2>2. HasMoreWork(ev.head) /\ ns.head \in DOMAIN blocks /\ st.head \in DOMAIN blocks
    BY <2>1, WorkFacts DEF IInv, StateOK, HasBlock
  <2>3. TotalWork(ev.head) \in Nat /\ TotalWork(st.head) \in Nat
    BY <2>1, <2>2, KnownBlockFacts DEF IInv
  <2> QED  BY <2>1, <2>2, <2>3 DEF HasMoreWork
<1>7. CASE Restart  BY <1>7 DEF Restart
<1>8. CASE \/ \E e \in CandidateHeads : ReceiveHead(e)
           \/ ReceiveSavedHead \/ StoreNextMerkle \/ CompareWork
           \/ RewindNextTx \/ RewindBlock \/ RewindDone
           \/ AdvanceNextTx \/ AdvanceBlock \/ UNCHANGED vars
  BY <1>1, <1>8 DEF ReceiveHead, ReceiveSavedHead, StoreNextMerkle, CompareWork, RewindNextTx,
       RewindBlock, RewindDone, AdvanceNextTx, AdvanceBlock, vars, invVars
<1> QED
  BY <1>3, <1>4, <1>5, <1>6, <1>7, <1>8 DEF Next, HandlerStep

\* The head moves only to a block with strictly more work.
THEOREM HeadAlwaysGainsWork == Spec => HeadGainsWork
<1>1. IInv /\ [Next]_vars =>
        [st'.head # st.head /\ restarts' = restarts
           => TotalWork(st'.head) > TotalWork(st.head)]_vars
  <2> SUFFICES ASSUME IInv, [Next]_vars, st'.head # st.head, restarts' = restarts
               PROVE  TotalWork(st'.head) > TotalWork(st.head)
    OBVIOUS
  <2>1. restarts' # restarts + 1  BY DEF IInv, TypeOK
  <2> QED  BY <2>1, LedgerSteps
<1> QED  BY <1>1, InvariantHolds, PTL DEF Spec, HeadGainsWork

\* The abstract module's copies of the operators of Entities are those operators.
LEMMA SameEntities ==
  /\ \A b : LedgerOfState!ChainTxs(b) = ChainTxs(b)
  /\ \A S : /\ LedgerOfState!Consistent(S) <=> Consistent(S)
            /\ LedgerOfState!CreatedBy(S) = CreatedBy(S)
            /\ LedgerOfState!ConsumedBy(S) = ConsumedBy(S)
<1>1. \A t : LedgerOfState!Created(t) = Created(t) /\ LedgerOfState!Consumed(t) = Consumed(t)
  BY DEF LedgerOfState!Created, LedgerOfState!Consumed, Created, Consumed
<1>2. \A S : /\ LedgerOfState!CreatedBy(S) = CreatedBy(S)
             /\ LedgerOfState!ConsumedBy(S) = ConsumedBy(S)
  BY <1>1 DEF LedgerOfState!CreatedBy, LedgerOfState!ConsumedBy, CreatedBy, ConsumedBy
<1>3. \A S : LedgerOfState!Consistent(S) <=> Consistent(S)
  BY <1>1, <1>2 DEF LedgerOfState!Consistent, Consistent
<1>4. LedgerOfState!LeavesFrom = LeavesFrom
  BY DEF LedgerOfState!LeavesFrom, LeavesFrom
<1>5. LedgerOfState!GetMerkleTxIds = GetMerkleTxIds
  BY <1>4 DEF LedgerOfState!GetMerkleTxIds, GetMerkleTxIds
<1>6. \A b : LedgerOfState!BlockTxs(b) = BlockTxs(b)
  BY <1>5 DEF LedgerOfState!BlockTxs, BlockTxs
<1>7. \A S : LedgerOfState!ClosedUnderParent(S) <=> ClosedUnderParent(S)
  BY DEF LedgerOfState!ClosedUnderParent, ClosedUnderParent
<1>8. LedgerOfState!Ancestors = Ancestors
  BY <1>7 DEF LedgerOfState!Ancestors, Ancestors
<1>9. \A b : LedgerOfState!ChainTxs(b) = ChainTxs(b)
  BY <1>6, <1>8 DEF LedgerOfState!ChainTxs, ChainTxs, LedgerOfState!ToSet, ToSet
<1> QED  BY <1>2, <1>3, <1>9

\* The state's ledger is the one its head's chain determines.
LEMMA LedgerIsOfHead ==
  ASSUME IInv
  PROVE  LedgerOfState!IsLedgerOf(st.head)
<1>1. Included(st) = ChainTxs(st.head)  BY IncludedIsChain DEF ConfirmedOnChain
<1>2. /\ Consistent(Included(st))
      /\ st.utxos = CreatedBy(Included(st)) \ ConsumedBy(Included(st))
  BY DEF IInv, StateOK, LedgerOK
<1> QED  BY <1>1, <1>2, SameEntities DEF LedgerOfState!IsLedgerOf

\* The routine implements the abstract ledger: it starts with the zero block's,
\* a commit adopts a heavier block's, a restart resets it, and nothing else touches it.
THEOREM LedgerImplemented == Spec => ImplementsLedger
<1> DEFINE IsOfHead == LedgerOfState!IsLedgerOf(st.head)
<1>1. Init => LedgerOfState!Init
  <2> SUFFICES ASSUME Init  PROVE LedgerOfState!Init
    OBVIOUS
  <2>1. IsOfHead  BY InitOK, LedgerIsOfHead
  <2>2. st.head = Zero /\ TotalWork(st.head) = 0
    BY EmptyStateOK DEF Init, InventoryInit, EmptyBlocks, TotalWork
  <2> QED  BY <2>1, <2>2 DEF LedgerOfState!Init
<1>2. IInv => IsOfHead  BY LedgerIsOfHead
<1>3. IInv /\ IInv' /\ IsOfHead' /\ [Next]_vars =>
        [LedgerOfState!Next]_LedgerOfState!ledgerVars
  <2> SUFFICES ASSUME IInv, IInv', IsOfHead', [Next]_vars
               PROVE  [LedgerOfState!Next]_LedgerOfState!ledgerVars
    OBVIOUS
  <2>1. CASE /\ st'.head = st.head /\ Included(st') = Included(st)
             /\ st'.utxos = st.utxos /\ blocks'[st.head] = blocks[st.head]
    BY <2>1 DEF LedgerOfState!ledgerVars, TotalWork
  <2>2. CASE /\ st'.head \in DOMAIN blocks /\ UNCHANGED <<blocks, restarts>>
             /\ TotalWork(st'.head) > TotalWork(st.head)
    <3>1. TotalWork(st.head)' > TotalWork(st.head)  BY <2>2 DEF TotalWork
    <3>2. st'.head \in Block  BY LedgerFields DEF IInv, StateOK
    <3>3. PICK b \in Block : b = st'.head  BY <3>2
    <3>4. LedgerOfState!IsLedgerOf(b)'
      BY <3>3 DEF LedgerOfState!IsLedgerOf
    <3>5. LedgerOfState!Adopt(b)
      BY <3>1, <3>4 DEF LedgerOfState!Adopt
    <3> QED  BY <3>5 DEF LedgerOfState!Next
  <2>3. CASE st' = EmptyState /\ restarts' = restarts + 1
    <3>1. st'.head = Zero  BY <2>3, EmptyStateOK
    <3>2. TotalWork(st.head)' = 0
      BY <3>1 DEF IInv, InventoryOK, BlocksClosed, EmptyBlocks, TotalWork
    <3>3. LedgerOfState!IsLedgerOf(Zero)'
      BY <3>1 DEF LedgerOfState!IsLedgerOf
    <3>4. LedgerOfState!Reset  BY <3>2, <3>3 DEF LedgerOfState!Reset
    <3> QED  BY <3>4 DEF LedgerOfState!Next
  <2> QED  BY <2>1, <2>2, <2>3, LedgerSteps
<1> QED
  BY <1>1, <1>2, <1>3, InvariantHolds, PTL
     DEF Spec, ImplementsLedger, LedgerOfState!Spec

=============================================================================
