--------------------------- MODULE ValidityProofs ---------------------------
(***************************************************************************)
(* Which chains the routine ends up with, for every set of entities and    *)
(* every order of events: only correct ones, all of the correct ones, the  *)
(* saved one again after a restart; and what alone can make it panic.      *)
(***************************************************************************)
EXTENDS ChainProofs

-----------------------------------------------------------------------------
(* Chains *)

\* Of two ancestors of one block the lower is an ancestor of the higher.
LEMMA AncestorsLinear ==
  ASSUME InventoryOK, NEW e \in DOMAIN blocks, NEW a \in Ancestors[e], NEW b \in Ancestors[e],
         Height(a) < Height(b)
  PROVE  a \in Ancestors[b]
<1> DEFINE S == {x \in Ancestors[e] : x \in Ancestors[b] \/ b \in Ancestors[x]}
<1>1. e \in Block /\ b \in Block /\ Ancestors[e] \subseteq Block
  BY KnownBlockFacts, AncestorsClosed
<1>2. S \subseteq Block /\ e \in S  BY <1>1, AncestorsClosed
<1>3. ASSUME NEW x \in S \ {Zero}  PROVE BlockOf[x].prev \in S
  <2> DEFINE p == BlockOf[x].prev
  <2>1. x \in Block \ {Zero} /\ p \in Ancestors[e]
    BY <1>1, AncestorsClosed DEF ClosedUnderParent
  <2>2. CASE x \in Ancestors[b]
    BY <1>1, <2>1, <2>2, AncestorsClosed DEF ClosedUnderParent
  <2>3. CASE b \in Ancestors[x] /\ b # x
    BY <2>1, <2>3, AncestorsStep
  <2>4. CASE b = x
    BY <1>1, <2>1, <2>4, AncestorsClosed DEF ClosedUnderParent
  <2> QED  BY <2>1, <2>2, <2>3, <2>4
<1>4. Ancestors[e] \subseteq S
  BY <1>1, <1>2, <1>3, AncestorsLeast DEF ClosedUnderParent
<1>5. CASE b \in Ancestors[a]
  <2>1. /\ a \in DOMAIN blocks /\ Height(a) \in Nat /\ b \in DOMAIN blocks /\ Height(b) \in Nat
        /\ Height(b) <= Height(a)
    BY <1>5, AncestorsKnown, KnownBlockFacts
  <2> QED  BY <2>1
<1> QED  BY <1>4, <1>5

\* The positions of a chain, as pairs and as WholeChain.
LEMMA PlacesFacts ==
  ASSUME NEW h \in Block
  PROVE  /\ \A c \in Block \ {Zero} : \A j \in WholeChain(h)[c] :
               <<c, j>> \in Places(h) /\ TxAt(<<c, j>>) = BlockTxs(c)[j]
         /\ \A p \in Places(h) : /\ p = <<p[1], p[2]>> /\ p[1] \in Ancestors[h] \ {Zero}
                                 /\ p[1] \in Block \ {Zero} /\ p[2] \in WholeChain(h)[p[1]]
                                 /\ p[2] \in Nat /\ p[2] \in DOMAIN BlockTxs(p[1])
                                 /\ TxAt(p) = BlockTxs(p[1])[p[2]] /\ TxAt(p) \in Tx
<1>1. Ancestors[h] \subseteq Block  BY AncestorsClosed
<1>2. \A c \in Block \ {Zero} : \A j \in WholeChain(h)[c] :
         <<c, j>> \in Places(h) /\ TxAt(<<c, j>>) = BlockTxs(c)[j]
  BY DEF WholeChain, Places, TxAt
<1>3. ASSUME NEW p \in Places(h)
      PROVE  /\ p = <<p[1], p[2]>> /\ p[1] \in Ancestors[h] \ {Zero}
             /\ p[1] \in Block \ {Zero} /\ p[2] \in WholeChain(h)[p[1]]
             /\ p[2] \in Nat /\ p[2] \in DOMAIN BlockTxs(p[1])
             /\ TxAt(p) = BlockTxs(p[1])[p[2]] /\ TxAt(p) \in Tx
  <2>1. PICK a \in Ancestors[h] \ {Zero} : p \in {a} \X DOMAIN BlockTxs(a)  BY DEF Places
  <2>2. p = <<p[1], p[2]>> /\ p[1] = a /\ p[2] \in DOMAIN BlockTxs(a)  BY <2>1
  <2>3. a \in Block \ {Zero}  BY <1>1
  <2>4. p[2] \in WholeChain(h)[a]  BY <2>2, <2>3 DEF WholeChain
  <2>5. p[2] \in Nat /\ BlockTxs(a)[p[2]] \in Tx  BY <2>2, <2>3, BlockFacts, SeqElements
  <2> QED  BY <2>2, <2>3, <2>4, <2>5 DEF TxAt
<1> QED  BY <1>2, <1>3

\* OrderedIn depends on the positions and on the blocks that hold them.
LEMMA OrderedMoved ==
  ASSUME NEW bs, NEW bs2, NEW p, NEW q, OrderedIn(bs, p),
         \A a \in Block \ {Zero} : q[a] = p[a] /\ (p[a] # {} => bs2[a] = bs[a])
  PROVE  OrderedIn(bs2, q)
BY DEF OrderedIn

\* A tx joins at the end of what is in place of its block.
LEMMA OrderedAdvance ==
  ASSUME NEW bs, NEW p, NEW q, OrderedIn(bs, p),
         NEW b \in Block \ {Zero}, NEW i \in Nat, \A j \in p[b] : j < i,
         \A a \in Block \ {Zero} : q[a] = IF a = b THEN p[b] \cup {i} ELSE p[a],
         TxOf[BlockTxs(b)[i]].minBlock <= bs[b].height, ~DuplicateInput(BlockTxs(b)[i]),
         \A u \in Consumed(BlockTxs(b)[i]) :
            \E c \in Block \ {Zero} : \E j \in p[c] :
               (bs[c].height < bs[b].height \/ c = b) /\ u \in Created(BlockTxs(c)[j])
  PROVE  OrderedIn(bs, q)
<1> DEFINE Good(a, m) ==
             LET t == BlockTxs(a)[m] IN
             /\ TxOf[t].minBlock <= bs[a].height
             /\ ~DuplicateInput(t)
             /\ \A u \in Consumed(t) :
                   \E c \in Block \ {Zero} : \E j \in q[c] :
                       /\ bs[c].height < bs[a].height \/ (c = a /\ j < m)
                       /\ u \in Created(BlockTxs(c)[j])
<1>1. \A c \in Block \ {Zero} : p[c] \subseteq q[c]  OBVIOUS
<1>2. ASSUME NEW a \in Block \ {Zero}, NEW m \in p[a]  PROVE Good(a, m)
  BY <1>1 DEF OrderedIn
<1>3. Good(b, i)
  <2>1. ASSUME NEW u \in Consumed(BlockTxs(b)[i])
        PROVE  \E c \in Block \ {Zero} : \E j \in q[c] :
                  /\ bs[c].height < bs[b].height \/ (c = b /\ j < i)
                  /\ u \in Created(BlockTxs(c)[j])
    <3>1. PICK c \in Block \ {Zero} : \E j \in p[c] :
             (bs[c].height < bs[b].height \/ c = b) /\ u \in Created(BlockTxs(c)[j])
      OBVIOUS
    <3>2. PICK j \in p[c] :
             (bs[c].height < bs[b].height \/ c = b) /\ u \in Created(BlockTxs(c)[j])
      BY <3>1
    <3>3. j \in q[c] /\ (c = b => j < i)  BY <1>1
    <3> QED  BY <3>2, <3>3
  <2> QED  BY <2>1
<1>4. ASSUME NEW a \in Block \ {Zero}, NEW m \in q[a]  PROVE Good(a, m)
  <2>1. CASE m \in p[a]  BY <1>2, <2>1
  <2>2. CASE m \notin p[a]
    <3>1. a = b /\ m = i  BY <2>2
    <3> QED  BY <1>3, <3>1
  <2> QED  BY <2>1, <2>2
<1> QED  BY <1>4 DEF OrderedIn

\* A correct chain is in order.
LEMMA OrderedOfValid ==
  ASSUME NEW h \in Block, ValidChain(h)
  PROVE  OrderedIn(blocks, WholeChain(h))
<1> SUFFICES ASSUME NEW a \in Block \ {Zero}, NEW i \in WholeChain(h)[a]
             PROVE  LET t == BlockTxs(a)[i] IN
                    /\ TxOf[t].minBlock <= blocks[a].height
                    /\ ~DuplicateInput(t)
                    /\ \A u \in Consumed(t) :
                          \E c \in Block \ {Zero} : \E j \in WholeChain(h)[c] :
                              /\ blocks[c].height < blocks[a].height \/ (c = a /\ j < i)
                              /\ u \in Created(BlockTxs(c)[j])
  BY DEF OrderedIn
<1> DEFINE q == <<a, i>>
           t == BlockTxs(a)[i]
<1>1. q \in Places(h) /\ TxAt(q) = t /\ q[1] = a /\ q[2] = i  BY PlacesFacts
<1>2. /\ TxOf[t].minBlock <= blocks[a].height /\ ~DuplicateInput(t)
      /\ \A u \in Consumed(t) : \E p \in Places(h) : Before(p, q) /\ u \in Created(TxAt(p))
  BY <1>1 DEF ValidChain, Height
<1>3. ASSUME NEW u \in Consumed(t)
      PROVE  \E c \in Block \ {Zero} : \E j \in WholeChain(h)[c] :
                /\ blocks[c].height < blocks[a].height \/ (c = a /\ j < i)
                /\ u \in Created(BlockTxs(c)[j])
  <2>1. PICK p \in Places(h) : Before(p, q) /\ u \in Created(TxAt(p))  BY <1>2
  <2>2. /\ p[1] \in Block \ {Zero} /\ p[2] \in WholeChain(h)[p[1]]
        /\ TxAt(p) = BlockTxs(p[1])[p[2]]
    BY PlacesFacts
  <2>3. blocks[p[1]].height < blocks[a].height \/ (p[1] = a /\ p[2] < i)
    BY <1>1, <2>1 DEF Before, Height
  <2> QED  BY <2>1, <2>2, <2>3
<1> QED  BY <1>2, <1>3

\* A chain in order is correct when it is what a consistent ledger has recorded.
LEMMA ValidOfOrdered ==
  ASSUME NEW h \in Block, OrderedIn(blocks, WholeChain(h)),
         NEW s, LedgerOK(s), RecordedAt(s, WholeChain(h))
  PROVE  ValidChain(h)
<1> SUFFICES ASSUME NEW q \in Places(h)
             PROVE  /\ TxOf[TxAt(q)].minBlock <= Height(q[1])
                    /\ ~DuplicateInput(TxAt(q))
                    /\ \A p \in Places(h) \ {q} :
                          /\ TxAt(p) # TxAt(q)
                          /\ Consumed(TxAt(p)) \cap Consumed(TxAt(q)) = {}
                    /\ \A u \in Consumed(TxAt(q)) :
                          \E p \in Places(h) : Before(p, q) /\ u \in Created(TxAt(p))
  BY DEF ValidChain
<1> DEFINE a == q[1]
           i == q[2]
<1>1. /\ a \in Block \ {Zero} /\ i \in WholeChain(h)[a] /\ TxAt(q) = BlockTxs(a)[i]
      /\ q = <<a, i>>
  BY PlacesFacts
<1>2. /\ TxOf[TxAt(q)].minBlock <= Height(a) /\ ~DuplicateInput(TxAt(q))
      /\ \A u \in Consumed(TxAt(q)) :
            \E c \in Block \ {Zero} : \E j \in WholeChain(h)[c] :
                /\ blocks[c].height < blocks[a].height \/ (c = a /\ j < i)
                /\ u \in Created(BlockTxs(c)[j])
  BY <1>1 DEF OrderedIn, Height
<1>3. ASSUME NEW u \in Consumed(TxAt(q))
      PROVE  \E p \in Places(h) : Before(p, q) /\ u \in Created(TxAt(p))
  <2>1. PICK c \in Block \ {Zero} : \E j \in WholeChain(h)[c] :
           /\ blocks[c].height < blocks[a].height \/ (c = a /\ j < i)
           /\ u \in Created(BlockTxs(c)[j])
    BY <1>2
  <2>2. PICK j \in WholeChain(h)[c] :
           /\ blocks[c].height < blocks[a].height \/ (c = a /\ j < i)
           /\ u \in Created(BlockTxs(c)[j])
    BY <2>1
  <2> DEFINE p == <<c, j>>
  <2>3. p \in Places(h) /\ TxAt(p) = BlockTxs(c)[j] /\ p[1] = c /\ p[2] = j  BY PlacesFacts
  <2>4. Before(p, q)  BY <2>2, <2>3 DEF Before, Height
  <2> QED  BY <2>2, <2>3, <2>4
<1>4. ASSUME NEW p \in Places(h)
      PROVE  /\ TxAt(p) \in Included(s) /\ s.includedTxBlocks[TxAt(p)] = p[1]
             /\ p[1] \in Block \ {Zero} /\ p[2] \in WholeChain(h)[p[1]]
             /\ TxAt(p) = BlockTxs(p[1])[p[2]] /\ p = <<p[1], p[2]>>
  <2>1. /\ p[1] \in Block \ {Zero} /\ p[2] \in WholeChain(h)[p[1]] /\ TxAt(p) \in Tx
        /\ TxAt(p) = BlockTxs(p[1])[p[2]] /\ p = <<p[1], p[2]>>
    BY PlacesFacts
  <2>2. s.includedTxBlocks[TxAt(p)] = p[1]  BY <2>1 DEF RecordedAt
  <2> QED  BY <2>1, <2>2, EntitiesAssumption DEF Included
<1>5. ASSUME NEW p \in Places(h) \ {q}
      PROVE  TxAt(p) # TxAt(q) /\ Consumed(TxAt(p)) \cap Consumed(TxAt(q)) = {}
  <2>1. TxAt(p) # TxAt(q)
    <3> SUFFICES ASSUME TxAt(p) = TxAt(q)  PROVE FALSE
      OBVIOUS
    <3>1. p[1] = a  BY <1>4
    <3>2. BlockTxs(a)[p[2]] = BlockTxs(a)[i] /\ p[2] \in WholeChain(h)[a]
      BY <1>1, <1>4, <3>1
    <3>3. p[2] = i  BY <1>1, <3>2 DEF RecordedAt
    <3> QED  BY <1>1, <1>4, <3>1, <3>3
  <2>2. TxAt(p) \in Included(s) /\ TxAt(q) \in Included(s)  BY <1>4
  <2> QED  BY <2>1, <2>2, LedgerFields
<1> QED  BY <1>2, <1>3, <1>5

\* A chain without its last block is still correct.
LEMMA ValidPrefix ==
  ASSUME InventoryOK, NEW h \in DOMAIN blocks \ {Zero}, ValidChain(h)
  PROVE  ValidChain(BlockOf[h].prev)
<1> DEFINE prev == BlockOf[h].prev
<1>1. /\ h \in Block \ {Zero} /\ prev \in DOMAIN blocks /\ prev \in Block
      /\ Height(prev) \in Nat /\ Height(h) \in Nat /\ Height(h) = Height(prev) + 1
  BY KnownBlockFacts DEF HasBlock
<1>2. Ancestors[h] = {h} \cup Ancestors[prev]  BY <1>1, AncestorsStep
<1> HIDE DEF prev
<1>3. Places(prev) \subseteq Places(h)  BY <1>2 DEF Places
<1>4. ASSUME NEW q \in Places(prev), NEW p \in Places(h), Before(p, q)
      PROVE  p \in Places(prev)
  <2>1. /\ q[1] \in Ancestors[prev] /\ p[1] \in Ancestors[h] \ {Zero}
        /\ p[2] \in DOMAIN BlockTxs(p[1]) /\ p = <<p[1], p[2]>>
    BY <1>1, PlacesFacts
  <2>2. q[1] \in DOMAIN blocks /\ Height(q[1]) <= Height(prev) /\ Height(q[1]) \in Nat
    BY <1>1, <2>1, AncestorsKnown, KnownBlockFacts
  <2>3. p[1] # h
    <3>1. SUFFICES ASSUME p[1] = h  PROVE FALSE
      OBVIOUS
    <3>2. Height(h) < Height(q[1]) \/ q[1] = h  BY <1>4, <3>1 DEF Before
    <3>3. Height(h) <= Height(q[1])  BY <1>1, <2>2, <3>2
    <3> QED  BY <1>1, <2>2, <3>3
  <2>4. p[1] \in Ancestors[prev] \ {Zero}  BY <1>2, <2>1, <2>3
  <2>5. p \in {p[1]} \X DOMAIN BlockTxs(p[1])  BY <2>1
  <2> QED  BY <2>4, <2>5 DEF Places
<1>5. ValidChain(prev)
  BY <1>3, <1>4 DEF ValidChain
<1> QED  BY <1>5 DEF prev

\* What is stored later does not matter to the chain of a known block.
LEMMA ValidKept ==
  ASSUME InventoryOK, NEW h \in DOMAIN blocks, ValidChain(h),
         \A b \in DOMAIN blocks : blocks'[b] = blocks[b]
  PROVE  ValidChain(h)'
<1>1. h \in Block  BY KnownBlockFacts
<1>2. \A q \in Places(h) : Height(q[1])' = Height(q[1])
  <2> SUFFICES ASSUME NEW q \in Places(h)  PROVE Height(q[1])' = Height(q[1])
    OBVIOUS
  <2>1. q[1] \in Ancestors[h]  BY <1>1, PlacesFacts
  <2>2. q[1] \in DOMAIN blocks  BY <2>1, AncestorsKnown
  <2> QED  BY <2>2 DEF Height
<1>3. \A p, q \in Places(h) : Before(p, q)' <=> Before(p, q)  BY <1>2 DEF Before
<1> QED  BY <1>2, <1>3 DEF ValidChain

-----------------------------------------------------------------------------
(* Correct chains are advanced to *)

\* While a correct chain is advanced over, its next tx can be advanced: it is known, it
\* waits in the mempool or is trusted, and what it consumes is unspent.
LEMMA ValidAdvances ==
  ASSUME IInv, pc = "advance", ns.head # ev.head, k <= Len(BlockTxs(NextBlock)),
         ValidChain(ev.head), ev.autoAdd \/ restarts = 0
  PROVE  CanAdvanceTx(ns, BlockTxs(NextBlock)[k], NextBlock, ev.autoAdd)
<1> DEFINE b == NextBlock
           t == BlockTxs(b)[k]
           e == ev.head
           q == <<b, k>>
           s1 == EnterMempool(ns, t, ev.autoAdd)
<1>1. /\ LedgerOK(ns) /\ FromInventory(ns) /\ ns.head \in DOMAIN blocks /\ ns.head \in Block
      /\ e \in DOMAIN blocks /\ e \in Block /\ Included(ns) \subseteq Tx
      /\ ns.includedTxBlocks \in [Tx -> Block \cup {NoBlock}]
      /\ InventoryOK /\ ns.head \in Ancestors[e] /\ k \in Nat \ {0}
  BY WorkFacts DEF IInv, CopyOK, TypeOK
<1>2. /\ b \in Block \ {Zero} /\ b \in DOMAIN blocks /\ b \in Ancestors[e]
      /\ Ancestors[b] = {b} \cup Ancestors[ns.head] /\ b \notin Ancestors[ns.head]
      /\ DOMAIN BlockTxs(b) = 1..Len(BlockTxs(b)) /\ BlockTxs(b) \in Seq(Tx)
      /\ RecordedAt(ns, Advancing)
  BY AdvanceFacts
<1>3. BlockOf[b].prev = ns.head /\ Height(b) = Height(ns.head) + 1
  <2>1. BlockOf[b].prev = ns.head  BY <1>1, ChildTowardsFacts DEF NextBlock
  <2> QED  BY <1>1, <1>2, <2>1, KnownBlockFacts
<1>4. k \in DOMAIN BlockTxs(b) /\ t \in Tx  BY <1>1, <1>2, SeqElements
<1>5. q \in Places(e) /\ TxAt(q) = t /\ q[1] = b /\ q[2] = k
  BY <1>2, <1>4 DEF Places, TxAt
<1>6. /\ TxOf[t].minBlock <= Height(b) /\ ~DuplicateInput(t)
      /\ \A p \in Places(e) \ {q} : TxAt(p) # t /\ Consumed(TxAt(p)) \cap Consumed(t) = {}
      /\ \A u \in Consumed(t) : \E p \in Places(e) : Before(p, q) /\ u \in Created(TxAt(p))
  BY <1>5 DEF ValidChain
<1>7. \A c \in Block \ {Zero} :
         Advancing[c] = IF c = b THEN 1..(k-1) ELSE WholeChain(ns.head)[c]
  BY DEF Advancing
<1> HIDE DEF b, e, s1
<1>8. ASSUME NEW x \in Included(ns)
      PROVE  \E p \in Places(e) \ {q} : TxAt(p) = x
  <2> DEFINE c == ns.includedTxBlocks[x]
  <2>1. c # Zero /\ \E j \in Advancing[c] : BlockTxs(c)[j] = x  BY <1>2 DEF RecordedAt
  <2>2. c \in Block \ {Zero}  BY <1>1, <2>1 DEF Included
  <2>3. PICK j \in Advancing[c] : BlockTxs(c)[j] = x  BY <2>1
  <2>4. j \in DOMAIN BlockTxs(c)  BY <1>2, <2>2, <2>3 DEF RecordedAt
  <2> HIDE DEF c
  <2>5. c \in Ancestors[e] \ {Zero} /\ <<c, j>> # q
    <3>1. CASE c = b
      <4>1. j \in 1..(k-1)  BY <1>7, <2>2, <2>3, <3>1
      <4>2. j # k  BY <1>1, <4>1
      <4> QED  BY <1>2, <2>2, <3>1, <4>2
    <3>2. CASE c # b
      <4>1. c \in Ancestors[ns.head]  BY <1>7, <2>2, <2>3, <3>2 DEF WholeChain
      <4>2. Ancestors[ns.head] \subseteq Ancestors[e]
        BY <1>1, AncestorsClosed, AncestorsLeast
      <4> QED  BY <2>2, <3>2, <4>1, <4>2
    <3> QED  BY <3>1, <3>2
  <2>6. <<c, j>> \in Places(e) /\ TxAt(<<c, j>>) = x
    BY <2>3, <2>4, <2>5 DEF Places, TxAt
  <2> QED  BY <2>5, <2>6
<1>9. t \notin Included(ns)  BY <1>6, <1>8
<1>10. ASSUME NEW u \in Consumed(t)  PROVE u \in CreatedBy(Included(ns))
  <2>1. PICK p \in Places(e) : Before(p, q) /\ u \in Created(TxAt(p))  BY <1>6
  <2>2. /\ p[1] \in Ancestors[e] \ {Zero} /\ p[1] \in Block \ {Zero}
        /\ p[2] \in DOMAIN BlockTxs(p[1]) /\ TxAt(p) = BlockTxs(p[1])[p[2]] /\ TxAt(p) \in Tx
        /\ p[2] \in Nat
    BY <1>1, PlacesFacts
  <2>3. p[2] \in Advancing[p[1]]
    <3>1. CASE p[1] = b /\ p[2] < k
      <4>1. p[2] >= 1  BY <1>2, <2>2, <3>1
      <4>2. p[2] \in 1..(k-1)  BY <1>1, <2>2, <3>1, <4>1
      <4> QED  BY <1>7, <2>2, <3>1, <4>2
    <3>2. CASE Height(p[1]) < Height(b)
      <4>1. p[1] \in Ancestors[b]  BY <1>1, <1>2, <2>2, <3>2, AncestorsLinear
      <4>2. p[1] # b
        <5>1. Height(b) \in Nat  BY <1>1, <1>2, KnownBlockFacts
        <5>2. ~(Height(b) < Height(b))  BY <5>1
        <5> QED  BY <3>2, <5>2
      <4>3. p[1] \in Ancestors[ns.head]  BY <1>2, <4>1, <4>2
      <4> QED  BY <1>7, <2>2, <4>2, <4>3 DEF WholeChain
    <3> QED  BY <1>5, <2>1, <3>1, <3>2 DEF Before
  <2>4. ns.includedTxBlocks[TxAt(p)] = p[1]  BY <1>2, <2>2, <2>3 DEF RecordedAt
  <2>5. TxAt(p) \in Included(ns)  BY <2>2, <2>4, EntitiesAssumption DEF Included
  <2> QED  BY <2>1, <2>5 DEF CreatedBy
<1>11. ASSUME NEW u \in Consumed(t)  PROVE u \notin ConsumedBy(Included(ns))
  <2> SUFFICES ASSUME NEW x \in Included(ns), u \in Consumed(x)  PROVE FALSE
    BY DEF ConsumedBy
  <2>1. PICK p \in Places(e) \ {q} : TxAt(p) = x  BY <1>8
  <2> QED  BY <1>6, <2>1
<1>12. Consumed(t) \subseteq ns.utxos  BY <1>1, <1>10, <1>11 DEF LedgerOK
<1>13. t \in txs
  <2>1. BlockOf[b].merkleRoot \in merkles  BY <1>1, <1>2 DEF InventoryOK, BlocksClosed
  <2>2. BlockOf[b].merkleRoot \in Merkle  BY <1>2, BlockFacts
  <2>3. LeafSet(BlockOf[b].merkleRoot) = ToSet(BlockTxs(b))
    BY <2>2, EntitiesAssumption DEF LeafSet, BlockTxs
  <2>4. t \in ToSet(BlockTxs(b))  BY <1>4 DEF ToSet
  <2> QED  BY <1>1, <2>1, <2>3, <2>4 DEF InventoryOK, MerklesClosed
<1>14. t \in ns.mempool \/ ev.autoAdd
  BY <1>1, <1>9, <1>13 DEF FromInventory
<1>15. /\ LedgerOK(s1) /\ s1.mempool = ns.mempool \cup {t}
  BY <1>1, <1>4, <1>9, <1>14, EnterMempoolOK DEF s1
<1>16. Spends(t) \subseteq s1.mempoolUtxoSpends  BY <1>15 DEF LedgerOK
<1>17. Balances(Consumed(t)) \subseteq ns.pkhUtxos
  BY <1>1, <1>12 DEF LedgerOK, Balances
<1>18. ns.includedTxBlocks[t] = NoBlock  BY <1>4, <1>9 DEF Included
<1>19. VerifyTxIncludable(ns, t, ev.autoAdd)
  BY <1>3, <1>6, <1>12, <1>13, <1>14 DEF VerifyTxIncludable
<1> QED  BY <1>6, <1>16, <1>17, <1>18, <1>19 DEF CanAdvanceTx, b, s1

\* handleCandidateHead gives up an advance only at a chain that is wrong, as long as the
\* node has not been restarted (chain.go, "if it proves to be correct").
THEOREM OnlyWrongChainsRejected == Spec => (MaxRestarts = 0 => RejectOnlyInvalid)
<1>1. IInv /\ [Next]_vars =>
        (MaxRestarts = 0 => [AdvanceNextTx /\ pc' = "select" => ~ValidChain(ev.head)]_vars)
  <2> SUFFICES ASSUME IInv, MaxRestarts = 0, AdvanceNextTx, pc' = "select", ValidChain(ev.head)
               PROVE  FALSE
    OBVIOUS
  <2>1. restarts = 0  BY DEF IInv, TypeOK
  <2>2. pc = "advance" /\ ns.head # ev.head /\ k <= Len(BlockTxs(NextBlock))
    BY DEF AdvanceNextTx
  <2>3. CanAdvanceTx(ns, BlockTxs(NextBlock)[k], NextBlock, ev.autoAdd)
    BY <2>1, <2>2, ValidAdvances
  <2>4. UNCHANGED pc  BY <2>3 DEF AdvanceNextTx
  <2> QED  BY <2>2, <2>4
<1>2. CASE MaxRestarts = 0
  <2>1. IInv /\ [Next]_vars => [AdvanceNextTx /\ pc' = "select" => ~ValidChain(ev.head)]_vars
    BY <1>1, <1>2
  <2> QED  BY <2>1, InvariantHolds, PTL DEF Spec, RejectOnlyInvalid
<1> QED  BY <1>2

-----------------------------------------------------------------------------
(* HeadInv: what a step leaves alone *)

\* The zero block's chain has no positions.
LEMMA NoPlacesAtZero == Places(Zero) = {}
BY AncestorsOfZero DEF Places

\* The head and the head file keep their correct chains, whatever is stored.
LEMMA HeadKept ==
  ASSUME IInv, HeadInv, st'.head = st.head,
         \A b \in DOMAIN blocks : b \in DOMAIN blocks' /\ blocks'[b] = blocks[b]
  PROVE  /\ ValidChain(st.head)'
         /\ \A h \in DOMAIN blocks : ValidChain(h) => ValidChain(h)'
<1>1. ASSUME NEW h \in DOMAIN blocks, ValidChain(h)  PROVE ValidChain(h)'
  BY <1>1, ValidKept DEF IInv
<1>2. st.head \in DOMAIN blocks /\ ValidChain(st.head)
  BY DEF IInv, StateOK, HasBlock, HeadInv, ChainsOK
<1>3. PICK h \in DOMAIN blocks : h = st.head  BY <1>2
<1>4. ValidChain(h)  BY <1>2, <1>3 DEF ValidChain
<1>5. ValidChain(h)'  BY <1>1, <1>4
<1>6. ValidChain(st.head)'  BY <1>3, <1>5 DEF ValidChain
<1> QED  BY <1>1, <1>6

\* The head file's part holds as long as file and head do, and the saved head is not given up.
LEMMA SavedKept ==
  ASSUME IInv, HeadInv, st'.head = st.head, headFile' = headFile,
         \A b \in DOMAIN blocks : b \in DOMAIN blocks' /\ blocks'[b] = blocks[b],
         SaveDir => \/ UNCHANGED ev /\ (pc' = "select" => pc = "select")
                    \/ ~ev.autoAdd /\ ~ev'.autoAdd
  PROVE  SavedOK'
<1> SUFFICES ASSUME SaveDir  PROVE SavedOK'
  BY DEF SavedOK
<1>1. SavedOK  BY DEF HeadInv
<1>2. ASSUME headFile # NoBlock
      PROVE  (HasBlock(headFile) /\ ValidChain(headFile) /\ TotalWork(headFile) > 0)'
  <2>1. headFile \in DOMAIN blocks /\ ValidChain(headFile) /\ TotalWork(headFile) > 0
    BY <1>1, <1>2 DEF SavedOK, HasBlock
  <2>2. PICK h \in DOMAIN blocks : h = headFile  BY <2>1
  <2>3. ValidChain(h)  BY <2>1, <2>2 DEF ValidChain
  <2>4. ValidChain(h)'  BY <2>3, HeadKept
  <2>5. ValidChain(headFile)'  BY <2>2, <2>4 DEF ValidChain
  <2> QED  BY <2>1, <2>5 DEF HasBlock, TotalWork
<1>3. CASE UNCHANGED ev /\ (pc' = "select" => pc = "select")
  BY <1>1, <1>2, <1>3 DEF SavedOK
<1>4. CASE ~ev.autoAdd /\ ~ev'.autoAdd
  BY <1>1, <1>2, <1>4 DEF SavedOK
<1> QED  BY <1>3, <1>4

\* A step outside the rewind and the advance that moves no head.
LEMMA QuietStep ==
  ASSUME IInv, HeadInv, st'.head = st.head, headFile' = headFile,
         \A b \in DOMAIN blocks : b \in DOMAIN blocks' /\ blocks'[b] = blocks[b],
         SaveDir => \/ UNCHANGED ev /\ (pc' = "select" => pc = "select")
                    \/ ~ev.autoAdd /\ ~ev'.autoAdd,
         pc' \in {"select", "load", "store"}
  PROVE  HeadInv'
<1>1. SavedOK'  BY SavedKept
<1>2. ValidChain(st.head)'  BY HeadKept
<1> QED  BY <1>1, <1>2 DEF HeadInv, ChainsOK, PanicOK

-----------------------------------------------------------------------------
(* HeadInv: events and storing *)

LEMMA HeadReceiveHead ==
  ASSUME IInv, HeadInv, NEW e \in CandidateHeads, ReceiveHead(e)
  PROVE  HeadInv'
<1>1. /\ pc = "select" /\ pc' = "store" /\ ev' = e /\ UNCHANGED <<blocks, st, headFile>>
      /\ ~e.autoAdd
  BY ChainAssumption DEF ReceiveHead, invVars
<1>2. SaveDir => ~ev.autoAdd /\ ~ev'.autoAdd  BY <1>1 DEF HeadInv, SavedOK
<1> QED  BY <1>1, <1>2, QuietStep

LEMMA HeadHandleCandidateTx ==
  ASSUME IInv, HeadInv, NEW t \in CandidateTxs, HandleCandidateTx(t)
  PROVE  HeadInv'
<1>1. /\ pc \in {"select", "load"} /\ UNCHANGED <<blocks, pc, ev, headFile>>
      /\ st' = AddMempoolTx(st, t) /\ t \in Tx \ txs
  BY ChainAssumption DEF HandleCandidateTx
<1>2. t \notin Included(st)  BY <1>1 DEF IInv, StateOK, FromInventory
<1>3. st'.head = st.head  BY <1>1, <1>2, AddMempoolTxOK DEF IInv, StateOK
<1> QED  BY <1>1, <1>3, QuietStep

\* While the saved head is loaded there is nothing to store.
LEMMA StoringIsNotLoading ==
  ASSUME IInv, HeadInv, SaveDir,
         ev.txs # <<>> \/ ev.merkles # <<>> \/ ev.blocks # <<>>
  PROVE  /\ ~ev.autoAdd /\ ~NoEvent.autoAdd
         /\ ~[ev EXCEPT !.txs = Tail(@)].autoAdd
         /\ ~[ev EXCEPT !.merkles = Tail(@)].autoAdd
         /\ ~[ev EXCEPT !.blocks = Tail(@)].autoAdd
<1>1. ~ev.autoAdd  BY DEF HeadInv, SavedOK
<1>2. ev \in CandidateHeadEvent  BY DEF IInv, TypeOK
<1> QED  BY <1>1, <1>2 DEF CandidateHeadEvent, NoEvent

LEMMA HeadStoreNextTx ==
  ASSUME IInv, HeadInv, StoreNextTx
  PROVE  HeadInv'
<1> DEFINE t == Head(ev.txs)
<1>1. /\ pc = "store" /\ ev.txs # <<>> /\ UNCHANGED <<blocks, headFile>> /\ t \in Tx
      /\ \/ Return /\ UNCHANGED st
         \/ /\ ev' = [ev EXCEPT !.txs = Tail(@)] /\ UNCHANGED pc
            /\ \/ UNCHANGED st
               \/ t \notin txs /\ st' = AddMempoolTx(st, t)
  BY EventTails DEF StoreNextTx, IInv, TypeOK
<1>2. st'.head = st.head
  <2>1. CASE UNCHANGED st  BY <2>1
  <2>2. CASE t \notin txs /\ st' = AddMempoolTx(st, t)
    <3>1. t \in Tx \ Included(st)  BY <1>1, <2>2 DEF IInv, StateOK, FromInventory
    <3> QED  BY <2>2, <3>1, AddMempoolTxOK DEF IInv, StateOK
  <2> QED  BY <1>1, <2>1, <2>2
<1>3. SaveDir => ~ev.autoAdd /\ ~ev'.autoAdd
  BY <1>1, StoringIsNotLoading DEF Return
<1>4. pc' \in {"select", "store"}  BY <1>1 DEF Return
<1> QED  BY <1>1, <1>2, <1>3, <1>4, QuietStep

LEMMA HeadStoreNextMerkle ==
  ASSUME IInv, HeadInv, StoreNextMerkle
  PROVE  HeadInv'
<1>1. /\ pc = "store" /\ ev.merkles # <<>> /\ UNCHANGED <<blocks, headFile, st>>
      /\ \/ Return
         \/ ev' = [ev EXCEPT !.merkles = Tail(@)] /\ UNCHANGED pc
  BY DEF StoreNextMerkle
<1>2. SaveDir => ~ev.autoAdd /\ ~ev'.autoAdd
  BY <1>1, StoringIsNotLoading DEF Return
<1>3. pc' \in {"select", "store"}  BY <1>1 DEF Return
<1> QED  BY <1>1, <1>2, <1>3, QuietStep

LEMMA HeadStoreNextBlock ==
  ASSUME IInv, HeadInv, StoreNextBlock
  PROVE  HeadInv'
<1> DEFINE b == Head(ev.blocks)
<1>1. /\ pc = "store" /\ ev.blocks # <<>> /\ UNCHANGED <<txs, merkles, headFile, st>>
      /\ b \in Block \ {Zero}
      /\ \/ Return /\ UNCHANGED blocks
         \/ /\ ev' = [ev EXCEPT !.blocks = Tail(@)] /\ UNCHANGED pc
            /\ \/ UNCHANGED blocks
               \/ ~HasBlock(b) /\ VerifyBlock(b) /\ StoreBlock(b)
  BY EventTails DEF StoreNextBlock, IInv, TypeOK
<1>2. \A x \in DOMAIN blocks : x \in DOMAIN blocks' /\ blocks'[x] = blocks[x]
  <2>1. CASE UNCHANGED blocks  BY <2>1
  <2>2. CASE ~HasBlock(b) /\ VerifyBlock(b) /\ StoreBlock(b)
    <3> HIDE DEF b
    <3> QED  BY <1>1, <2>2, StoreBlockOK DEF IInv
  <2> QED  BY <1>1, <2>1, <2>2
<1>3. SaveDir => ~ev.autoAdd /\ ~ev'.autoAdd
  BY <1>1, StoringIsNotLoading DEF Return
<1>4. pc' \in {"select", "store"}  BY <1>1 DEF Return
<1> QED  BY <1>1, <1>2, <1>3, <1>4, QuietStep

-----------------------------------------------------------------------------
(* HeadInv: comparing work and rewinding *)

\* A step that touches nothing but the copy keeps the head's and the file's part.
LEMMA CopyMoves ==
  ASSUME IInv, HeadInv, UNCHANGED <<invVars, st, headFile>>,
         SaveDir => \/ UNCHANGED ev /\ (pc' = "select" => pc = "select")
                    \/ ~ev.autoAdd /\ ~ev'.autoAdd,
         (pc = "rewind" => ValidChain(ns.head))',
         (pc = "advance" => OrderedIn(blocks, Advancing))',
         pc' = "panicked" => \E b \in DOMAIN blocks \ {Zero} : SpendsWithin(b)
  PROVE  HeadInv'
<1>0. UNCHANGED blocks /\ st'.head = st.head /\ headFile' = headFile  BY DEF invVars
<1>1. SavedOK'  BY <1>0, SavedKept
<1>2. ValidChain(st.head)'  BY <1>0, HeadKept
<1>3. PanicOK'  BY <1>0 DEF PanicOK, SpendsWithin
<1> QED  BY <1>1, <1>2, <1>3 DEF HeadInv, ChainsOK

LEMMA HeadCompareWork ==
  ASSUME IInv, HeadInv, CompareWork
  PROVE  HeadInv'
<1>0. pc = "store" /\ UNCHANGED <<invVars, st, headFile>>  BY DEF CompareWork
<1>1. CASE HasMoreWork(ev.head)
  <2>1. pc' = "rewind" /\ ns' = st /\ UNCHANGED ev  BY <1>1 DEF CompareWork
  <2>2. ValidChain(ns.head)'
    <3>1. ValidChain(st.head)  BY DEF HeadInv, ChainsOK
    <3> QED  BY <1>0, <2>1, <3>1 DEF ValidChain, Before, Height, invVars
  <2> QED  BY <1>0, <2>1, <2>2, CopyMoves
<1>2. CASE ~HasMoreWork(ev.head)
  <2>1. Return  BY <1>2 DEF CompareWork
  <2>2. pc' = "select" /\ ~ev'.autoAdd  BY <2>1 DEF Return, NoEvent
  <2>3. SaveDir => ~ev.autoAdd
    <3> SUFFICES ASSUME SaveDir, ev.autoAdd  PROVE FALSE
      OBVIOUS
    <3>1. /\ ev.head = headFile /\ st.head = Zero /\ HasBlock(headFile)
          /\ TotalWork(headFile) > 0
      BY DEF HeadInv, SavedOK
    <3>2. TotalWork(Zero) = 0
      BY DEF IInv, InventoryOK, BlocksClosed, EmptyBlocks, TotalWork
    <3> QED  BY <1>2, <3>1, <3>2 DEF HasMoreWork
  <2> QED  BY <1>0, <2>2, <2>3, CopyMoves
<1> QED  BY <1>1, <1>2

LEMMA HeadRewindBlock ==
  ASSUME IInv, HeadInv, RewindBlock
  PROVE  HeadInv'
<1> DEFINE h == ns.head
           prev == BlockOf[h].prev
<1>0. /\ pc = "rewind" /\ h # lcaId /\ ns' = [ns EXCEPT !.head = prev]
      /\ UNCHANGED <<invVars, st, pc, ev, headFile>> /\ ns \in State
  BY DEF RewindBlock, IInv, TypeOK
<1>1. h \in DOMAIN blocks /\ h \in Block /\ lcaId \in Ancestors[h] /\ InventoryOK
  BY <1>0, WorkFacts DEF IInv, CopyOK
<1>2. h \in DOMAIN blocks \ {Zero}  BY <1>0, <1>1, AncestorsOfZero
<1>3. PICK b \in DOMAIN blocks \ {Zero} : b = h  BY <1>2
<1>4. ValidChain(b)
  <2>1. ValidChain(ns.head)  BY <1>0 DEF HeadInv, ChainsOK
  <2> QED  BY <1>3, <2>1 DEF ValidChain
<1>5. ValidChain(BlockOf[b].prev)  BY <1>1, <1>4, ValidPrefix
<1>6. ns'.head = BlockOf[b].prev  BY <1>0, <1>3 DEF State
<1>7. ValidChain(ns.head)'
  BY <1>0, <1>5, <1>6 DEF ValidChain, Before, Height, invVars
<1> QED  BY <1>0, <1>7, CopyMoves

LEMMA HeadRewindDone ==
  ASSUME IInv, HeadInv, RewindDone
  PROVE  HeadInv'
<1>0. /\ pc = "rewind" /\ pc' = "advance"
      /\ UNCHANGED <<invVars, st, ns, ev, headFile>>
  BY DEF RewindDone
<1>1. ns.head \in Block /\ ValidChain(ns.head)
  BY <1>0, WorkFacts DEF HeadInv, ChainsOK
<1>2. PICK h \in Block : h = ns.head  BY <1>1
<1>3. ValidChain(h)  BY <1>1, <1>2 DEF ValidChain
<1>4. OrderedIn(blocks, WholeChain(h))  BY <1>3, OrderedOfValid
<1>5. \A a \in Block \ {Zero} : Advancing'[a] = WholeChain(h)[a]
  BY <1>2, RewindDonePlaces
<1>6. blocks' = blocks  BY <1>0 DEF invVars
<1>7. OrderedIn(blocks', Advancing')  BY <1>4, <1>5, <1>6, OrderedMoved
<1>8. OrderedIn(blocks, Advancing)'  BY <1>7
<1> QED  BY <1>0, <1>8, CopyMoves

-----------------------------------------------------------------------------
(* HeadInv: advancing *)

\* What an advanced tx consumes was created by a tx in place, of the same block or below.
LEMMA CreatorInPlace ==
  ASSUME IInv, pc = "advance", ns.head # ev.head, NEW u \in ns.utxos
  PROVE  \E c \in Block \ {Zero} : \E j \in Advancing[c] :
            /\ blocks[c].height < blocks[NextBlock].height \/ c = NextBlock
            /\ u \in Created(BlockTxs(c)[j])
<1> DEFINE b == NextBlock
<1>1. /\ LedgerOK(ns) /\ ns.head \in DOMAIN blocks /\ ns.head \in Block
      /\ ev.head \in DOMAIN blocks /\ ns.head \in Ancestors[ev.head] /\ InventoryOK
      /\ ns.includedTxBlocks \in [Tx -> Block \cup {NoBlock}]
  BY WorkFacts DEF IInv, CopyOK
<1>2. /\ b \in Block \ {Zero} /\ b \in DOMAIN blocks /\ RecordedAt(ns, Advancing)
      /\ BlockOf[b].prev = ns.head
  BY <1>1, AdvanceFacts, ChildTowardsFacts DEF NextBlock
<1>3. PICK x \in Included(ns) : u \in Created(x)
  BY <1>1 DEF LedgerOK, CreatedBy
<1> DEFINE c == ns.includedTxBlocks[x]
<1>4. c # Zero /\ \E j \in Advancing[c] : BlockTxs(c)[j] = x
  BY <1>2 DEF RecordedAt
<1>5. c \in Block \ {Zero}  BY <1>1, <1>4 DEF Included
<1>6. PICK j \in Advancing[c] : BlockTxs(c)[j] = x  BY <1>4
<1> HIDE DEF b, c
<1>7. blocks[c].height < blocks[b].height \/ c = b
  <2> SUFFICES ASSUME c # b  PROVE Height(c) < Height(b)
    BY DEF Height
  <2>1. c \in Ancestors[ns.head]
    <3>1. Advancing[c] = WholeChain(ns.head)[c]  BY <1>5 DEF Advancing, b
    <3>2. j \in WholeChain(ns.head)[c]  BY <1>6, <3>1
    <3> QED  BY <1>5, <3>2 DEF WholeChain
  <2>2. Height(c) <= Height(ns.head) /\ c \in DOMAIN blocks  BY <1>1, <2>1, AncestorsKnown
  <2>3. Height(c) \in Nat /\ Height(ns.head) \in Nat /\ Height(b) = Height(ns.head) + 1
    BY <1>1, <1>2, <2>2, KnownBlockFacts
  <2> QED  BY <2>2, <2>3
<1> QED  BY <1>3, <1>5, <1>6, <1>7 DEF b

LEMMA HeadAdvanceNextTx ==
  ASSUME IInv, HeadInv, AdvanceNextTx
  PROVE  HeadInv'
<1> DEFINE b == NextBlock
           t == BlockTxs(b)[k]
<1>0. /\ pc = "advance" /\ ns.head # ev.head /\ k <= Len(BlockTxs(b))
      /\ UNCHANGED <<invVars, st, headFile>> /\ blocks' = blocks
  BY DEF AdvanceNextTx, invVars
<1>1. CASE ~CanAdvanceTx(ns, t, b, ev.autoAdd)
  <2>1. Return  BY <1>1 DEF AdvanceNextTx
  <2>2. pc' = "select" /\ ~ev'.autoAdd  BY <2>1 DEF Return, NoEvent
  <2>3. SaveDir => ~ev.autoAdd
    <3> SUFFICES ASSUME SaveDir, ev.autoAdd  PROVE FALSE
      OBVIOUS
    <3>1. ev.head = headFile /\ ValidChain(headFile)  BY DEF HeadInv, SavedOK
    <3>2. ValidChain(ev.head)  BY <3>1 DEF ValidChain
    <3> QED  BY <1>0, <1>1, <3>2, ValidAdvances
  <2> QED  BY <1>0, <2>2, <2>3, CopyMoves
<1>2. CASE CanAdvanceTx(ns, t, b, ev.autoAdd)
  <2>1. /\ k \in DOMAIN BlockTxs(b) /\ k \in Nat \ {0} /\ UNCHANGED <<pc, ev>>
        /\ \A a \in Block \ {Zero} :
              Advancing'[a] = IF a = b THEN Advancing[b] \cup {k} ELSE Advancing[a]
    BY <1>2, AdvanceNextTxFacts
  <2>2. b \in Block \ {Zero} /\ b \in DOMAIN blocks  BY <1>0, AdvanceFacts
  <2>3. /\ TxOf[t].minBlock <= blocks[b].height /\ ~DuplicateInput(t)
        /\ Consumed(t) \subseteq ns.utxos
    BY <1>2 DEF CanAdvanceTx, VerifyTxIncludable, Height
  <2>4. \A j \in Advancing[b] : j < k
    <3>1. Advancing[b] = 1..(k-1)  BY <1>0, <2>2 DEF Advancing
    <3> QED  BY <2>1, <3>1
  <2>5. \A u \in Consumed(t) :
           \E c \in Block \ {Zero} : \E j \in Advancing[c] :
              /\ blocks[c].height < blocks[b].height \/ c = b
              /\ u \in Created(BlockTxs(c)[j])
    BY <1>0, <2>3, CreatorInPlace
  <2>6. OrderedIn(blocks, Advancing)  BY <1>0 DEF HeadInv, ChainsOK
  <2> HIDE DEF b
  <2>7. OrderedIn(blocks, Advancing')
    BY <2>1, <2>2, <2>3, <2>4, <2>5, <2>6, OrderedAdvance
  <2>8. OrderedIn(blocks, Advancing)'  BY <1>0, <2>7
  <2> QED  BY <1>0, <2>1, <2>8, CopyMoves
<1> QED  BY <1>1, <1>2

LEMMA HeadAdvanceBlock ==
  ASSUME IInv, HeadInv, AdvanceBlock
  PROVE  HeadInv'
<1>0. pc = "advance" /\ UNCHANGED <<invVars, st, pc, ev, headFile>> /\ blocks' = blocks
  BY DEF AdvanceBlock, invVars
<1>1. OrderedIn(blocks, Advancing)  BY <1>0 DEF HeadInv, ChainsOK
<1>2. \A a \in Block \ {Zero} : Advancing'[a] = Advancing[a]  BY AdvanceBlockPlaces
<1>3. OrderedIn(blocks', Advancing')  BY <1>0, <1>1, <1>2, OrderedMoved
<1>4. OrderedIn(blocks, Advancing)'  BY <1>3
<1> QED  BY <1>0, <1>4, CopyMoves

LEMMA HeadCommit ==
  ASSUME IInv, HeadInv, Commit
  PROVE  HeadInv'
<1>0. /\ pc = "advance" /\ ns.head = ev.head /\ st' = ns /\ blocks' = blocks
      /\ headFile' = IF SaveDir THEN ns.head ELSE headFile
      /\ Return
  BY DEF Commit, invVars
<1>1. /\ LedgerOK(ns) /\ ns.head \in DOMAIN blocks /\ ns.head \in Block
      /\ HasMoreWork(ns.head) /\ Included(ns) \subseteq Tx
      /\ ns.includedTxBlocks \in [Tx -> Block \cup {NoBlock}]
  BY <1>0, WorkFacts
<1>2. RecordedAt(ns, Advancing) /\ OrderedIn(blocks, Advancing)
  BY <1>0 DEF IInv, CopyOK, HeadInv, ChainsOK
<1>3. PICK h \in Block : h = ns.head  BY <1>1
<1>4. \A a \in Block \ {Zero} : WholeChain(h)[a] = Advancing[a]
  BY <1>0, <1>3 DEF Advancing
<1>5. OrderedIn(blocks, WholeChain(h))  BY <1>2, <1>4, OrderedMoved
<1>6. RecordedAt(ns, WholeChain(h))  BY <1>1, <1>2, <1>4, RecordedMoved
<1>7. ValidChain(h)  BY <1>1, <1>5, <1>6, ValidOfOrdered
<1>8. ValidChain(h)'  BY <1>0, <1>7 DEF ValidChain, Before, Height
<1>9. ValidChain(st.head)'  BY <1>0, <1>3, <1>8 DEF ValidChain
<1>10. TotalWork(h) > 0
  <2>1. TotalWork(st.head) \in Nat /\ TotalWork(h) \in Nat
    BY <1>1, <1>3, KnownBlockFacts DEF IInv, StateOK, HasBlock
  <2> QED  BY <1>1, <1>3, <2>1 DEF HasMoreWork
<1>11. pc' = "select" /\ ~ev'.autoAdd  BY <1>0 DEF Return, NoEvent
<1>12. SavedOK'
  <2> SUFFICES ASSUME SaveDir  PROVE SavedOK'
    BY DEF SavedOK
  <2>1. headFile' = h /\ st'.head = h /\ h # NoBlock
    BY <1>0, <1>3, EntitiesAssumption
  <2>2. ValidChain(headFile)'  BY <1>8, <2>1 DEF ValidChain
  <2>3. HasBlock(headFile)' /\ (TotalWork(headFile) > 0)'
    BY <1>0, <1>1, <1>3, <1>10, <2>1 DEF HasBlock, TotalWork
  <2> QED  BY <1>11, <2>1, <2>2, <2>3 DEF SavedOK
<1> QED  BY <1>9, <1>11, <1>12 DEF HeadInv, ChainsOK, PanicOK

LEMMA HeadRestart ==
  ASSUME IInv, HeadInv, Restart
  PROVE  HeadInv'
<1>0. /\ st' = EmptyState /\ headFile' \in {headFile, NoBlock}
      /\ IF headFile' = NoBlock THEN pc' = "select" /\ ev' = NoEvent
         ELSE pc' = "load" /\ ev' = SavedHeadEvent(headFile')
      /\ SaveDir => blocks' = blocks
  BY DEF Restart, invVars
<1>1. st'.head = Zero  BY <1>0, EmptyStateOK
<1>2. ValidChain(Zero)'  BY NoPlacesAtZero DEF ValidChain
<1>3. ValidChain(st.head)'  BY <1>1, <1>2 DEF ValidChain
<1>4. SavedOK'
  <2> SUFFICES ASSUME SaveDir  PROVE SavedOK'
    BY DEF SavedOK
  <2>1. CASE headFile' = NoBlock
    BY <1>0, <1>1, <2>1 DEF SavedOK, NoEvent
  <2>2. CASE headFile' # NoBlock
    <3>1. headFile' = headFile  BY <1>0, <2>2
    <3>2. HasBlock(headFile) /\ ValidChain(headFile) /\ TotalWork(headFile) > 0
      BY <2>2, <3>1 DEF HeadInv, SavedOK
    <3>3. (HasBlock(headFile) /\ TotalWork(headFile) > 0)'
      BY <1>0, <3>1, <3>2 DEF HasBlock, TotalWork
    <3>4. ValidChain(headFile)'
      BY <1>0, <3>1, <3>2 DEF ValidChain, Before, Height
    <3>5. /\ ev'.autoAdd /\ ev'.head = headFile'
          /\ ev'.txs = <<>> /\ ev'.merkles = <<>> /\ ev'.blocks = <<>>
      BY <1>0, <2>2 DEF SavedHeadEvent, NoEvent
    <3> QED  BY <1>0, <1>1, <2>2, <3>3, <3>4, <3>5 DEF SavedOK
  <2> QED  BY <2>1, <2>2
<1>5. pc' \in {"select", "load"}  BY <1>0
<1> QED  BY <1>3, <1>4, <1>5 DEF HeadInv, ChainsOK, PanicOK

-----------------------------------------------------------------------------
(* HeadInv: what alone makes a rewind panic *)

\* An output that is missing when its tx is rewound was consumed by an included tx; on a
\* correct chain that tx comes later in the same block, whose txs are rewound from the front.
LEMMA MissingOutput ==
  ASSUME IInv, pc = "rewind", ValidChain(ns.head),
         NEW h \in DOMAIN blocks \ {Zero}, h = ns.head, NEW i \in Rewinding[h],
         NEW u \in Created(BlockTxs(h)[i]), u \notin ns.utxos,
         u \notin Consumed(BlockTxs(h)[i])
  PROVE  SpendsWithin(h)
<1> DEFINE t == BlockTxs(h)[i]
<1>1. /\ LedgerOK(ns) /\ h \in Block \ {Zero} /\ InventoryOK
      /\ ns.includedTxBlocks \in [Tx -> Block \cup {NoBlock}]
      /\ RecordedAt(ns, Rewinding) /\ ValidChain(h)
  BY WorkFacts DEF IInv, CopyOK
<1>2. \A c \in Block \ {Zero} : Rewinding[c] \subseteq WholeChain(h)[c]
  BY DEF Rewinding
<1>3. i \in WholeChain(h)[h] /\ i \in DOMAIN BlockTxs(h) /\ ns.includedTxBlocks[t] = h
  BY <1>1, <1>2 DEF RecordedAt
<1>4. t \in Tx /\ t \in Included(ns)
  BY <1>1, <1>3, BlockFacts, SeqElements, EntitiesAssumption DEF Included
<1> DEFINE p0 == <<h, i>>
<1>5. p0 \in Places(h) /\ TxAt(p0) = t /\ p0[1] = h /\ p0[2] = i
  BY <1>1, <1>3, PlacesFacts
<1> HIDE DEF t
<1>6. PICK x \in Included(ns) : u \in Consumed(x)
  <2>1. u \in CreatedBy(Included(ns))  BY <1>4 DEF CreatedBy, t
  <2>2. u \in ConsumedBy(Included(ns))  BY <1>1, <2>1 DEF LedgerOK
  <2> QED  BY <2>2 DEF ConsumedBy
<1> DEFINE c == ns.includedTxBlocks[x]
<1>7. c # Zero /\ \E j \in Rewinding[c] : BlockTxs(c)[j] = x
  BY <1>1 DEF RecordedAt
<1>8. c \in Block \ {Zero}  BY <1>1, <1>7 DEF Included
<1>9. PICK j \in Rewinding[c] : BlockTxs(c)[j] = x  BY <1>7
<1> HIDE DEF c
<1>10. j \in WholeChain(h)[c] /\ c \in Ancestors[h] /\ j \in DOMAIN BlockTxs(c)
  <2>1. j \in WholeChain(h)[c]  BY <1>2, <1>8, <1>9
  <2> QED  BY <1>8, <2>1 DEF WholeChain
<1> DEFINE q == <<c, j>>
<1>11. q \in Places(h) /\ TxAt(q) = x /\ q[1] = c /\ q[2] = j
  BY <1>1, <1>8, <1>9, <1>10, PlacesFacts
<1> HIDE DEF p0, q
<1>12. PICK p \in Places(h) : Before(p, q) /\ u \in Created(TxAt(p))
  BY <1>1, <1>6, <1>11 DEF ValidChain
<1>13. TxAt(p) \in Tx  BY <1>1, PlacesFacts
<1>14. TxAt(p) = t
  <2>1. u.txId = t  BY <1>4, TxFacts DEF t
  <2>2. u.txId = TxAt(p)  BY <1>12, <1>13, TxFacts
  <2> QED  BY <2>1, <2>2
<1>15. p = p0  BY <1>1, <1>5, <1>14 DEF ValidChain
<1>16. Height(h) < Height(c) \/ (h = c /\ i < j)
  BY <1>5, <1>11, <1>12, <1>15 DEF Before
<1>17. Height(c) <= Height(h) /\ Height(c) \in Nat /\ Height(h) \in Nat
  BY <1>1, <1>10, AncestorsKnown, KnownBlockFacts
<1>18. h = c /\ i < j  BY <1>16, <1>17
<1>19. BlockTxs(h)[j] = x /\ j \in DOMAIN BlockTxs(h)  BY <1>9, <1>10, <1>18
<1> QED  BY <1>3, <1>6, <1>18, <1>19 DEF SpendsWithin

LEMMA HeadRewindNextTx ==
  ASSUME IInv, HeadInv, RewindNextTx
  PROVE  HeadInv'
<1> DEFINE t == BlockTxs(ns.head)[k]
<1>0. /\ pc = "rewind" /\ ns.head # lcaId /\ k <= Len(BlockTxs(ns.head))
      /\ UNCHANGED <<invVars, st, ev, headFile>> /\ blocks' = blocks /\ k \in Nat \ {0}
      /\ ValidChain(ns.head)
  BY DEF RewindNextTx, invVars, IInv, TypeOK, HeadInv, ChainsOK
<1>1. /\ LedgerOK(ns) /\ ns.head \in DOMAIN blocks /\ ns.head \in Block
      /\ ns.includedTxBlocks \in [Tx -> Block \cup {NoBlock}]
      /\ lcaId \in Ancestors[ns.head] /\ RecordedAt(ns, Rewinding)
  BY <1>0, WorkFacts DEF IInv, CopyOK
<1>2. ns.head \in DOMAIN blocks \ {Zero} /\ ns.head \in Block \ {Zero}
  BY <1>0, <1>1, AncestorsOfZero
<1>3. k \in Rewinding[ns.head]
  <2>1. k \in DOMAIN BlockTxs(ns.head)  BY <1>0, <1>2, BlockFacts, SeqElements
  <2>2. ns.head \in Ancestors[ns.head]  BY <1>1, AncestorsClosed
  <2> QED  BY <1>0, <1>2, <2>1, <2>2 DEF Rewinding, WholeChain
<1>4. ns.includedTxBlocks[t] = ns.head /\ t \in Tx
  BY <1>1, <1>2, <1>3, BlockFacts, SeqElements DEF RecordedAt
<1>5. CASE RewindTxPanics(ns, t)
  <2>1. PICK u \in Created(t) : u \notin ns.utxos /\ u \notin Consumed(t)
    <3>1. CASE ~ Created(t) \subseteq ns.utxos \cup Consumed(t)
      BY <3>1
    <3>2. CASE ~ Balances(Created(t)) \subseteq ns.pkhUtxos \cup Balances(Consumed(t))
      <4>1. ns.pkhUtxos = Balances(ns.utxos)  BY <1>1 DEF LedgerOK
      <4> QED  BY <3>2, <4>1 DEF Balances
    <3> QED  BY <1>4, <1>5, <3>1, <3>2 DEF RewindTxPanics
  <2>2. PICK h \in DOMAIN blocks \ {Zero} : h = ns.head  BY <1>2
  <2>3. SpendsWithin(h)  BY <1>0, <1>3, <2>1, <2>2, MissingOutput
  <2>4. pc' = "panicked"  BY <1>5 DEF RewindNextTx
  <2> QED  BY <1>0, <2>3, <2>4, CopyMoves
<1>6. CASE ~RewindTxPanics(ns, t)
  <2>1. ns' = RewindTx(ns, t) /\ pc' = pc  BY <1>6 DEF RewindNextTx
  <2>2. t \in Included(ns)  BY <1>1, <1>2, <1>4, EntitiesAssumption DEF Included
  <2>3. ns'.head = ns.head  BY <1>1, <1>6, <2>1, <2>2, RewindTxOK
  <2>4. ValidChain(ns.head)'  BY <1>0, <2>3 DEF ValidChain, Before, Height
  <2> QED  BY <1>0, <2>1, <2>4, CopyMoves
<1> QED  BY <1>5, <1>6

-----------------------------------------------------------------------------
(* The invariant, and the properties *)

LEMMA HeadInitOK == Init => HeadInv
<1> SUFFICES ASSUME Init  PROVE HeadInv
  OBVIOUS
<1>1. st.head = Zero /\ headFile = NoBlock /\ pc = "select" /\ ev = NoEvent
  BY EmptyStateOK DEF Init
<1>2. ValidChain(st.head)  BY <1>1, NoPlacesAtZero DEF ValidChain
<1>3. SavedOK  BY <1>1 DEF SavedOK, NoEvent
<1> QED  BY <1>1, <1>2, <1>3 DEF HeadInv, ChainsOK, PanicOK

LEMMA HeadNextOK == IInv /\ HeadInv /\ [Next]_vars => HeadInv'
<1> SUFFICES ASSUME IInv, HeadInv, [Next]_vars  PROVE HeadInv'
  OBVIOUS
<1>1. CASE UNCHANGED vars
  BY <1>1 DEF vars, invVars, HeadInv, ChainsOK, SavedOK, PanicOK, ValidChain, Before, Height,
              OrderedIn, Advancing, NextBlock, HasBlock, TotalWork
<1>2. CASE \E e \in CandidateHeads : ReceiveHead(e)  BY <1>2, HeadReceiveHead
<1>3. CASE \E t \in CandidateTxs : HandleCandidateTx(t)  BY <1>3, HeadHandleCandidateTx
<1>4. CASE ReceiveSavedHead
  BY <1>4, QuietStep DEF ReceiveSavedHead, invVars
<1>5. CASE HandlerStep
  BY <1>4, <1>5, HeadStoreNextTx, HeadStoreNextMerkle, HeadStoreNextBlock, HeadCompareWork,
     HeadRewindNextTx, HeadRewindBlock, HeadRewindDone, HeadAdvanceNextTx, HeadAdvanceBlock,
     HeadCommit DEF HandlerStep
<1>6. CASE Restart  BY <1>6, HeadRestart
<1> QED  BY <1>1, <1>2, <1>3, <1>5, <1>6 DEF Next

LEMMA HeadInvHolds == Spec => []HeadInv
<1>1. Init => HeadInv  BY HeadInitOK
<1>2. IInv /\ HeadInv /\ [Next]_vars => HeadInv'  BY HeadNextOK
<1> QED  BY <1>1, <1>2, InvariantHolds, PTL DEF Spec

\* The head's chain is correct by the definition that has no state in it, whatever heads
\* arrived, in whatever order, and however often the node was restarted (chain.go:133).
THEOREM HeadIsValid == Spec => []HeadChainValid
<1>1. HeadInv => HeadChainValid  BY DEF HeadInv, ChainsOK, HeadChainValid
<1> QED  BY <1>1, HeadInvHolds, PTL

\* A restart replays the chain to the saved head, wherever the process died: no saved head
\* is ever refused by what is still stored (chain.go, NewChain).
THEOREM RestartsRestoreHead == Spec => []RestartRestoresHead
<1>1. HeadInv => RestartRestoresHead
  BY DEF HeadInv, SavedOK, RestartRestoresHead
<1> QED  BY <1>1, HeadInvHolds, PTL

\* Rewind panics only at a block in which a tx consumes what an earlier one creates: while
\* no such block is stored, state.go's panics are unreachable.
THEOREM OnlyIntraBlockPanics ==
  Spec => []((\A b \in DOMAIN blocks \ {Zero} : ~SpendsWithin(b)) => NoPanic)
<1>1. HeadInv => ((\A b \in DOMAIN blocks \ {Zero} : ~SpendsWithin(b)) => NoPanic)
  BY DEF HeadInv, PanicOK, NoPanic
<1> QED  BY <1>1, HeadInvHolds, PTL

-----------------------------------------------------------------------------
(* Coins: what txs and blocks create and consume *)

ValueOf == [u \in Utxo |-> u.value]
Worth(us) == SumFunctionOnSet(ValueOf, us)
InSum(t) == SumFunctionOnSet(InputValues(t), DOMAIN InputValues(t))
OutSum(t) == SumFunctionOnSet(OutputValues(t), DOMAIN OutputValues(t))

LEMMA UtxoValues == \A u \in Utxo : ValueOf[u] = u.value /\ u.value \in Nat
BY DEF ValueOf, Utxo

LEMMA WorthTyped ==
  ASSUME NEW us \in SUBSET Utxo, IsFiniteSet(us)
  PROVE  Worth(us) \in Nat
<1>1. \A u \in us : ValueOf[u] \in Nat  BY UtxoValues
<1> QED  BY <1>1, SumNat DEF Worth

\* InputsValue and OutputsValue are the sums modulo 2^64.
LEMMA TxValues ==
  ASSUME NEW t \in Tx
  PROVE  /\ InSum(t) \in Nat /\ InputsValue(t) = InSum(t) % UintMod
         /\ OutSum(t) \in Nat /\ OutputsValue(t) = OutSum(t) % UintMod
<1>1. TxOf[t] \in TxRecord  BY EntitiesAssumption
<1>2. InputValues(t) \in Seq(Nat)
  <2> DEFINE s == TxOf[t].inputs
  <2>1. s \in Seq([utxo : Utxo, pkh : Pkh])  BY <1>1 DEF TxRecord
  <2>2. \A i \in DOMAIN s : s[i].utxo.value \in Nat
    <3>1. \A i \in DOMAIN s : s[i] \in [utxo : Utxo, pkh : Pkh]  BY <2>1, SeqElements
    <3> QED  BY <3>1 DEF Utxo
  <2>3. DOMAIN s = 1..Len(s) /\ Len(s) \in Nat  BY <2>1
  <2> HIDE DEF s
  <2>4. [i \in DOMAIN s |-> s[i].utxo.value] \in Seq(Nat)  BY <2>2, <2>3
  <2> QED  BY <2>4 DEF InputValues, s
<1>3. OutputValues(t) \in Seq(Nat)
  <2> DEFINE s == TxOf[t].outputs
  <2>1. s \in Seq([value : Nat, pkh : Pkh])  BY <1>1 DEF TxRecord
  <2>2. \A i \in DOMAIN s : s[i].value \in Nat
    <3>1. \A i \in DOMAIN s : s[i] \in [value : Nat, pkh : Pkh]  BY <2>1, SeqElements
    <3> QED  BY <3>1
  <2>3. DOMAIN s = 1..Len(s) /\ Len(s) \in Nat  BY <2>1
  <2> HIDE DEF s
  <2>4. [i \in DOMAIN s |-> s[i].value] \in Seq(Nat)  BY <2>2, <2>3
  <2> QED  BY <2>4 DEF OutputValues, s
<1>4. ASSUME NEW v \in Seq(Nat)
      PROVE  /\ SumFunctionOnSet(v, DOMAIN v) \in Nat
             /\ Uint64Sum(v) = SumFunctionOnSet(v, DOMAIN v) % UintMod
  <2>1. IsFiniteSet(DOMAIN v) /\ \A i \in DOMAIN v : v[i] \in Nat
    BY SeqElements, FiniteDomain
  <2> DEFINE D == DOMAIN v
  <2>2. IsFiniteSet(D) /\ \A i \in D : v[i] \in Nat  BY <2>1
  <2> HIDE DEF D
  <2>3. SumFunctionOnSet(v, D) \in Nat  BY <2>2, SumNat
  <2> QED  BY <2>3, Uint64SumIs DEF D
<1> QED  BY <1>2, <1>3, <1>4 DEF InSum, OutSum, InputsValue, OutputsValue

\* The utxos that a tx creates are worth its outputs.
LEMMA CreatedWorth ==
  ASSUME NEW t \in Tx
  PROVE  IsFiniteSet(Created(t)) /\ Worth(Created(t)) = OutSum(t)
<1> DEFINE s == TxOf[t].outputs
           D == DOMAIN s
           h == [i \in D |-> [txId |-> t, ind |-> i, value |-> s[i].value]]
           g == OutputValues(t)
<1>1. s \in Seq([value : Nat, pkh : Pkh])  BY EntitiesAssumption DEF TxRecord
<1>2. IsFiniteSet(D)  BY <1>1, FiniteDomain
<1>3. \A i \in D : i \in Nat /\ s[i] \in [value : Nat, pkh : Pkh]  BY <1>1, SeqElements
<1>4. \A i, j \in D : h[i] = h[j] => i = j
  <2> SUFFICES ASSUME NEW i \in D, NEW j \in D, h[i] = h[j]  PROVE i = j  OBVIOUS
  <2>1. h[i].ind = i /\ h[j].ind = j  OBVIOUS
  <2> QED  BY <2>1
<1>5. ASSUME NEW i \in D  PROVE g[i] \in Nat /\ g[i] = ValueOf[h[i]]
  <2>1. h[i] \in Utxo /\ h[i].value = s[i].value  BY <1>3 DEF Utxo
  <2>2. g[i] = s[i].value  BY DEF OutputValues
  <2> QED  BY <2>1, <2>2, UtxoValues
<1>6. Created(t) = {h[i] : i \in D} /\ DOMAIN g = D  BY DEF Created, OutputValues
<1> HIDE DEF D, h, g
<1>7. IsFiniteSet({h[i] : i \in D}) /\ SumFunctionOnSet(ValueOf, {h[i] : i \in D}) = SumFunctionOnSet(g, D)
  BY <1>2, <1>4, <1>5, SumImage
<1> QED  BY <1>6, <1>7 DEF Worth, OutSum, g

\* Those that it consumes are worth its inputs, unless it names one twice.
LEMMA ConsumedWorth ==
  ASSUME NEW t \in Tx
  PROVE  IsFiniteSet(Consumed(t)) /\ (~DuplicateInput(t) => Worth(Consumed(t)) = InSum(t))
<1> DEFINE s == TxOf[t].inputs
           D == DOMAIN s
           h == [i \in D |-> s[i].utxo]
           g == InputValues(t)
<1>1. s \in Seq([utxo : Utxo, pkh : Pkh])  BY EntitiesAssumption DEF TxRecord
<1>2. IsFiniteSet(D)  BY <1>1, FiniteDomain
<1>3. \A i \in D : h[i] \in Utxo
  <2>1. \A i \in D : s[i] \in [utxo : Utxo, pkh : Pkh]  BY <1>1, SeqElements
  <2> QED  BY <2>1
<1>4. Consumed(t) = {h[i] : i \in D} /\ DOMAIN g = D  BY DEF Consumed, InputValues
<1>5. ~DuplicateInput(t) => \A i, j \in D : h[i] = h[j] => i = j  BY DEF DuplicateInput
<1>6. ASSUME NEW i \in D  PROVE g[i] \in Nat /\ g[i] = ValueOf[h[i]]
  <2>1. g[i] = h[i].value  BY DEF InputValues
  <2> QED  BY <1>3, <2>1, UtxoValues
<1> HIDE DEF D, h, g
<1>7. IsFiniteSet({h[i] : i \in D})
  <2> DEFINE I == {h[i] : i \in D}
  <2>1. h \in [D -> I]
    <3>1. h = [i \in D |-> h[i]]  BY DEF h
    <3> QED  BY <3>1
  <2>2. h \in Surjection(D, I)  BY <2>1 DEF Surjection
  <2> HIDE DEF I
  <2> QED  BY <1>2, <2>2, FS_Surjection DEF I
<1>8. ASSUME ~DuplicateInput(t)  PROVE Worth(Consumed(t)) = InSum(t)
  <2>1. SumFunctionOnSet(ValueOf, {h[i] : i \in D}) = SumFunctionOnSet(g, D)
    BY <1>2, <1>5, <1>6, <1>8, SumImage
  <2> QED  BY <1>4, <2>1 DEF Worth, InSum, g
<1> QED  BY <1>4, <1>7, <1>8

\* What the txs of a block take in, and what they pay out.
BlockIn(b) == SumFunctionOnSet([i \in DOMAIN BlockTxs(b) |-> InSum(BlockTxs(b)[i])],
                               DOMAIN BlockTxs(b))
BlockOut(b) == SumFunctionOnSet([i \in DOMAIN BlockTxs(b) |-> OutSum(BlockTxs(b)[i])],
                                DOMAIN BlockTxs(b))

\* A sum of the txs' values modulo 2^64 is that of the block's modulo 2^64.
LEMMA BlockUint64Sum ==
  ASSUME NEW s \in Seq(Nat), NEW v \in Seq(Nat), DOMAIN v = DOMAIN s,
         \A i \in DOMAIN s : v[i] = s[i] % UintMod
  PROVE  Uint64Sum(v) = SumFunctionOnSet(s, DOMAIN s) % UintMod
<1> DEFINE D == DOMAIN s
<1>1. IsFiniteSet(D) /\ \A i \in D : s[i] \in Nat /\ v[i] = s[i] % UintMod
  BY SeqElements, FiniteDomain
<1>2. UintMod \in Nat \ {0}  BY EntitiesAssumption
<1> HIDE DEF D
<1>3. SumFunctionOnSet(v, D) % UintMod = SumFunctionOnSet(s, D) % UintMod
  BY <1>1, <1>2, SumMod
<1> QED  BY <1>3, Uint64SumIs DEF D

\* Modulo 2^64 a stored block pays out the reward and what it takes in; and but for the
\* coinbase no tx pays out more than it takes in.
LEMMA BlockAdds ==
  ASSUME InventoryOK, VerifiedInv, NEW b \in DOMAIN blocks \ {Zero},
         \A t \in txs : OutSum(t) < UintMod
  PROVE  /\ BlockIn(b) \in Nat /\ BlockOut(b) \in Nat
         /\ (BlockReward + BlockIn(b)) % UintMod = BlockOut(b) % UintMod
         /\ BlockOut(b) < BlockIn(b) + UintMod
<1> DEFINE bTxs == BlockTxs(b)
           D == DOMAIN bTxs
           ins == [i \in D |-> InSum(bTxs[i])]
           outs == [i \in D |-> OutSum(bTxs[i])]
           vIns == [i \in D |-> InputsValue(bTxs[i])]
           vOuts == [i \in D |-> OutputsValue(bTxs[i])]
           M == UintMod
<1>1. M \in Nat \ {0} /\ BlockReward \in Nat  BY EntitiesAssumption
<1>2. b \in Block \ {Zero} /\ bTxs \in Seq(Tx) /\ ToSet(bTxs) \subseteq txs
  <2>1. b \in Block \ {Zero}  BY KnownBlockFacts
  <2>2. BlockOf[b].merkleRoot \in merkles /\ BlockOf[b].merkleRoot \in Merkle
    BY <2>1, BlockFacts DEF InventoryOK, BlocksClosed
  <2>3. LeafSet(BlockOf[b].merkleRoot) = ToSet(bTxs)
    BY <2>2, EntitiesAssumption DEF LeafSet, BlockTxs
  <2> QED  BY <2>1, <2>2, <2>3, BlockFacts DEF InventoryOK, MerklesClosed
<1>3. /\ Len(bTxs) \in Nat /\ D = 1..Len(bTxs) /\ IsFiniteSet(D)
      /\ \A i \in D : bTxs[i] \in Tx /\ bTxs[i] \in txs
  BY <1>2, SeqElements, FS_Interval DEF ToSet
<1>4. /\ bTxs # <<>> /\ \A i \in D : TxOf[bTxs[i]].isCoinbase <=> i = 1
      /\ (BlockReward + Uint64Sum(vIns)) % M = Uint64Sum(vOuts)
  BY DEF VerifiedInv, BlockBalanced
<1>5. ASSUME NEW i \in D
      PROVE  /\ ins[i] \in Nat /\ outs[i] \in Nat
             /\ vIns[i] = ins[i] % M /\ vOuts[i] = outs[i] % M
             /\ vIns[i] \in Nat /\ vOuts[i] \in Nat
             /\ outs[i] < M /\ (i # 1 => outs[i] <= ins[i])
  <2> DEFINE t == bTxs[i]
  <2>1. t \in Tx /\ t \in txs /\ outs[i] < M  BY <1>3
  <2>2. /\ ins[i] = InSum(t) /\ outs[i] = OutSum(t)
        /\ vIns[i] = InputsValue(t) /\ vOuts[i] = OutputsValue(t)
    OBVIOUS
  <2>3. i # 1 => HasSurplus(t)  BY <1>4, <2>1 DEF VerifiedInv, TxBalanced
  <2> HIDE DEF t, ins, outs, vIns, vOuts
  <2>4. /\ InSum(t) \in Nat /\ InputsValue(t) = InSum(t) % M
        /\ OutSum(t) \in Nat /\ OutputsValue(t) = OutSum(t) % M
    BY <2>1, TxValues
  <2>5. OutSum(t) % M = OutSum(t)  BY <1>1, <2>1, <2>2, <2>4
  <2>6. InSum(t) % M \in Nat /\ InSum(t) % M <= InSum(t)  BY <1>1, <2>4
  <2>7. i # 1 => OutSum(t) <= InSum(t)  BY <2>3, <2>4, <2>5, <2>6 DEF HasSurplus
  <2> QED  BY <2>1, <2>2, <2>4, <2>5, <2>6, <2>7
<1>6. /\ ins \in Seq(Nat) /\ outs \in Seq(Nat) /\ vIns \in Seq(Nat) /\ vOuts \in Seq(Nat)
      /\ DOMAIN ins = D /\ DOMAIN outs = D /\ DOMAIN vIns = D /\ DOMAIN vOuts = D
  <2>1. D = 1..Len(bTxs) /\ Len(bTxs) \in Nat  BY <1>3
  <2>2. DOMAIN ins = D /\ DOMAIN outs = D /\ DOMAIN vIns = D /\ DOMAIN vOuts = D  OBVIOUS
  <2>3. \A f \in {ins, outs, vIns, vOuts} : f = [i \in D |-> f[i]]  OBVIOUS
  <2>4. \A f \in {ins, outs, vIns, vOuts} : \A i \in D : f[i] \in Nat  BY <1>5
  <2> HIDE DEF D, ins, outs, vIns, vOuts
  <2>5. \A f \in {ins, outs, vIns, vOuts} : f \in [1..Len(bTxs) -> Nat]  BY <2>1, <2>3, <2>4
  <2>6. \A f \in [1..Len(bTxs) -> Nat] : f \in Seq(Nat)
    <3> DEFINE n == Len(bTxs)
    <3>1. n \in Nat  BY <2>1
    <3> HIDE DEF n
    <3> QED  BY <3>1 DEF n
  <2> QED  BY <2>2, <2>5, <2>6
<1>7. BlockIn(b) = SumFunctionOnSet(ins, D) /\ BlockOut(b) = SumFunctionOnSet(outs, D)
  BY DEF BlockIn, BlockOut
<1>8. 1 \in D  BY <1>2, <1>3, <1>4
<1> HIDE DEF ins, outs, vIns, vOuts, D, bTxs
<1>9. Uint64Sum(vIns) = BlockIn(b) % M /\ Uint64Sum(vOuts) = BlockOut(b) % M
  BY <1>5, <1>6, <1>7, BlockUint64Sum
<1>10. BlockIn(b) \in Nat /\ BlockOut(b) \in Nat  BY <1>3, <1>5, <1>7, SumNat
<1>11. (BlockReward + BlockIn(b)) % M = BlockOut(b) % M
  <2> DEFINE I == BlockIn(b)
             R == BlockReward
  <2>1. I \in Nat /\ R \in Nat  BY <1>1, <1>10
  <2>2. (R + (I % M)) % M = BlockOut(b) % M  BY <1>4, <1>9
  <2> HIDE DEF I, R
  <2>3. I % M \in Nat  BY <1>1, <2>1
  <2>4. ((I % M) + R) % M = (I + R) % M  BY <1>1, <2>1, ModAdd
  <2>5. (I % M) + R = R + (I % M) /\ I + R = R + I  BY <2>1, <2>3
  <2>6. (R + (I % M)) % M = (R + I) % M  BY <2>4, <2>5
  <2> QED  BY <2>2, <2>6 DEF I, R
<1>12. BlockOut(b) < BlockIn(b) + M
  <2> DEFINE E == D \ {1}
  <2>1. IsFiniteSet(E) /\ E \subseteq D  BY <1>3, FS_Subset
  <2>2. BlockOut(b) = outs[1] + SumFunctionOnSet(outs, E)
    <3>1. IsFiniteSet(D) /\ \A i \in D : outs[i] \in Nat  BY <1>3, <1>5
    <3>2. SumFunctionOnSet(outs, D) = outs[1] + SumFunctionOnSet(outs, D \ {1})
      BY <1>8, <3>1, SumStep
    <3> QED  BY <1>7, <3>2
  <2>3. BlockIn(b) = ins[1] + SumFunctionOnSet(ins, E)
    <3>1. IsFiniteSet(D) /\ \A i \in D : ins[i] \in Nat  BY <1>3, <1>5
    <3>2. SumFunctionOnSet(ins, D) = ins[1] + SumFunctionOnSet(ins, D \ {1})
      BY <1>8, <3>1, SumStep
    <3> QED  BY <1>7, <3>2
  <2>4. \A i \in E : outs[i] \in Nat /\ ins[i] \in Nat /\ outs[i] <= ins[i]  BY <1>5
  <2> HIDE DEF E
  <2>5. SumFunctionOnSet(outs, E) <= SumFunctionOnSet(ins, E)  BY <2>1, <2>4, SumLe
  <2>6. SumFunctionOnSet(outs, E) \in Nat /\ SumFunctionOnSet(ins, E) \in Nat
    BY <2>1, <2>4, SumNat
  <2>7. outs[1] < M /\ outs[1] \in Nat /\ ins[1] \in Nat  BY <1>5, <1>8
  <2> QED  BY <1>1, <2>2, <2>3, <2>5, <2>6, <2>7
<1> QED  BY <1>10, <1>11, <1>12

\* The sets that the txs of a list create or consume, one set for each place.
LEMMA WorthOfList ==
  ASSUME NEW D, IsFiniteSet(D), NEW F, NEW g,
         \A i \in D : F[i] \in SUBSET Utxo /\ IsFiniteSet(F[i]) /\ g[i] = Worth(F[i]),
         \A i, j \in D : i # j => F[i] \cap F[j] = {},
         NEW W, W = UNION {F[i] : i \in D}
  PROVE  IsFiniteSet(W) /\ Worth(W) = SumFunctionOnSet(g, D)
<1>1. \A i \in D : \A u \in F[i] : ValueOf[u] \in Nat  BY UtxoValues
<1>2. \A i \in D : g[i] = SumFunctionOnSet(ValueOf, F[i])  BY DEF Worth
<1>3. \A i \in D : IsFiniteSet(F[i])  OBVIOUS
<1>4. \A u : u \in W <=> \E i \in D : u \in F[i]  OBVIOUS
<1>5. IsFiniteSet(W) /\ SumFunctionOnSet(ValueOf, W) = SumFunctionOnSet(g, D)
  BY <1>1, <1>2, <1>3, <1>4, SumPartition
<1> QED  BY <1>5 DEF Worth

\* A correct chain's last block adds to what its chain creates and consumes.
LEMMA ChainAdds ==
  ASSUME InventoryOK, NEW b \in DOMAIN blocks \ {Zero}, ValidChain(b),
         NEW C, C = ChainTxs(BlockOf[b].prev),
         IsFiniteSet(CreatedBy(C)), IsFiniteSet(ConsumedBy(C))
  PROVE  /\ CreatedBy(C) \subseteq Utxo /\ ConsumedBy(C) \subseteq Utxo
         /\ CreatedBy(ChainTxs(b)) \subseteq Utxo /\ ConsumedBy(ChainTxs(b)) \subseteq Utxo
         /\ IsFiniteSet(CreatedBy(ChainTxs(b))) /\ IsFiniteSet(ConsumedBy(ChainTxs(b)))
         /\ Worth(CreatedBy(ChainTxs(b))) = Worth(CreatedBy(C)) + BlockOut(b)
         /\ Worth(ConsumedBy(ChainTxs(b))) = Worth(ConsumedBy(C)) + BlockIn(b)
<1> DEFINE prev == BlockOf[b].prev
           bTxs == BlockTxs(b)
           D == DOMAIN bTxs
           T == ToSet(bTxs)
           made == [i \in D |-> Created(bTxs[i])]
           used == [i \in D |-> Consumed(bTxs[i])]
           outs == [i \in D |-> OutSum(bTxs[i])]
           ins == [i \in D |-> InSum(bTxs[i])]
<1>1. /\ b \in Block \ {Zero} /\ prev \in DOMAIN blocks /\ prev \in Block
      /\ bTxs \in Seq(Tx) /\ b \in Ancestors[b]
  BY KnownBlockFacts, BlockFacts, AncestorsClosed DEF HasBlock
<1>2. IsFiniteSet(D) /\ \A i \in D : i \in Nat /\ bTxs[i] \in Tx  BY <1>1, SeqElements, FiniteDomain
<1>3. ChainTxs(b) = C \cup T
  <2>1. Ancestors[b] \ {Zero} = {b} \cup (Ancestors[prev] \ {Zero})  BY <1>1, AncestorsStep
  <2> HIDE DEF prev
  <2> QED  BY <2>1 DEF ChainTxs, prev
<1>4. \A i \in D : <<b, i>> \in Places(b) /\ TxAt(<<b, i>>) = bTxs[i]
  BY <1>1 DEF Places, TxAt
<1>5. \A x \in C : \E p \in Places(b) : TxAt(p) = x /\ p[1] # b
  <2> SUFFICES ASSUME NEW x \in C  PROVE \E p \in Places(b) : TxAt(p) = x /\ p[1] # b
    OBVIOUS
  <2>1. PICK a \in Ancestors[prev] \ {Zero} : x \in ToSet(BlockTxs(a))  BY DEF ChainTxs
  <2>2. PICK i \in DOMAIN BlockTxs(a) : BlockTxs(a)[i] = x  BY <2>1 DEF ToSet
  <2>3. a \in Ancestors[b] /\ a # b  BY <1>1, AncestorsStep, NotOwnAncestor
  <2>4. <<a, i>> \in Places(b) /\ TxAt(<<a, i>>) = x  BY <2>1, <2>2, <2>3 DEF Places, TxAt
  <2> QED  BY <2>3, <2>4
<1>6. \A p \in Places(b) : TxAt(p) \in Tx  BY <1>1, PlacesFacts
<1>7. C \subseteq Tx  BY <1>5, <1>6
<1>8. ASSUME NEW p \in Places(b), NEW q \in Places(b), p # q
      PROVE  TxAt(p) # TxAt(q) /\ Consumed(TxAt(p)) \cap Consumed(TxAt(q)) = {}
  BY <1>8 DEF ValidChain
<1>9. \A p \in Places(b) : ~DuplicateInput(TxAt(p))  BY DEF ValidChain
<1>10. ASSUME NEW i \in D
       PROVE  /\ made[i] \in SUBSET Utxo /\ IsFiniteSet(made[i]) /\ outs[i] = Worth(made[i])
              /\ used[i] \in SUBSET Utxo /\ IsFiniteSet(used[i]) /\ ins[i] = Worth(used[i])
  <2>1. bTxs[i] \in Tx /\ ~DuplicateInput(bTxs[i])  BY <1>2, <1>4, <1>9
  <2> QED  BY <2>1, TxFacts, CreatedWorth, ConsumedWorth
<1>11. ASSUME NEW i \in D, NEW j \in D, i # j
       PROVE  made[i] \cap made[j] = {} /\ used[i] \cap used[j] = {}
  <2>1. <<b, i>> # <<b, j>>  BY <1>11
  <2>2. bTxs[i] # bTxs[j] /\ Consumed(bTxs[i]) \cap Consumed(bTxs[j]) = {}
    BY <1>4, <1>8, <2>1
  <2>3. Created(bTxs[i]) \cap Created(bTxs[j]) = {}  BY <1>2, <2>2, TxFacts
  <2> QED  BY <2>2, <2>3
<1>12. CreatedBy(T) = UNION {made[i] : i \in D} /\ ConsumedBy(T) = UNION {used[i] : i \in D}
  BY DEF CreatedBy, ConsumedBy, ToSet
<1>13. BlockOut(b) = SumFunctionOnSet(outs, D) /\ BlockIn(b) = SumFunctionOnSet(ins, D)
  BY DEF BlockOut, BlockIn
<1>14. CreatedBy(C) \cap CreatedBy(T) = {} /\ ConsumedBy(C) \cap ConsumedBy(T) = {}
  <2>1. ASSUME NEW x \in C, NEW y \in T
        PROVE  Created(x) \cap Created(y) = {} /\ Consumed(x) \cap Consumed(y) = {}
    <3>1. PICK p \in Places(b) : TxAt(p) = x /\ p[1] # b  BY <1>5
    <3>2. PICK i \in D : bTxs[i] = y  BY DEF ToSet
    <3>3. p # <<b, i>>  BY <3>1
    <3>4. x # y /\ Consumed(x) \cap Consumed(y) = {} /\ x \in Tx /\ y \in Tx
      BY <1>4, <1>6, <1>8, <3>1, <3>2, <3>3
    <3>5. Created(x) \cap Created(y) = {}  BY <3>4, TxFacts
    <3> QED  BY <3>4, <3>5
  <2> HIDE DEF T
  <2> QED  BY <2>1 DEF CreatedBy, ConsumedBy
<1>15. /\ CreatedBy(C) \subseteq Utxo /\ ConsumedBy(C) \subseteq Utxo
       /\ CreatedBy(T) \subseteq Utxo /\ ConsumedBy(T) \subseteq Utxo
  <2>1. T \subseteq Tx  BY <1>2 DEF ToSet
  <2> HIDE DEF T
  <2> QED  BY <1>7, <2>1, TxFacts DEF CreatedBy, ConsumedBy
<1>16. CreatedBy(C \cup T) = CreatedBy(C) \cup CreatedBy(T)
       /\ ConsumedBy(C \cup T) = ConsumedBy(C) \cup ConsumedBy(T)
  BY DEF CreatedBy, ConsumedBy
<1> HIDE DEF prev, bTxs, D, T, made, used, outs, ins
<1>17. IsFiniteSet(CreatedBy(T)) /\ Worth(CreatedBy(T)) = BlockOut(b)
  <2>1. \A i \in D : made[i] \in SUBSET Utxo /\ IsFiniteSet(made[i]) /\ outs[i] = Worth(made[i])
    BY <1>10
  <2>2. \A i, j \in D : i # j => made[i] \cap made[j] = {}  BY <1>11
  <2>3. IsFiniteSet(D)  BY <1>2
  <2>4. CreatedBy(T) = UNION {made[i] : i \in D}  BY <1>12
  <2>5. IsFiniteSet(CreatedBy(T)) /\ Worth(CreatedBy(T)) = SumFunctionOnSet(outs, D)
    BY <2>1, <2>2, <2>3, <2>4, WorthOfList
  <2> QED  BY <1>13, <2>5
<1>18. IsFiniteSet(ConsumedBy(T)) /\ Worth(ConsumedBy(T)) = BlockIn(b)
  <2>1. \A i \in D : used[i] \in SUBSET Utxo /\ IsFiniteSet(used[i]) /\ ins[i] = Worth(used[i])
    BY <1>10
  <2>2. \A i, j \in D : i # j => used[i] \cap used[j] = {}  BY <1>11
  <2>3. IsFiniteSet(D)  BY <1>2
  <2>4. ConsumedBy(T) = UNION {used[i] : i \in D}  BY <1>12
  <2>5. IsFiniteSet(ConsumedBy(T)) /\ Worth(ConsumedBy(T)) = SumFunctionOnSet(ins, D)
    BY <2>1, <2>2, <2>3, <2>4, WorthOfList
  <2> QED  BY <1>13, <2>5
<1>19. ASSUME NEW U \in SUBSET Utxo, NEW V \in SUBSET Utxo,
              IsFiniteSet(U), IsFiniteSet(V), U \cap V = {}
       PROVE  IsFiniteSet(U \cup V) /\ Worth(U \cup V) = Worth(U) + Worth(V)
  <2>1. \A u \in U \cup V : ValueOf[u] \in Nat  BY UtxoValues
  <2>2. IsFiniteSet(U \cup V)  BY <1>19, FS_Union
  <2> QED  BY <1>19, <2>1, <2>2, SumUnion DEF Worth
<1>20. /\ IsFiniteSet(CreatedBy(C \cup T))
       /\ Worth(CreatedBy(C \cup T)) = Worth(CreatedBy(C)) + BlockOut(b)
  <2> DEFINE U == CreatedBy(C)
             V == CreatedBy(T)
  <2>1. U \in SUBSET Utxo /\ V \in SUBSET Utxo /\ IsFiniteSet(U) /\ IsFiniteSet(V) /\ U \cap V = {}
    BY <1>14, <1>15, <1>17
  <2> HIDE DEF U, V
  <2>2. IsFiniteSet(U \cup V) /\ Worth(U \cup V) = Worth(U) + Worth(V)  BY <1>19, <2>1
  <2> QED  BY <1>16, <1>17, <2>2 DEF U, V
<1>21. /\ IsFiniteSet(ConsumedBy(C \cup T))
       /\ Worth(ConsumedBy(C \cup T)) = Worth(ConsumedBy(C)) + BlockIn(b)
  <2> DEFINE U == ConsumedBy(C)
             V == ConsumedBy(T)
  <2>1. U \in SUBSET Utxo /\ V \in SUBSET Utxo /\ IsFiniteSet(U) /\ IsFiniteSet(V) /\ U \cap V = {}
    BY <1>14, <1>15, <1>18
  <2> HIDE DEF U, V
  <2>2. IsFiniteSet(U \cup V) /\ Worth(U \cup V) = Worth(U) + Worth(V)  BY <1>19, <2>1
  <2> QED  BY <1>16, <1>18, <2>2 DEF U, V
<1>22. CreatedBy(C \cup T) \subseteq Utxo /\ ConsumedBy(C \cup T) \subseteq Utxo
  BY <1>15, <1>16
<1> QED  BY <1>3, <1>15, <1>20, <1>21, <1>22

\* A block that pays out what it must modulo M pays out exactly that, while the coins that
\* exist and what it may pay are below M.
LEMMA BlockArithmetic ==
  ASSUME NEW M \in Nat \ {0}, NEW R \in Nat, NEW in \in Nat, NEW out \in Nat, NEW S \in Nat,
         (R + in) % M = out % M, out < in + M, S + R < M, in <= S + out
  PROVE  out = in + R
<1> DEFINE a == R + in
           p == a \div M
           q == out \div M
           d == p - q
<1>1. a \in Nat  OBVIOUS
<1> HIDE DEF a
<1>2. p \in Nat /\ a = M * p + (a % M) /\ a % M \in Nat  BY <1>1, ModFacts
<1>3. q \in Nat /\ out = M * q + (out % M)  BY ModFacts
<1>4. M * p \in Int /\ M * q \in Int /\ d \in Int  BY <1>2, <1>3
<1>5. M * p = M * q + M * d
  <2>1. p = q + d  BY <1>2, <1>3
  <2> HIDE DEF p, q, d
  <2>2. M * (q + d) = M * q + M * d  BY <1>3, <1>4, Distributes
  <2> QED  BY <2>1, <2>2
<1> HIDE DEF p, q, d
<1>6. M * d \in Int  BY <1>4
<1>7. a - out = M * d  BY <1>1, <1>2, <1>3, <1>4, <1>5, <1>6 DEF a
<1>8. M * d < M /\ -M < M * d  BY <1>6, <1>7 DEF a
<1>9. d = 0
  <2>1. CASE d >= 1
    <3>1. M * d >= M  BY <1>4, <2>1
    <3> QED  BY <1>6, <1>8, <3>1
  <2>2. CASE d <= -1
    <3>1. M * d <= -M  BY <1>4, <2>2
    <3> QED  BY <1>6, <1>8, <3>1
  <2> QED  BY <1>4, <2>1, <2>2
<1>10. M * d = 0  BY <1>9
<1> QED  BY <1>1, <1>7, <1>10 DEF a

\* A correct chain consumes only what it creates.
LEMMA ValidConsumes ==
  ASSUME NEW h \in Block, ValidChain(h)
  PROVE  ConsumedBy(ChainTxs(h)) \subseteq CreatedBy(ChainTxs(h))
<1>0. Ancestors[h] \subseteq Block  BY AncestorsClosed
<1>1. \A p \in Places(h) : TxAt(p) \in ChainTxs(h)
  <2> SUFFICES ASSUME NEW p \in Places(h)  PROVE TxAt(p) \in ChainTxs(h)  OBVIOUS
  <2>1. /\ p[1] \in Ancestors[h] \ {Zero} /\ p[2] \in DOMAIN BlockTxs(p[1])
        /\ TxAt(p) = BlockTxs(p[1])[p[2]]
    BY PlacesFacts
  <2> QED  BY <2>1 DEF ChainTxs, ToSet
<1>2. \A x \in ChainTxs(h) : \E p \in Places(h) : TxAt(p) = x
  <2> SUFFICES ASSUME NEW x \in ChainTxs(h)  PROVE \E p \in Places(h) : TxAt(p) = x  OBVIOUS
  <2>1. PICK a \in Ancestors[h] \ {Zero} : x \in ToSet(BlockTxs(a))  BY DEF ChainTxs
  <2>2. PICK i \in DOMAIN BlockTxs(a) : BlockTxs(a)[i] = x  BY <2>1 DEF ToSet
  <2>3. <<a, i>> \in Places(h) /\ TxAt(<<a, i>>) = x  BY <2>2 DEF Places, TxAt
  <2> QED  BY <2>3
<1>3. ASSUME NEW x \in ChainTxs(h), NEW u \in Consumed(x)
      PROVE  u \in CreatedBy(ChainTxs(h))
  <2>1. PICK q \in Places(h) : TxAt(q) = x  BY <1>2
  <2>2. PICK p \in Places(h) : u \in Created(TxAt(p))  BY <2>1 DEF ValidChain
  <2> QED  BY <1>1, <2>2 DEF CreatedBy
<1> QED  BY <1>3 DEF ConsumedBy

\* What a correct chain's txs create and do not consume is worth its blocks' rewards.
ChainSupply(h) ==
    /\ IsFiniteSet(CreatedBy(ChainTxs(h))) /\ IsFiniteSet(ConsumedBy(ChainTxs(h)))
    /\ CreatedBy(ChainTxs(h)) \subseteq Utxo /\ ConsumedBy(ChainTxs(h)) \subseteq Utxo
    /\ Worth(CreatedBy(ChainTxs(h)))
         = Worth(ConsumedBy(ChainTxs(h))) + BlockReward * Height(h)

LEMMA SupplyStep ==
  ASSUME InventoryOK, VerifiedInv, \A t \in txs : OutSum(t) < UintMod,
         NEW b \in DOMAIN blocks \ {Zero}, ValidChain(b),
         BlockReward * Height(b) < UintMod,
         ChainSupply(BlockOf[b].prev)
  PROVE  ChainSupply(b)
<1> DEFINE prev == BlockOf[b].prev
           C == ChainTxs(prev)
           made == Worth(CreatedBy(C))
           used == Worth(ConsumedBy(C))
           made2 == Worth(CreatedBy(ChainTxs(b)))
           used2 == Worth(ConsumedBy(ChainTxs(b)))
           S == BlockReward * Height(prev)
<1>1. /\ b \in Block \ {Zero} /\ Height(prev) \in Nat /\ Height(b) = Height(prev) + 1
      /\ UintMod \in Nat \ {0} /\ BlockReward \in Nat
  BY KnownBlockFacts, EntitiesAssumption DEF HasBlock
<1>2. S \in Nat /\ BlockReward * Height(b) = S + BlockReward
  <2>1. BlockReward * (Height(prev) + 1) = BlockReward * Height(prev) + BlockReward * 1
    BY <1>1, Distributes
  <2>2. S \in Nat /\ BlockReward * 1 = BlockReward  BY <1>1
  <2> QED  BY <1>1, <2>1, <2>2
<1>3. /\ IsFiniteSet(CreatedBy(C)) /\ IsFiniteSet(ConsumedBy(C))
      /\ CreatedBy(C) \subseteq Utxo /\ ConsumedBy(C) \subseteq Utxo
      /\ made = used + S
  BY DEF ChainSupply
<1>4. /\ CreatedBy(ChainTxs(b)) \subseteq Utxo /\ ConsumedBy(ChainTxs(b)) \subseteq Utxo
      /\ IsFiniteSet(CreatedBy(ChainTxs(b))) /\ IsFiniteSet(ConsumedBy(ChainTxs(b)))
      /\ made2 = made + BlockOut(b) /\ used2 = used + BlockIn(b)
  BY <1>3, ChainAdds
<1>5. /\ BlockIn(b) \in Nat /\ BlockOut(b) \in Nat
      /\ (BlockReward + BlockIn(b)) % UintMod = BlockOut(b) % UintMod
      /\ BlockOut(b) < BlockIn(b) + UintMod
  BY BlockAdds
<1>6. made \in Nat /\ used \in Nat /\ made2 \in Nat /\ used2 \in Nat
  BY <1>3, <1>4, WorthTyped
<1>7. used2 <= made2
  <2>1. \A u \in CreatedBy(ChainTxs(b)) : ValueOf[u] \in Nat  BY <1>4, UtxoValues
  <2>2. ConsumedBy(ChainTxs(b)) \in SUBSET CreatedBy(ChainTxs(b))  BY <1>1, ValidConsumes
  <2> QED  BY <1>4, <2>1, <2>2, SumSubset DEF Worth
<1> HIDE DEF made, used, made2, used2, S, C, prev
<1>8. BlockIn(b) <= S + BlockOut(b)  BY <1>2, <1>3, <1>4, <1>5, <1>6, <1>7
<1>9. S + BlockReward < UintMod  BY <1>2
<1>10. BlockOut(b) = BlockIn(b) + BlockReward
  BY <1>1, <1>2, <1>5, <1>8, <1>9, BlockArithmetic
<1>11. made2 = used2 + BlockReward * Height(b)
  BY <1>1, <1>2, <1>3, <1>4, <1>5, <1>6, <1>10
<1> QED  BY <1>4, <1>11 DEF ChainSupply, made2, used2

LEMMA SupplyAtZero == InventoryOK => ChainSupply(Zero)
<1> SUFFICES ASSUME InventoryOK  PROVE ChainSupply(Zero)  OBVIOUS
<1>1. ChainTxs(Zero) = {}  BY AncestorsOfZero DEF ChainTxs
<1>2. CreatedBy({}) = {} /\ ConsumedBy({}) = {}  BY DEF CreatedBy, ConsumedBy
<1>3. Height(Zero) = 0  BY DEF InventoryOK, BlocksClosed, EmptyBlocks, Height
<1>4. Worth({}) = 0  BY SumEmpty DEF Worth
<1>5. BlockReward * 0 = 0  BY EntitiesAssumption
<1> QED  BY <1>1, <1>2, <1>3, <1>4, <1>5, FS_EmptySet DEF ChainSupply

\* Induction over the height of a known block.
LEMMA SupplyOfChain ==
  ASSUME InventoryOK, VerifiedInv, \A t \in txs : OutSum(t) < UintMod,
         NEW h \in DOMAIN blocks, ValidChain(h), BlockReward * Height(h) < UintMod
  PROVE  ChainSupply(h)
<1> DEFINE Bad == {b \in DOMAIN blocks :
                     ValidChain(b) /\ BlockReward * Height(b) < UintMod /\ ~ChainSupply(b)}
           Heights == {Height(b) : b \in Bad}
<1> SUFFICES ASSUME Bad # {}  PROVE FALSE  OBVIOUS
<1>1. Heights \subseteq Nat /\ Heights # {}  BY KnownBlockFacts
<1> HIDE DEF Heights
<1>2. PICK m \in Heights : \A n \in Heights : m <= n  BY <1>1, LeastNatural
<1> USE DEF Heights
<1>3. PICK b \in Bad : Height(b) = m  OBVIOUS
<1>4. b \in DOMAIN blocks \ {Zero}  BY SupplyAtZero
<1> DEFINE prev == BlockOf[b].prev
<1>5. /\ prev \in DOMAIN blocks /\ Height(prev) \in Nat /\ Height(b) = Height(prev) + 1
      /\ ValidChain(prev)
  BY <1>4, KnownBlockFacts, ValidPrefix DEF HasBlock
<1>6. BlockReward * Height(prev) < UintMod
  <2>1. BlockReward \in Nat /\ UintMod \in Nat  BY EntitiesAssumption
  <2>2. BlockReward * (Height(prev) + 1) = BlockReward * Height(prev) + BlockReward * 1
    BY <1>5, <2>1, Distributes
  <2>3. BlockReward * Height(prev) \in Nat /\ BlockReward * 1 = BlockReward  BY <1>5, <2>1
  <2>4. BlockReward * Height(b) < UintMod  OBVIOUS
  <2> QED  BY <1>5, <2>1, <2>2, <2>3, <2>4
<1>7. ChainSupply(prev)
  <2> SUFFICES ASSUME ~ChainSupply(prev)  PROVE FALSE  OBVIOUS
  <2>1. prev \in Bad  BY <1>5, <1>6
  <2>2. m <= Height(prev)  BY <1>2, <2>1
  <2> QED  BY <1>3, <1>5, <2>2
<1>8. ChainSupply(b)  BY <1>4, <1>7, SupplyStep
<1> QED  BY <1>8

\* The balances of the owners partition what the utxo set is worth.
LEMMA BalancesAddUp ==
  ASSUME NEW s, LedgerOK(s), IsFiniteSet(s.utxos), Worth(s.utxos) < UintMod
  PROVE  SumFunction([pkh \in Pkh |-> GetPkhBalance(s, pkh)]) = Worth(s.utxos)
<1> DEFINE F == [pkh \in Pkh |-> {u \in s.utxos : Owner(u) = pkh}]
           g == [pkh \in Pkh |-> GetPkhBalance(s, pkh)]
<1>1. /\ s.utxos \subseteq Utxo /\ s.pkhUtxos = Balances(s.utxos)
      /\ s.utxos \subseteq CreatedBy(Included(s)) /\ Included(s) \subseteq Tx
  BY LedgerFields DEF LedgerOK
<1>2. \A u \in s.utxos : Owner(u) \in Pkh  BY <1>1, TxFacts DEF CreatedBy
<1>3. ASSUME NEW pkh \in Pkh
      PROVE  F[pkh] \in SUBSET Utxo /\ IsFiniteSet(F[pkh]) /\ g[pkh] = Worth(F[pkh])
  <2> DEFINE P == F[pkh]
             v == [u \in P |-> u.value]
  <2>1. GetPkhUtxos(s, pkh, FALSE) = P
    <3> DEFINE Q == {p \in s.pkhUtxos : p[1] = pkh}
    <3>1. GetPkhUtxos(s, pkh, FALSE) = {p[2] : p \in Q}  BY DEF GetPkhUtxos
    <3>2. ASSUME NEW p \in Q  PROVE p[2] \in P
      <4>1. p \in Balances(s.utxos) /\ p[1] = pkh  BY <1>1
      <4>2. PICK u \in s.utxos : p = <<Owner(u), u>>  BY <4>1 DEF Balances
      <4> QED  BY <4>1, <4>2
    <3>3. ASSUME NEW u \in P  PROVE u \in {p[2] : p \in Q}
      <4>1. <<Owner(u), u>> \in Q  BY <1>1 DEF Balances
      <4> QED  BY <4>1
    <3> HIDE DEF P
    <3> QED  BY <3>1, <3>2, <3>3
  <2>2. P \in SUBSET s.utxos  OBVIOUS
  <2>3. IsFiniteSet(P) /\ P \in SUBSET Utxo  BY <1>1, <2>2, FS_Subset
  <2>4. g[pkh] = SumFunctionOnSet(v, P) % UintMod
    <3>1. g[pkh] = SumFunction(v) % UintMod  BY <2>1 DEF GetPkhBalance
    <3> QED  BY <3>1 DEF SumFunction
  <2>5. \A u \in P : v[u] \in Nat /\ v[u] = ValueOf[u]  BY <2>3, UtxoValues
  <2> HIDE DEF P, v, g
  <2>6. SumFunctionOnSet(v, P) = Worth(P)  BY <2>3, <2>5, SumSame DEF Worth
  <2>7. Worth(P) \in Nat  BY <2>3, WorthTyped
  <2>8. Worth(P) <= Worth(s.utxos)
    <3>1. \A u \in s.utxos : ValueOf[u] \in Nat  BY <1>1, UtxoValues
    <3> QED  BY <2>2, <3>1, SumSubset DEF Worth
  <2>9. Worth(s.utxos) \in Nat  BY <1>1, WorthTyped
  <2>10. Worth(P) % UintMod = Worth(P)  BY <2>7, <2>8, <2>9, EntitiesAssumption
  <2> QED  BY <2>3, <2>4, <2>6, <2>10 DEF P
<1>4. \A x, y \in Pkh : x # y => F[x] \cap F[y] = {}  OBVIOUS
<1>5. s.utxos = UNION {F[pkh] : pkh \in Pkh}  BY <1>2
<1>6. SumFunction(g) = SumFunctionOnSet(g, Pkh)  BY DEF SumFunction
<1>7. IsFiniteSet(Pkh)  BY EntitiesAssumption
<1> HIDE DEF F, g
<1>8. Worth(s.utxos) = SumFunctionOnSet(g, Pkh)  BY <1>3, <1>4, <1>5, <1>7, WorthOfList
<1> QED  BY <1>6, <1>8 DEF g

-----------------------------------------------------------------------------
(* VerifiedInv: what is stored was verified *)

LEMMA OnlyVerified ==
  ASSUME IInv, [Next]_vars
  PROVE  /\ txs' = {} \/ \E t : txs' = txs \cup {t}
         /\ \A t \in txs' \ txs : VerifyTx(t)
         /\ \A b \in DOMAIN blocks' \ DOMAIN blocks : b # Zero => VerifyBlock(b)
<1>1. CASE UNCHANGED invVars  BY <1>1 DEF invVars
<1>2. CASE \E e \in CandidateHeads : ReceiveHead(e)  BY <1>1, <1>2 DEF ReceiveHead
<1>3. CASE \E t \in CandidateTxs : HandleCandidateTx(t)
  <2>1. PICK t \in CandidateTxs : HandleCandidateTx(t)  BY <1>3
  <2>2. VerifyTx(t) /\ txs' = txs \cup {t} /\ blocks' = blocks
    BY <2>1 DEF HandleCandidateTx, StoreTx
  <2> QED  BY <2>2
<1>4. CASE StoreNextTx
  <2> DEFINE t == Head(ev.txs)
  <2>1. blocks' = blocks  BY <1>4 DEF StoreNextTx
  <2>2. txs' = txs \/ (VerifyTx(t) /\ txs' = txs \cup {t})  BY <1>4 DEF StoreNextTx, StoreTx
  <2> HIDE DEF t
  <2> QED  BY <2>1, <2>2
<1>5. CASE StoreNextMerkle
  <2>1. txs' = txs /\ blocks' = blocks  BY <1>5 DEF StoreNextMerkle
  <2> QED  BY <2>1
<1>6. CASE StoreNextBlock
  <2> DEFINE b == Head(ev.blocks)
  <2>1. txs' = txs  BY <1>6 DEF StoreNextBlock
  <2>2. blocks' = blocks \/ (VerifyBlock(b) /\ StoreBlock(b))  BY <1>6 DEF StoreNextBlock
  <2> HIDE DEF b
  <2>3. CASE blocks' = blocks  BY <2>1, <2>3
  <2>4. CASE VerifyBlock(b) /\ StoreBlock(b)
    <3>1. DOMAIN blocks' = DOMAIN blocks \cup {b}  BY <2>4 DEF StoreBlock
    <3> QED  BY <2>1, <2>4, <3>1
  <2> QED  BY <2>2, <2>3, <2>4
<1>7. CASE Restart
  <2>1. UNCHANGED invVars \/ (txs' = {} /\ blocks' = EmptyBlocks)  BY <1>7 DEF Restart
  <2> QED  BY <1>1, <2>1 DEF EmptyBlocks
<1>8. CASE HandlerStep
  BY <1>1, <1>4, <1>5, <1>6, <1>8 DEF HandlerStep, ReceiveSavedHead, CompareWork, RewindNextTx,
     RewindBlock, RewindDone, AdvanceNextTx, AdvanceBlock, Commit
<1>9. CASE UNCHANGED vars  BY <1>1, <1>9 DEF vars
<1> QED  BY <1>2, <1>3, <1>7, <1>8, <1>9 DEF Next

LEMMA VerifiedNextOK ==
  ASSUME IInv, VerifiedInv, [Next]_vars
  PROVE  VerifiedInv'
<1>1. ASSUME NEW t \in txs'  PROVE TxOf[t].signed /\ TxBalanced(t)
  <2>1. CASE t \in txs  BY <2>1 DEF VerifiedInv
  <2>2. CASE t \notin txs
    <3>1. VerifyTx(t)  BY <2>2, OnlyVerified
    <3> QED  BY <3>1 DEF VerifyTx, TxBalanced
  <2> QED  BY <2>1, <2>2
<1>2. ASSUME NEW b \in DOMAIN blocks' \ {Zero}  PROVE BlockBalanced(b)
  <2>1. CASE b \in DOMAIN blocks  BY <2>1 DEF VerifiedInv
  <2>2. CASE b \notin DOMAIN blocks
    <3>1. VerifyBlock(b)  BY <2>2, OnlyVerified
    <3>2. BlockTxs(b) # <<>>  BY <3>1 DEF VerifyBlock
    <3> QED  BY <3>1, <3>2 DEF VerifyBlock, BlockBalanced
  <2> QED  BY <2>1, <2>2
<1>3. IsFiniteSet(txs')
  <2>1. IsFiniteSet(txs)  BY DEF VerifiedInv
  <2>2. CASE txs' = {}  BY <2>2, FS_EmptySet
  <2>3. CASE \E t : txs' = txs \cup {t}  BY <2>1, <2>3, FS_AddElement
  <2> QED  BY <2>2, <2>3, OnlyVerified
<1> QED  BY <1>1, <1>2, <1>3 DEF VerifiedInv

LEMMA VerifiedHolds == Spec => []VerifiedInv
<1>1. Init => VerifiedInv
  BY FS_EmptySet DEF Init, InventoryInit, EmptyBlocks, VerifiedInv
<1>2. IInv /\ VerifiedInv /\ [Next]_vars => VerifiedInv'  BY VerifiedNextOK
<1> QED  BY <1>1, <1>2, InvariantHolds, PTL DEF Spec

\* While neither a stored tx's outputs nor the rewards add up to 2^64, the balances of all
\* owners add up to exactly the rewards of the head's chain: what a block pays out is
\* compared modulo 2^64 only (verify.go), and still neither a fork, a rewind nor a fee
\* creates or burns a coin.
THEOREM SupplyIsConserved == Spec => [](ValuesFit => SupplyConserved)
<1>1. ASSUME IInv, HeadInv, VerifiedInv, ValuesFit  PROVE SupplyConserved
  <2> DEFINE h == st.head
             made == CreatedBy(ChainTxs(h))
             used == ConsumedBy(ChainTxs(h))
  <2>1. /\ InventoryOK /\ LedgerOK(st) /\ h \in DOMAIN blocks /\ ValidChain(h)
        /\ h \in Block
    BY <1>1, KnownBlockFacts DEF IInv, StateOK, HasBlock, HeadInv, ChainsOK
  <2>2. \A t \in txs : OutSum(t) < UintMod  BY <1>1 DEF ValuesFit, OutSum, SumFunction
  <2>3. BlockReward * Height(h) < UintMod  BY <1>1 DEF ValuesFit
  <2>4. ChainSupply(h)
    <3> HIDE DEF h
    <3> QED  BY <1>1, <2>1, <2>2, <2>3, SupplyOfChain
  <2>5. Included(st) = ChainTxs(h)  BY <1>1, IncludedIsChain DEF ConfirmedOnChain
  <2>6. st.utxos = made \ used /\ used \subseteq made
    BY <2>1, <2>5, ValidConsumes DEF LedgerOK
  <2>7. /\ IsFiniteSet(made) /\ IsFiniteSet(used) /\ made \subseteq Utxo
        /\ Worth(made) = Worth(used) + BlockReward * Height(h)
    BY <2>4 DEF ChainSupply
  <2> HIDE DEF made, used
  <2>8. IsFiniteSet(st.utxos) /\ st.utxos \in SUBSET Utxo  BY <2>6, <2>7, FS_Subset
  <2>9. Worth(made) = Worth(used) + Worth(st.utxos)
    <3> DEFINE U == st.utxos
    <3>1. made = used \cup U /\ used \cap U = {}  BY <2>6
    <3>2. \A u \in used \cup U : ValueOf[u] \in Nat  BY <2>7, <3>1, UtxoValues
    <3>3. IsFiniteSet(U)  BY <2>8
    <3> HIDE DEF U
    <3> QED  BY <2>7, <3>1, <3>2, <3>3, SumUnion DEF Worth, U
  <2>10. Worth(used) \in Nat /\ Worth(st.utxos) \in Nat
    BY <2>6, <2>7, <2>8, WorthTyped
  <2>11. BlockReward * Height(h) \in Nat
    <3>1. Height(h) \in Nat /\ BlockReward \in Nat  BY <2>1, KnownBlockFacts, EntitiesAssumption
    <3> QED  BY <3>1
  <2>12. Worth(st.utxos) = BlockReward * Height(h)  BY <2>7, <2>9, <2>10, <2>11
  <2>13. SumFunction([pkh \in Pkh |-> GetPkhBalance(st, pkh)]) = Worth(st.utxos)
    BY <2>1, <2>3, <2>8, <2>12, BalancesAddUp
  <2> QED  BY <2>12, <2>13 DEF SupplyConserved
<1> QED  BY <1>1, InvariantHolds, HeadInvHolds, VerifiedHolds, PTL

-----------------------------------------------------------------------------
(* The mining target: the greedy fill of CreateMiningTarget *)

LEMMA CountUp ==
  ASSUME NEW n \in Nat, NEW P, 0 \in P, \A m \in 1..n : m - 1 \in P => m \in P
  PROVE  n \in P
<1> DEFINE Bad == {m \in 0..n : m \notin P}
<1> SUFFICES ASSUME Bad # {}  PROVE FALSE  OBVIOUS
<1>1. Bad \subseteq Nat  OBVIOUS
<1> HIDE DEF Bad
<1>2. PICK m \in Bad : \A j \in Bad : m <= j  BY <1>1, LeastNatural
<1> USE DEF Bad
<1>3. m \in 1..n /\ m - 1 \in 0..n  OBVIOUS
<1>4. m - 1 \notin Bad  BY <1>2, <1>3
<1> QED  BY <1>3, <1>4

VSizeOf == [t \in Tx |-> TxOf[t].vSize]

LEMMA SizeFacts ==
  /\ {CoinbaseVSize, MinNonCoinbaseVSize, MaxBlockVSize} \subseteq Nat
  /\ MinNonCoinbaseVSize > 0 /\ CoinbaseVSize <= MaxBlockVSize
  /\ \A t \in Tx : VSizeOf[t] = TxOf[t].vSize /\ TxOf[t].vSize \in Nat
BY EntitiesAssumption, SizesAssumption DEF VSizeOf, TxRecord

\* What the loop of CreateMiningTarget does with one candidate.
AddTx(acc, t) ==
    IF \/ acc.txIds # <<>> /\ acc.size > MaxBlockVSize - MinNonCoinbaseVSize
       \/ acc.size + TxOf[t].vSize > MaxBlockVSize
       \/ acc.used \cap Consumed(t) # {}
    THEN acc
    ELSE [txIds |-> Append(acc.txIds, t),
          size |-> acc.size + TxOf[t].vSize,
          used |-> acc.used \cup Consumed(t)]

NothingAdded == [txIds |-> <<>>, size |-> CoinbaseVSize, used |-> {}]
Fill == [txIds : Seq(Tx), size : Nat, used : SUBSET Utxo]

LEMMA AddTxTyped ==
  ASSUME NEW acc \in Fill, NEW t \in Tx
  PROVE  AddTx(acc, t) \in Fill
<1>1. Append(acc.txIds, t) \in Seq(Tx)  BY DEF Fill
<1>2. acc.size + TxOf[t].vSize \in Nat  BY SizeFacts DEF Fill
<1>3. acc.used \cup Consumed(t) \in SUBSET Utxo  BY TxFacts DEF Fill
<1> QED  BY <1>1, <1>2, <1>3 DEF AddTx, Fill

\* FillBlock, candidate by candidate.
LEMMA FillSteps ==
  ASSUME NEW n \in Nat, NEW q \in [1..n -> Tx]
  PROVE  \E fill \in [0..n -> Fill] :
            /\ fill[0] = NothingAdded /\ FillBlock(q) = fill[n].txIds
            /\ \A m \in 1..n : fill[m] = AddTx(fill[m - 1], q[m])
<1> DEFINE c == [T \in SUBSET (1..n) |-> Max(T)]
           op == [i \in 1..n |-> [a \in Fill |-> AddTx(a, q[i])]]
           R(iter) == [T \in SUBSET (1..n) |->
                         IF T = {} THEN NothingAdded
                         ELSE AddTx(iter[T \ {Max(T)}], q[Max(T)])]
           it == CHOOSE iter : iter = R(iter)
<1>1. NothingAdded \in Fill  BY SizeFacts DEF NothingAdded, Fill
<1>2. \A i \in 1..n : \A a \in Fill : op[i][a] \in Fill  BY AddTxTyped
<1>3. PICK g : FoldedBy(g, 1..n, Fill, NothingAdded, c, op)
  <2> HIDE DEF op
  <2> QED  BY <1>1, <1>2, FoldLeftSteps
<1>4. ASSUME NEW T \in SUBSET (1..n)
      PROVE  g[T] = IF T = {} THEN NothingAdded ELSE AddTx(g[T \ {Max(T)}], q[Max(T)])
  <2>1. CASE T = {}  BY <1>3, <2>1 DEF FoldedBy
  <2>2. CASE T # {}
    <3>1. c[T] = Max(T) /\ Max(T) \in 1..n  BY <2>2, MaxOfIndices
    <3>2. g[T \ {Max(T)}] \in Fill  BY <1>3 DEF FoldedBy
    <3>3. g[T] = op[Max(T)][g[T \ {Max(T)}]]  BY <1>3, <2>2, <3>1 DEF FoldedBy
    <3> QED  BY <2>2, <3>1, <3>2, <3>3
  <2> QED  BY <2>1, <2>2
<1>5. g = R(g)
  <2>1. g = [T \in SUBSET (1..n) |-> g[T]]  BY <1>3 DEF FoldedBy
  <2> QED  BY <1>4, <2>1
<1> HIDE DEF R
<1>6. it = R(it)  BY <1>5
<1> USE DEF R
<1>7. DOMAIN q = 1..n  OBVIOUS
<1>8. FillBlock(q) = it[1..n].txIds
  BY <1>7 DEF FillBlock, FoldLeft, MapThenFoldSet, AddTx, NothingAdded
<1> HIDE DEF it
<1>9. \A T \in SUBSET (1..n) :
         it[T] = IF T = {} THEN NothingAdded ELSE AddTx(it[T \ {Max(T)}], q[Max(T)])
  BY <1>6
<1> DEFINE fill == [m \in 0..n |-> it[1..m]]
<1>10. fill[0] = NothingAdded
  <2>1. 1..0 = {} /\ {} \in SUBSET (1..n) /\ 0 \in 0..n  OBVIOUS
  <2>2. it[{}] = NothingAdded  BY <1>9, <2>1
  <2>3. fill[0] = it[1..0]  BY <2>1
  <2> HIDE DEF fill
  <2> QED  BY <2>1, <2>2, <2>3
<1>11. ASSUME NEW m \in 1..n  PROVE fill[m] = AddTx(fill[m - 1], q[m])
  <2>1. Max(1..m) = m /\ (1..m) \ {m} = 1..(m - 1) /\ 1..m # {}
    <3>1. m \in Nat /\ m # 0 /\ m \in 1..m  OBVIOUS
    <3> QED  BY <3>1, LastIndex
  <2>2. 1..m \in SUBSET (1..n) /\ m \in 0..n /\ m - 1 \in 0..n  OBVIOUS
  <2>3. it[1..m] = AddTx(it[(1..m) \ {Max(1..m)}], q[Max(1..m)])  BY <1>9, <2>1, <2>2
  <2>4. fill[m] = it[1..m] /\ fill[m - 1] = it[1..(m - 1)]  BY <2>2
  <2> HIDE DEF fill
  <2> QED  BY <2>1, <2>3, <2>4
<1>12. \A m \in 0..n : fill[m] \in Fill
  <2> DEFINE P == {m \in 0..n : fill[m] \in Fill}
  <2> SUFFICES ASSUME NEW j \in 0..n  PROVE fill[j] \in Fill  OBVIOUS
  <2>1. 0 \in P  BY <1>1, <1>10
  <2>2. ASSUME NEW m \in 1..j, m - 1 \in P  PROVE m \in P
    <3>1. m \in 1..n /\ q[m] \in Tx /\ fill[m - 1] \in Fill  BY <2>2
    <3> HIDE DEF fill
    <3>2. fill[m] \in Fill  BY <1>11, <3>1, AddTxTyped
    <3> QED  BY <3>1, <3>2
  <2>3. j \in Nat  OBVIOUS
  <2> HIDE DEF P
  <2>4. j \in P  BY <2>1, <2>2, <2>3, CountUp
  <2> QED  BY <2>4 DEF P
<1>13. FillBlock(q) = fill[n].txIds  BY <1>8
<1>14. fill \in [0..n -> Fill]  BY <1>12
<1> HIDE DEF fill
<1> QED  BY <1>10, <1>11, <1>13, <1>14

\* What the first m candidates of q filled a block with.
Filled(acc, q, m) ==
    LET ids == acc.txIds IN
    /\ \A i \in DOMAIN ids :
          /\ \E x \in 1..m : ids[i] = q[x]
          /\ Consumed(ids[i]) \subseteq acc.used
          /\ \A j \in DOMAIN ids \ {i} :
                ids[i] # ids[j] /\ Consumed(ids[i]) \cap Consumed(ids[j]) = {}
    /\ acc.size = CoinbaseVSize + SumFunctionOnSet(VSizeOf, ToSet(ids))
    /\ acc.size <= MaxBlockVSize
    /\ CoinbaseVSize + MinNonCoinbaseVSize * Len(ids) <= acc.size

LEMMA FilledStep ==
  ASSUME NEW n \in Nat, NEW q \in [1..n -> Tx],
         \A i, j \in 1..n : i # j => q[i] # q[j],
         \A i \in 1..n : TxOf[q[i]].vSize >= MinNonCoinbaseVSize,
         NEW m \in 1..n, NEW acc \in Fill, Filled(acc, q, m - 1)
  PROVE  Filled(AddTx(acc, q[m]), q, m)
<1> DEFINE t == q[m]
           ids == acc.txIds
           new == AddTx(acc, t)
           size == TxOf[t].vSize
<1>1. t \in Tx /\ size \in Nat /\ VSizeOf[t] = size /\ size >= MinNonCoinbaseVSize
  BY SizeFacts
<1>2. ids \in Seq(Tx) /\ acc.size \in Nat /\ acc.used \subseteq Utxo  BY DEF Fill
<1>3. CASE new = acc
  <2>1. 1..(m - 1) \subseteq 1..m  OBVIOUS
  <2> HIDE DEF new, t
  <2> QED  BY <1>3, <2>1 DEF Filled, new, t
<1>4. CASE new # acc
  <2>1. /\ acc.size + size <= MaxBlockVSize /\ acc.used \cap Consumed(t) = {}
        /\ new = [txIds |-> Append(ids, t), size |-> acc.size + size,
                  used |-> acc.used \cup Consumed(t)]
    <3>1. acc.size + size \in Nat /\ MaxBlockVSize \in Nat  BY <1>1, <1>2, SizeFacts
    <3> QED  BY <1>4, <3>1 DEF AddTx
  <2> DEFINE ids2 == Append(ids, t)
             l == Len(ids)
  <2>2. new.txIds = ids2 /\ new.size = acc.size + size /\ new.used = acc.used \cup Consumed(t)
    BY <2>1
  <2>3. /\ l \in Nat /\ DOMAIN ids = 1..l /\ DOMAIN ids2 = 1..(l + 1) /\ Len(ids2) = l + 1
        /\ ids2[l + 1] = t /\ \A i \in 1..l : ids2[i] = ids[i] /\ ids[i] \in Tx
    BY <1>1, <1>2
  <2> HIDE DEF new, ids2, size, t
  <2>4. ASSUME NEW i \in 1..l
        PROVE  /\ \E x \in 1..(m - 1) : ids[i] = q[x]
               /\ Consumed(ids[i]) \subseteq acc.used
               /\ \A j \in 1..l : i # j => ids[i] # ids[j]
                                           /\ Consumed(ids[i]) \cap Consumed(ids[j]) = {}
    BY <2>3 DEF Filled
  <2>5. ASSUME NEW i \in 1..l
        PROVE  ids[i] # t /\ Consumed(ids[i]) \cap Consumed(t) = {}
    <3>1. PICK x \in 1..(m - 1) : ids[i] = q[x]  BY <2>4
    <3>2. x \in 1..n /\ x # m  BY <3>1
    <3>3. q[x] # q[m]  BY <3>2
    <3>4. Consumed(ids[i]) \subseteq acc.used  BY <2>4
    <3> QED  BY <2>1, <3>1, <3>3, <3>4 DEF t
  <2>6. ASSUME NEW i \in 1..(l + 1)
        PROVE  /\ \E x \in 1..m : ids2[i] = q[x]
               /\ Consumed(ids2[i]) \subseteq new.used
               /\ \A j \in (1..(l + 1)) \ {i} :
                     ids2[i] # ids2[j] /\ Consumed(ids2[i]) \cap Consumed(ids2[j]) = {}
    <3>1. \E x \in 1..m : ids2[i] = q[x]
      <4>1. CASE i = l + 1
        <5>1. m \in 1..m  OBVIOUS
        <5> QED  BY <2>3, <4>1, <5>1 DEF t
      <4>2. CASE i # l + 1
        <5>1. i \in 1..l  BY <2>3, <4>2
        <5>2. PICK x \in 1..(m - 1) : ids[i] = q[x]  BY <2>4, <5>1
        <5>3. x \in 1..m  OBVIOUS
        <5> QED  BY <2>3, <5>1, <5>2, <5>3
      <4> QED  BY <4>1, <4>2
    <3>2. Consumed(ids2[i]) \subseteq new.used
      <4>1. CASE i = l + 1  BY <2>2, <2>3, <4>1
      <4>2. CASE i # l + 1
        <5>1. i \in 1..l  BY <2>3, <4>2
        <5> QED  BY <2>2, <2>3, <2>4, <5>1
      <4> QED  BY <4>1, <4>2
    <3>3. ASSUME NEW j \in (1..(l + 1)) \ {i}
          PROVE  ids2[i] # ids2[j] /\ Consumed(ids2[i]) \cap Consumed(ids2[j]) = {}
      <4>1. CASE i = l + 1
        <5>1. j \in 1..l  BY <2>3, <4>1
        <5> QED  BY <2>3, <2>5, <4>1, <5>1
      <4>2. CASE j = l + 1
        <5>1. i \in 1..l  BY <2>3, <4>2
        <5> QED  BY <2>3, <2>5, <4>2, <5>1
      <4>3. CASE i # l + 1 /\ j # l + 1
        <5>1. i \in 1..l /\ j \in 1..l /\ i # j  BY <2>3, <4>3
        <5> QED  BY <2>3, <2>4, <5>1
      <4> QED  BY <4>1, <4>2, <4>3
    <3> QED  BY <3>1, <3>2, <3>3
  <2>7. new.size = CoinbaseVSize + SumFunctionOnSet(VSizeOf, ToSet(ids2))
    <3> DEFINE S == ToSet(ids)
    <3>1. ToSet(ids2) = S \cup {t}  BY <2>3 DEF ToSet
    <3>2. t \notin S  BY <2>3, <2>5 DEF ToSet
    <3>3. IsFiniteSet(S) /\ S \subseteq Tx
      <4>1. S = {ids[i] : i \in 1..l} /\ S \subseteq Tx  BY <2>3 DEF ToSet
      <4>2. ids \in Surjection(1..l, S)  BY <1>2, <2>3, <4>1 DEF Surjection
      <4>3. IsFiniteSet(1..l)
        <5>1. l \in Int /\ 1 \in Int  BY <2>3
        <5> HIDE DEF l
        <5> QED  BY <5>1, FS_Interval
      <4> HIDE DEF S
      <4> QED  BY <4>1, <4>2, <4>3, FS_Surjection
    <3>4. \A x \in S : VSizeOf[x] \in Nat  BY <3>3, SizeFacts
    <3> HIDE DEF S
    <3>5. SumFunctionOnSet(VSizeOf, S \cup {t}) = VSizeOf[t] + SumFunctionOnSet(VSizeOf, S)
      BY <1>1, <3>2, <3>3, <3>4, SumAdd
    <3>6. SumFunctionOnSet(VSizeOf, S) \in Nat  BY <3>3, <3>4, SumNat
    <3>7. acc.size = CoinbaseVSize + SumFunctionOnSet(VSizeOf, S)  BY DEF Filled, S
    <3> QED  BY <1>1, <2>2, <3>1, <3>5, <3>6, <3>7, SizeFacts
  <2>8. new.size <= MaxBlockVSize  BY <2>1, <2>2
  <2>9. CoinbaseVSize + MinNonCoinbaseVSize * (l + 1) <= new.size
    <3>1. MinNonCoinbaseVSize \in Nat /\ CoinbaseVSize \in Nat  BY SizeFacts
    <3>2. MinNonCoinbaseVSize * (l + 1) = MinNonCoinbaseVSize * l + MinNonCoinbaseVSize * 1
      <4>1. l \in Int /\ 1 \in Int /\ MinNonCoinbaseVSize \in Int  BY <2>3, <3>1
      <4> HIDE DEF l
      <4> QED  BY <4>1, Distributes
    <3>3. MinNonCoinbaseVSize * l \in Nat /\ MinNonCoinbaseVSize * 1 = MinNonCoinbaseVSize
      BY <2>3, <3>1
    <3>4. CoinbaseVSize + MinNonCoinbaseVSize * l <= acc.size  BY DEF Filled
    <3>5. ASSUME NEW C \in Nat, NEW a \in Nat, NEW c \in Nat, NEW z \in Nat, NEW w \in Nat,
                 C + a <= z, w >= c
          PROVE  C + (a + c) <= z + w
      BY <3>5
    <3>6. MinNonCoinbaseVSize * (l + 1) = MinNonCoinbaseVSize * l + MinNonCoinbaseVSize
      BY <3>2, <3>3
    <3>7. CoinbaseVSize + (MinNonCoinbaseVSize * l + MinNonCoinbaseVSize) <= acc.size + size
      BY <1>1, <1>2, <3>1, <3>3, <3>4, <3>5
    <3> QED  BY <2>2, <3>6, <3>7
  <2>10. /\ new.size = CoinbaseVSize + SumFunctionOnSet(VSizeOf, ToSet(new.txIds))
         /\ new.size <= MaxBlockVSize
         /\ CoinbaseVSize + MinNonCoinbaseVSize * Len(new.txIds) <= new.size
    BY <2>2, <2>3, <2>7, <2>8, <2>9
  <2>11. DOMAIN new.txIds = 1..(l + 1) /\ new.txIds = ids2  BY <2>2, <2>3
  <2> QED  BY <2>6, <2>10, <2>11 DEF Filled, new, t
<1> QED  BY <1>3, <1>4

\* What FillBlock returns: candidates that are distinct, share no input and fit.
LEMMA FillBlockFacts ==
  ASSUME NEW n \in Nat, NEW q \in [1..n -> Tx],
         \A i, j \in 1..n : i # j => q[i] # q[j],
         \A i \in 1..n : TxOf[q[i]].vSize >= MinNonCoinbaseVSize
  PROVE  /\ FillBlock(q) \in Seq(Tx)
         /\ \A i \in DOMAIN FillBlock(q) :
               /\ \E x \in 1..n : FillBlock(q)[i] = q[x]
               /\ \A j \in DOMAIN FillBlock(q) \ {i} :
                     /\ FillBlock(q)[i] # FillBlock(q)[j]
                     /\ Consumed(FillBlock(q)[i]) \cap Consumed(FillBlock(q)[j]) = {}
         /\ CoinbaseVSize + SumFunctionOnSet(VSizeOf, ToSet(FillBlock(q))) <= MaxBlockVSize
         /\ CoinbaseVSize + MinNonCoinbaseVSize * Len(FillBlock(q)) <= MaxBlockVSize
<1>1. PICK fill \in [0..n -> Fill] :
         /\ fill[0] = NothingAdded /\ FillBlock(q) = fill[n].txIds
         /\ \A m \in 1..n : fill[m] = AddTx(fill[m - 1], q[m])
  BY FillSteps
<1> DEFINE P == {m \in 0..n : Filled(fill[m], q, m)}
<1>2. 0 \in P
  <2>1. DOMAIN (<<>>) = {} /\ Len(<<>>) = 0 /\ ToSet(<<>>) = {}  BY DEF ToSet
  <2>2. /\ NothingAdded.txIds = <<>> /\ NothingAdded.size = CoinbaseVSize
    BY DEF NothingAdded
  <2>3. CoinbaseVSize = CoinbaseVSize + SumFunctionOnSet(VSizeOf, {})
    BY SumEmpty, SizeFacts
  <2>4. CoinbaseVSize + MinNonCoinbaseVSize * 0 = CoinbaseVSize  BY SizeFacts
  <2>5. Filled(NothingAdded, q, 0)
    <3> DEFINE e == NothingAdded.txIds
    <3>1. e = <<>> /\ DOMAIN e = {} /\ Len(e) = 0 /\ ToSet(e) = {}  BY <2>1, <2>2
    <3>2. NothingAdded.size <= MaxBlockVSize  BY <2>2, SizeFacts
    <3>3. CoinbaseVSize + MinNonCoinbaseVSize * Len(e) <= NothingAdded.size
      BY <2>2, <2>4, <3>1, SizeFacts
    <3>4. NothingAdded.size = CoinbaseVSize + SumFunctionOnSet(VSizeOf, ToSet(e))
      BY <2>2, <2>3, <3>1
    <3> QED  BY <3>1, <3>2, <3>3, <3>4 DEF Filled
  <2> QED  BY <1>1, <2>5
<1>3. ASSUME NEW m \in 1..n, m - 1 \in P  PROVE m \in P
  <2>1. fill[m - 1] \in Fill /\ Filled(fill[m - 1], q, m - 1) /\ m \in 0..n  BY <1>1, <1>3
  <2>2. Filled(AddTx(fill[m - 1], q[m]), q, m)  BY <2>1, FilledStep
  <2> QED  BY <1>1, <2>1, <2>2
<1> HIDE DEF P
<1>4. n \in P  BY <1>2, <1>3, CountUp
<1>5. Filled(fill[n], q, n) /\ fill[n] \in Fill  BY <1>1, <1>4 DEF P
<1> DEFINE ids == fill[n].txIds
<1>6. ids \in Seq(Tx) /\ fill[n].size \in Nat  BY <1>5 DEF Fill
<1>7. FillBlock(q) = ids  BY <1>1
<1>8. MinNonCoinbaseVSize * Len(ids) \in Nat  BY <1>6, SizeFacts
<1>9. /\ CoinbaseVSize + SumFunctionOnSet(VSizeOf, ToSet(ids)) <= MaxBlockVSize
      /\ CoinbaseVSize + MinNonCoinbaseVSize * Len(ids) <= MaxBlockVSize
  <2> DEFINE a == MinNonCoinbaseVSize * Len(ids)
  <2>1. CoinbaseVSize + a <= fill[n].size /\ fill[n].size <= MaxBlockVSize /\ a \in Nat
    BY <1>5, <1>8 DEF Filled
  <2> HIDE DEF a
  <2>2. CoinbaseVSize + a <= MaxBlockVSize  BY <1>6, <2>1, SizeFacts
  <2> QED  BY <1>5, <2>2 DEF Filled, a
<1> QED  BY <1>5, <1>6, <1>7, <1>9 DEF Filled


\* As many times as m fits into a, and no more.
LEMMA DivBound ==
  ASSUME NEW m \in Nat, m > 0, NEW a \in Nat, NEW l \in Nat, m * l <= a
  PROVE  a \div m \in Nat /\ l <= a \div m
<1> DEFINE d == a \div m
<1>1. d \in Nat /\ a % m \in Nat /\ a % m < m /\ a = m * d + (a % m)  BY ModFacts
<1> HIDE DEF d
<1> SUFFICES ASSUME ~(l <= d)  PROVE FALSE  BY <1>1 DEF d
<1>2. PICK e \in Nat : l = d + (1 + e)
  <2>1. l - d - 1 \in Nat /\ l = d + (1 + (l - d - 1))  BY <1>1
  <2> QED  BY <2>1
<1>3. m * l = m * d + m * (1 + e)  BY <1>1, <1>2, Distributes
<1>4. m * (1 + e) = m * 1 + m * e  BY Distributes
<1>5. m * e \in Nat /\ m * d \in Nat /\ m * 1 = m  BY <1>1
<1>6. m * l \in Nat  OBVIOUS
<1> HIDE DEF d
<1> QED
  <2> DEFINE x == m * l
             y == m * d
             z == m * e
             r == a % m
             w == m * (1 + e)
  <2>1. /\ x <= a /\ a = y + r /\ r \in Nat /\ r < m /\ x = y + w /\ w = m + z
        /\ y \in Nat /\ z \in Nat
    BY <1>1, <1>3, <1>4, <1>5
  <2> HIDE DEF x, y, z, r, w
  <2> QED  BY <2>1

\* A signed tx that pays for something has an input.
LEMMA PaysSomething ==
  ASSUME NEW t \in Tx, TxOf[t].signed, HasSurplus(t)
  PROVE  TxOf[t].vSize >= MinNonCoinbaseVSize
<1> SUFFICES ASSUME TxOf[t].inputs = <<>>  PROVE FALSE
  BY SizesAssumption
<1>1. InSum(t) = 0
  <2>1. DOMAIN InputValues(t) = {}  BY DEF InputValues
  <2> QED  BY <2>1, SumEmpty DEF InSum
<1>2. UintMod \in Nat \ {0} /\ OutSum(t) \in Nat  BY EntitiesAssumption, TxValues
<1>3. InputsValue(t) = 0 /\ OutputsValue(t) \in Nat
  BY <1>1, <1>2, TxValues, ModFacts
<1> QED  BY <1>3 DEF HasSurplus

\* What FillBlock makes of the includable txs, in any order.
LEMMA FillOfMempool ==
  ASSUME NEW mem, IsFiniteSet(mem), mem \subseteq Tx,
         \A t \in mem : TxOf[t].signed /\ HasSurplus(t),
         NEW q \in SetToSeqs(mem)
  PROVE  /\ FillBlock(q) \in Seq(Tx) /\ ToSet(FillBlock(q)) \subseteq mem
         /\ \A i \in DOMAIN FillBlock(q) : \A j \in DOMAIN FillBlock(q) \ {i} :
               /\ FillBlock(q)[i] # FillBlock(q)[j]
               /\ Consumed(FillBlock(q)[i]) \cap Consumed(FillBlock(q)[j]) = {}
         /\ CoinbaseVSize + SumFunction([t \in ToSet(FillBlock(q)) |-> TxOf[t].vSize])
               <= MaxBlockVSize
         /\ Len(FillBlock(q)) + 1 <= BlockMaxTxs
<1> DEFINE n == Cardinality(mem)
           ids == FillBlock(q)
<1>1. n \in Nat  BY FS_CardinalityType
<1>2. q \in [1..n -> mem] /\ \A i, j \in 1..n : i # j => q[i] # q[j]  BY DEF SetToSeqs
<1> HIDE DEF n
<1>3. q \in [1..n -> Tx] /\ \A i \in 1..n : q[i] \in mem  BY <1>2
<1>4. \A i \in 1..n : TxOf[q[i]].vSize >= MinNonCoinbaseVSize  BY <1>3, PaysSomething
<1>5. /\ ids \in Seq(Tx)
      /\ \A i \in DOMAIN ids :
            /\ \E x \in 1..n : ids[i] = q[x]
            /\ \A j \in DOMAIN ids \ {i} :
                  ids[i] # ids[j] /\ Consumed(ids[i]) \cap Consumed(ids[j]) = {}
      /\ CoinbaseVSize + SumFunctionOnSet(VSizeOf, ToSet(ids)) <= MaxBlockVSize
      /\ CoinbaseVSize + MinNonCoinbaseVSize * Len(ids) <= MaxBlockVSize
  BY <1>1, <1>2, <1>3, <1>4, FillBlockFacts
<1> HIDE DEF ids
<1>6. ToSet(ids) \subseteq mem  BY <1>3, <1>5 DEF ToSet
<1>7. SumFunction([t \in ToSet(ids) |-> TxOf[t].vSize]) = SumFunctionOnSet(VSizeOf, ToSet(ids))
  <2> DEFINE f == [t \in ToSet(ids) |-> TxOf[t].vSize]
  <2>1. IsFiniteSet(ToSet(ids))  BY <1>6, FS_Subset
  <2>2. \A t \in ToSet(ids) : f[t] \in Nat /\ f[t] = VSizeOf[t]  BY <1>6, SizeFacts
  <2>3. SumFunction(f) = SumFunctionOnSet(f, ToSet(ids))  BY DEF SumFunction
  <2> HIDE DEF f
  <2>4. SumFunctionOnSet(f, ToSet(ids)) = SumFunctionOnSet(VSizeOf, ToSet(ids))
    BY <2>1, <2>2, SumSame
  <2> QED  BY <2>3, <2>4 DEF f
<1>8. Len(ids) + 1 <= BlockMaxTxs
  <2> DEFINE m == MinNonCoinbaseVSize
             l == Len(ids)
             x == m * l
             a == MaxBlockVSize - CoinbaseVSize
  <2>1. m \in Nat /\ m > 0 /\ l \in Nat /\ a \in Nat /\ x \in Nat  BY <1>5, SizeFacts
  <2>2. CoinbaseVSize + x <= MaxBlockVSize  BY <1>5
  <2> HIDE DEF x
  <2>3. x <= a  BY <2>1, <2>2, SizeFacts
  <2> USE DEF x
  <2> HIDE DEF m, l, a
  <2>4. a \div m \in Nat /\ l <= a \div m  BY <2>1, <2>3, DivBound
  <2>5. BlockMaxTxs = (a \div m) + 2  BY DEF BlockMaxTxs, a, m
  <2> DEFINE d == a \div m
  <2>6. d \in Nat /\ l <= d /\ BlockMaxTxs = d + 2  BY <2>4, <2>5
  <2> HIDE DEF d
  <2>7. l + 1 <= BlockMaxTxs  BY <2>1, <2>6
  <2> QED  BY <2>7 DEF l
<1> QED  BY <1>5, <1>6, <1>7, <1>8 DEF ids

-----------------------------------------------------------------------------
(* The mining target: TargetInv *)

\* A step that publishes a target publishes a minable one, whatever else it does.
LEMMA PublishedOK ==
  ASSUME PublishTarget, SupportMiners, st'.mempool \subseteq txs', txs' \subseteq Tx,
         IsFiniteSet(txs'), \A t \in txs' : TxOf[t].signed
  PROVE  TargetOK'
<1> DEFINE mem == {t \in st'.mempool : VerifyTxIncludable(st, t, FALSE)' /\ HasSurplus(t)}
<1>1. PICK q \in SetToSeqs(mem) : target' = [head |-> st'.head, txIds |-> FillBlock(q)]
  BY DEF PublishTarget, MiningTargets, SortedIncludable
<1>2. mem \subseteq txs'  OBVIOUS
<1>3. IsFiniteSet(mem) /\ mem \subseteq Tx  BY <1>2, FS_Subset
<1>4. \A t \in mem : /\ TxOf[t].signed /\ HasSurplus(t) /\ t \in st'.mempool
                     /\ TxOf[t].minBlock <= Height(st.head)' + 1
                     /\ Consumed(t) \subseteq st'.utxos
  BY <1>2 DEF VerifyTxIncludable
<1> HIDE DEF mem
<1> DEFINE ids == FillBlock(q)
<1>5. /\ ids \in Seq(Tx) /\ ToSet(ids) \subseteq mem
      /\ \A i \in DOMAIN ids : \A j \in DOMAIN ids \ {i} :
            ids[i] # ids[j] /\ Consumed(ids[i]) \cap Consumed(ids[j]) = {}
      /\ CoinbaseVSize + SumFunction([t \in ToSet(ids) |-> TxOf[t].vSize]) <= MaxBlockVSize
      /\ Len(ids) + 1 <= BlockMaxTxs
  BY <1>1, <1>3, <1>4, FillOfMempool
<1>6. target'.head = st'.head /\ target'.txIds = ids  BY <1>1
<1> HIDE DEF ids
<1>7. \A i \in DOMAIN ids : ids[i] \in mem  BY <1>5 DEF ToSet
<1>8. ToSet(ids) \subseteq st'.mempool  BY <1>4, <1>5
<1> QED  BY <1>4, <1>5, <1>6, <1>7, <1>8 DEF TargetOK

\* A target stays minable while the head stays and only the mempool grows.
LEMMA TargetKept ==
  ASSUME TargetOK, target' = target, st'.head = st.head, st'.utxos = st.utxos,
         st.mempool \subseteq st'.mempool, Height(st.head)' = Height(st.head)
  PROVE  TargetOK'
BY DEF TargetOK

LEMMA TargetNextOK ==
  ASSUME IInv, IInv', VerifiedInv', TargetInv, [Next]_vars
  PROVE  TargetInv'
<1> SUFFICES ASSUME SupportMiners  PROVE TargetOK'
  BY DEF TargetInv
<1>0. TargetOK  BY DEF TargetInv
<1>1. /\ st'.mempool \subseteq txs' /\ txs' \subseteq Tx
      /\ IsFiniteSet(txs') /\ \A t \in txs' : TxOf[t].signed
  BY DEF IInv, StateOK, FromInventory, InventoryOK, InventoryTypeOK, VerifiedInv
<1>2. CASE PublishTarget  BY <1>1, <1>2, PublishedOK
<1>3. CASE target' = target /\ st' = st /\ blocks' = blocks
  <2>1. Height(st.head)' = Height(st.head)  BY <1>3 DEF Height
  <2> QED  BY <1>0, <1>3, <2>1, TargetKept
<1>4. CASE StoreNextTx
  <2> DEFINE t == Head(ev.txs)
  <2>1. /\ target' = target /\ blocks' = blocks /\ ev.txs # <<>>
        /\ st' = st \/ (t \notin txs /\ st' = AddMempoolTx(st, t))
    BY <1>4 DEF StoreNextTx
  <2>2. t \in Tx  BY <2>1, EventTails DEF IInv, TypeOK
  <2> HIDE DEF t
  <2>3. CASE t \notin txs /\ st' = AddMempoolTx(st, t)
    <3>1. t \in Tx \ Included(st)  BY <2>2, <2>3 DEF IInv, StateOK, FromInventory
    <3>2. /\ st'.head = st.head /\ st'.mempool = st.mempool \cup {t}
          /\ st'.utxos = st.utxos
      BY <2>3, <3>1, AddMempoolTxOK DEF IInv, StateOK
    <3>3. Height(st.head)' = Height(st.head)  BY <2>1, <3>2 DEF Height
    <3> QED  BY <1>0, <2>1, <3>2, <3>3, TargetKept
  <2> QED  BY <1>3, <2>1, <2>3
<1>5. CASE StoreNextBlock
  <2> DEFINE b == Head(ev.blocks)
  <2>1. /\ target' = target /\ st' = st /\ UNCHANGED <<txs, merkles>> /\ b \in Block \ {Zero}
        /\ UNCHANGED blocks \/ (~HasBlock(b) /\ VerifyBlock(b) /\ StoreBlock(b))
    BY <1>5, EventTails DEF StoreNextBlock, IInv, TypeOK
  <2> HIDE DEF b
  <2>2. CASE ~HasBlock(b) /\ VerifyBlock(b) /\ StoreBlock(b)
    <3>1. \A x \in DOMAIN blocks : x \in DOMAIN blocks' /\ blocks'[x] = blocks[x]
      BY <2>1, <2>2, StoreBlockOK DEF IInv
    <3>2. st.head \in DOMAIN blocks  BY DEF IInv, StateOK, HasBlock
    <3>3. Height(st.head)' = Height(st.head)  BY <2>1, <3>1, <3>2 DEF Height
    <3> QED  BY <1>0, <2>1, <3>3, TargetKept
  <2> QED  BY <1>3, <2>1, <2>2
<1>6. CASE \E e \in CandidateHeads : ReceiveHead(e)
  BY <1>3, <1>6 DEF ReceiveHead, invVars
<1>7. CASE \E t \in CandidateTxs : HandleCandidateTx(t)
  BY <1>2, <1>7 DEF HandleCandidateTx
<1>8. CASE StoreNextMerkle  BY <1>3, <1>8 DEF StoreNextMerkle
<1>9. CASE Commit  BY <1>2, <1>9 DEF Commit
<1>10. CASE Restart  BY <1>2, <1>10 DEF Restart
<1>11. CASE HandlerStep
  BY <1>3, <1>4, <1>5, <1>8, <1>9, <1>11 DEF HandlerStep, ReceiveSavedHead, CompareWork,
     RewindNextTx, RewindBlock, RewindDone, AdvanceNextTx, AdvanceBlock, invVars
<1>12. CASE UNCHANGED vars  BY <1>3, <1>12 DEF vars, invVars
<1> QED  BY <1>6, <1>7, <1>10, <1>11, <1>12 DEF Next

\* Nothing is published before the first event, and nothing is in the mempool.
LEMMA TargetInitOK == Init => TargetInv
<1> SUFFICES ASSUME Init  PROVE TargetOK  BY DEF TargetInv
<1> DEFINE ids == target.txIds
<1>1. target.head = st.head /\ ids = <<>>  BY EmptyStateOK DEF Init
<1>2. DOMAIN ids = {} /\ Len(ids) = 0 /\ ToSet(ids) = {}  BY <1>1 DEF ToSet
<1>3. SumFunction([t \in ToSet(ids) |-> TxOf[t].vSize]) = 0
  BY <1>2, SumEmpty DEF SumFunction
<1>4. Len(ids) + 1 <= BlockMaxTxs
  <2> DEFINE m == MinNonCoinbaseVSize
             a == MaxBlockVSize - CoinbaseVSize
             d == a \div m
  <2>1. m \in Nat /\ m > 0 /\ a \in Nat /\ m * 0 <= a  BY SizeFacts
  <2>2. BlockMaxTxs = d + 2  BY DEF BlockMaxTxs
  <2> HIDE DEF m, a
  <2>3. d \in Nat  BY <2>1, DivBound
  <2> HIDE DEF d
  <2> QED  BY <1>2, <2>2, <2>3
<1> QED  BY <1>1, <1>2, <1>3, <1>4, SizeFacts DEF TargetOK

LEMMA TargetInvHolds == Spec => []TargetInv
<1>1. IInv /\ IInv' /\ VerifiedInv' /\ TargetInv /\ [Next]_vars => TargetInv'
  BY TargetNextOK
<1> QED  BY <1>1, TargetInitOK, InvariantHolds, VerifiedHolds, PTL DEF Spec

\* As long as no stored tx names a utxo twice, every published target is minable: its txs
\* are includable at the current head together, and with a coinbase they fit into a block.
\* What the handler checks one tx at a time (target.go) is enough for all of them.
THEOREM TargetIsMinable ==
  Spec => []((\A t \in txs : ~DuplicateInput(t)) => TargetMinable)
<1>1. ASSUME IInv, TargetInv, \A t \in txs : ~DuplicateInput(t)  PROVE TargetMinable
  <2> SUFFICES ASSUME SupportMiners  PROVE TargetMinable
    BY DEF TargetMinable
  <2>1. TargetOK  BY <1>1 DEF TargetInv
  <2>2. \A i \in DOMAIN target.txIds : target.txIds[i] \in txs
    BY <1>1, <2>1 DEF TargetOK, ToSet, IInv, StateOK, FromInventory
  <2> QED  BY <1>1, <2>1, <2>2 DEF TargetOK, TargetMinable
<1> QED  BY <1>1, InvariantHolds, TargetInvHolds, PTL

=============================================================================
