-------------------------- MODULE PeerFactoryProofs -------------------------
(***************************************************************************)
(* The factory's tables against the peers that run, for any nodes, seeds,  *)
(* offers and bounds, however its topics deliver.                          *)
(***************************************************************************)
EXTENDS PeerFactory, FiniteSetTheorems, SequenceTheorems, TLAPS

-----------------------------------------------------------------------------
(* The inductive invariant *)

\* A connection is in newConns at most once, and only before it is taken.
NewConnsOK ==
    /\ \A i \in DOMAIN newConns :
          newConns[i] \in DOMAIN conns /\ conns[newConns[i]].place = "queued"
    /\ IsInjective(newConns)

\* The table has room, so it is finite and what runs fits in it.
TableOK == IsFiniteSet(knownPeers) /\ Cardinality(knownPeers) <= MaxPeers

\* The last head that is on its way to the factory, or the one it has, is the newest.
HeadsOK ==
    /\ newest = IF headQ = <<>> THEN curHead ELSE Last(headQ)
    /\ \A i \in DOMAIN headQ : headQ[i] <= newest

\* A connection that is no peer has no events.
IdleOK == \A c \in Conn \ Live : peerHeadQ[c] = <<>>

IInv ==
    /\ TypeOK /\ NewConnsOK /\ TableOK /\ HeadsOK /\ IdleOK
    /\ KnownPeersExact /\ AddrsOfPeers /\ NewPeersMissNothing

-----------------------------------------------------------------------------
(* Sequences without repetition *)

LEMMA AppendFacts ==
  ASSUME NEW S, NEW q \in Seq(S), NEW e \in S
  PROVE  /\ Append(q, e) \in Seq(S) /\ Append(q, e) # <<>> /\ Last(Append(q, e)) = e
         /\ Len(Append(q, e)) = Len(q) + 1
         /\ DOMAIN Append(q, e) = 1..(Len(q) + 1)
         /\ \A i \in DOMAIN q : Append(q, e)[i] = q[i]
         /\ Append(q, e)[Len(q) + 1] = e
         /\ ToSet(Append(q, e)) = ToSet(q) \cup {e}
         /\ IsInjective(q) /\ e \notin ToSet(q) => IsInjective(Append(q, e))
<1>1. /\ Append(q, e) \in Seq(S) /\ Append(q, e) # <<>>
      /\ Len(q) \in Nat /\ Len(Append(q, e)) = Len(q) + 1
      /\ DOMAIN q = 1..Len(q) /\ DOMAIN Append(q, e) = 1..(Len(q) + 1)
      /\ \A i \in 1..Len(q) : Append(q, e)[i] = q[i]
      /\ Append(q, e)[Len(q) + 1] = e
  BY AppendProperties, LenProperties
<1>2. Last(Append(q, e)) = e  BY <1>1 DEF Last
<1>3. ToSet(Append(q, e)) = ToSet(q) \cup {e}  BY <1>1 DEF ToSet
<1>4. ASSUME IsInjective(q), e \notin ToSet(q)  PROVE IsInjective(Append(q, e))
  BY <1>1, <1>4 DEF IsInjective, ToSet
<1> QED  BY <1>1, <1>2, <1>3, <1>4

LEMMA TailFacts ==
  ASSUME NEW S, NEW q \in Seq(S), q # <<>>
  PROVE  /\ Head(q) \in S /\ Tail(q) \in Seq(S) /\ Head(q) \in ToSet(q)
         /\ ToSet(Tail(q)) \subseteq ToSet(q)
         /\ 1 \in DOMAIN q /\ Head(q) = q[1]
         /\ DOMAIN Tail(q) = 1..(Len(q) - 1)
         /\ \A i \in DOMAIN Tail(q) : i + 1 \in DOMAIN q /\ Tail(q)[i] = q[i + 1]
         /\ Tail(q) # <<>> => Last(Tail(q)) = Last(q)
         /\ Tail(q) = <<>> => Last(q) = Head(q)
         /\ IsInjective(q) =>
              IsInjective(Tail(q)) /\ ToSet(Tail(q)) = ToSet(q) \ {Head(q)}
<1>1. /\ Head(q) \in S /\ Tail(q) \in Seq(S) /\ Len(q) \in Nat \ {0}
      /\ Head(q) = q[1] /\ Len(Tail(q)) = Len(q) - 1
      /\ DOMAIN q = 1..Len(q) /\ DOMAIN Tail(q) = 1..(Len(q) - 1)
      /\ \A i \in 1..(Len(q) - 1) : Tail(q)[i] = q[i + 1]
  BY HeadTailProperties, LenProperties, EmptySeq
<1>2. /\ 1 \in DOMAIN q /\ Head(q) \in ToSet(q)
      /\ \A i \in DOMAIN Tail(q) : i + 1 \in DOMAIN q
  BY <1>1 DEF ToSet
<1>3. ToSet(Tail(q)) \subseteq ToSet(q)  BY <1>1, <1>2 DEF ToSet
<1>4. ASSUME Tail(q) # <<>>  PROVE Last(Tail(q)) = Last(q)
  <2>1. Len(Tail(q)) \in Nat \ {0}  BY <1>1, <1>4, EmptySeq
  <2> QED  BY <1>1, <2>1 DEF Last
<1>5. ASSUME Tail(q) = <<>>  PROVE Last(q) = Head(q)
  <2>1. Len(Tail(q)) = 0
    <3>1. Len(<<>>) = 0  OBVIOUS
    <3> QED  BY <1>5, <3>1
  <2>2. Len(q) = 1
    <3>1. Len(q) \in Nat /\ Len(Tail(q)) = Len(q) - 1  BY <1>1
    <3> QED  BY <2>1, <3>1
  <2> QED  BY <1>1, <2>2 DEF Last
<1>6. ASSUME IsInjective(q)
      PROVE  IsInjective(Tail(q)) /\ ToSet(Tail(q)) = ToSet(q) \ {Head(q)}
  <2>1. IsInjective(Tail(q))  BY <1>1, <1>2, <1>6 DEF IsInjective
  <2>2. \A i \in DOMAIN Tail(q) : Tail(q)[i] # Head(q)
    BY <1>1, <1>2, <1>6 DEF IsInjective
  <2>3. ASSUME NEW i \in DOMAIN q, q[i] # Head(q)  PROVE q[i] \in ToSet(Tail(q))
    <3>1. i - 1 \in DOMAIN Tail(q) /\ Tail(q)[i - 1] = q[i]  BY <1>1, <2>3
    <3> QED  BY <3>1 DEF ToSet
  <2> QED  BY <1>3, <2>1, <2>2, <2>3 DEF ToSet
<1> QED  BY <1>1, <1>2, <1>3, <1>4, <1>5, <1>6

-----------------------------------------------------------------------------
(* Connections *)

ConnRecord == [id : Node, place : {"queued", "peer"}] \cup {Closed}

LEMMA ConnFacts ==
  ASSUME TypeOK
  PROVE  /\ conns \in Seq(ConnRecord) /\ Len(conns) \in Nat
         /\ DOMAIN conns = 1..Len(conns) /\ DOMAIN conns \subseteq Conn
         /\ MaxConns \in Nat /\ Conn \subseteq Nat
         /\ \A c \in DOMAIN conns :
               /\ conns[c] \in ConnRecord
               /\ conns[c].place \in {"queued", "peer"} => conns[c].id \in Node
         /\ Live \subseteq Conn
<1>1. conns \in Seq(ConnRecord) /\ Len(conns) <= MaxConns  BY DEF TypeOK, ConnRecord
<1>2. /\ Len(conns) \in Nat /\ DOMAIN conns = 1..Len(conns)
      /\ \A c \in DOMAIN conns : conns[c] \in ConnRecord
  BY <1>1, LenProperties, ElementOfSeq
<1>3. MaxConns \in Nat  BY FactoryAssumption
<1>4. DOMAIN conns \subseteq Conn /\ Conn \subseteq Nat  BY <1>1, <1>2, <1>3 DEF Conn
<1>5. \A c \in DOMAIN conns : conns[c].place \in {"queued", "peer"} => conns[c].id \in Node
  BY <1>2 DEF ConnRecord, Closed
<1> QED  BY <1>1, <1>2, <1>3, <1>4, <1>5 DEF Live

\* The peers that run are the same.
PeersKept == Live' = Live /\ \A c \in Live : conns'[c].id = conns[c].id

LEMMA TableKept ==
  ASSUME TableOK, KnownPeersExact, PeersKept, UNCHANGED <<knownPeers, closingQ>>
  PROVE  TableOK' /\ KnownPeersExact'
<1>1. TableOK'  BY DEF TableOK
<1>2. {conns'[c].id : c \in Live'} = {conns[c].id : c \in Live}  BY DEF PeersKept
<1>3. KnownPeersExact'
  BY <1>2 DEF KnownPeersExact, PeersKept
<1> QED  BY <1>1, <1>3

\* A new connection waits, and changes nothing of the peers.
LEMMA ConnectOK ==
  ASSUME TypeOK, NewConnsOK, NEW n \in Node, Connect(n)
  PROVE  /\ conns' \in Seq(ConnRecord) /\ Len(conns') <= MaxConns
         /\ newConns' \in Seq(Conn) /\ NewConnsOK' /\ PeersKept
<1> DEFINE new == [id |-> n, place |-> "queued"]
           c == Len(conns) + 1
<1>1. /\ conns' = Append(conns, new) /\ newConns' = Append(newConns, c)
      /\ Len(conns) < MaxConns
  BY DEF Connect
<1>2. new \in ConnRecord  BY DEF ConnRecord
<1>3. /\ conns' \in Seq(ConnRecord) /\ Len(conns') = Len(conns) + 1
      /\ DOMAIN conns' = 1..c /\ conns'[c] = new
      /\ \A d \in DOMAIN conns : conns'[d] = conns[d]
  BY <1>1, <1>2, ConnFacts, AppendFacts
<1>4. c \in Conn /\ Len(conns') <= MaxConns /\ c \notin DOMAIN conns
      /\ DOMAIN conns' = DOMAIN conns \cup {c}
  BY <1>1, <1>3, ConnFacts DEF Conn
<1>5. newConns \in Seq(Conn)  BY DEF TypeOK
<1>6. c \notin ToSet(newConns)  BY <1>4 DEF NewConnsOK, ToSet
<1>7. /\ newConns' \in Seq(Conn) /\ IsInjective(newConns')
      /\ ToSet(newConns') = ToSet(newConns) \cup {c}
  BY <1>1, <1>4, <1>5, <1>6, AppendFacts DEF NewConnsOK
<1>8. \A d \in ToSet(newConns') : d \in DOMAIN conns' /\ conns'[d].place = "queued"
  <2>1. \A d \in ToSet(newConns) : d \in DOMAIN conns /\ conns[d].place = "queued"
    BY DEF NewConnsOK, ToSet
  <2>2. conns'[c].place = "queued"  BY <1>3
  <2> HIDE DEF c, new
  <2> QED  BY <1>3, <1>4, <1>7, <2>1, <2>2
<1>9. NewConnsOK'  BY <1>7, <1>8 DEF NewConnsOK, ToSet
<1>10. PeersKept
  <2>1. new.place # "peer"  OBVIOUS
  <2> QED  BY <1>3, <1>4, <2>1 DEF PeersKept, Live
<1> QED  BY <1>3, <1>4, <1>7, <1>9, <1>10

\* What depends on the peers' own variables alone.
LEMMA PeersVarsKept ==
  ASSUME IdleOK, NewPeersMissNothing, PeersKept,
         UNCHANGED <<peerHead, peerHeadQ, peerQ, told, behind, newest>>
  PROVE  IdleOK' /\ NewPeersMissNothing'
BY DEF IdleOK, NewPeersMissNothing, PeersKept

-----------------------------------------------------------------------------
(* The invariant at the start *)

LEMMA InitOK == Init => IInv
<1> SUFFICES ASSUME Init  PROVE IInv
  OBVIOUS
<1> USE DEF Init
<1>1. Live = {} /\ ToSet(closingQ) = {}  BY DEF Live, ToSet
<1>2. TypeOK
  <2>1. /\ closingQ \in Seq(Node) /\ requestedQ \in Seq(Node) /\ late \subseteq Node
        /\ DOMAIN knownPeerAddrs \subseteq Node /\ Range(knownPeerAddrs) \subseteq Addr
    BY DEF ToSet, Range
  <2>2. localAddr \in Addr \cup {NoAddr} /\ \E start \in Starts : seedAddrs = start.seeds
    BY FactoryAssumption
  <2>3. 0 \in 0..MaxHead /\ 0 \in 0..Looping /\ Len(conns) <= MaxConns
    BY FactoryAssumption DEF Looping
  <2>4. /\ newConns \in Seq(Conn) /\ newAddrs \in Seq(Addr)
        /\ announcedQ \in Seq([id : Node, addr : Addr])
        /\ receivedQ \in Seq(Offers) /\ headQ \in Seq(1..MaxHead)
        /\ conns \in Seq(ConnRecord)
        /\ peerHeadQ \in [Conn -> Seq(1..MaxHead)]
    OBVIOUS
  <2>5. /\ peerHead \in [Conn -> 0..MaxHead]
        /\ peerQ \in [Conn -> SUBSET {"announce", "sendPeers", "askPeers"}]
    BY <2>3
  <2>6. /\ curHead \in 0..newest /\ newest \in 0..MaxHead /\ tries \in 0..Looping
        /\ knownPeers \subseteq Node /\ told \subseteq Conn /\ behind \subseteq Conn
        /\ listening \in BOOLEAN /\ (listening => localAddr # NoAddr)
    <3>1. /\ curHead = 0 /\ newest = 0 /\ tries = 0 /\ knownPeers = {} /\ told = {}
          /\ behind = {} /\ listening = FALSE
      OBVIOUS
    <3> HIDE DEF Init
    <3>2. listening \in BOOLEAN /\ (listening => localAddr # NoAddr)  BY <3>1
    <3>3. curHead \in 0..newest  BY <3>1
    <3> QED  BY <2>3, <3>1, <3>2, <3>3
  <2> HIDE DEF Init
  <2> QED  BY <2>1, <2>2, <2>3, <2>4, <2>5, <2>6 DEF TypeOK, ConnRecord
<1>3. NewConnsOK /\ HeadsOK  BY DEF NewConnsOK, IsInjective, HeadsOK
<1>4. TableOK  BY FS_EmptySet, FactoryAssumption DEF TableOK
<1>5. IdleOK  BY DEF IdleOK
<1>6. KnownPeersExact
  <2>1. Cardinality(Live) <= MaxPeers  BY <1>1, FS_EmptySet, FactoryAssumption
  <2> QED  BY <1>1, <2>1 DEF KnownPeersExact, IsInjective
<1>7. AddrsOfPeers  BY DEF AddrsOfPeers
<1>8. NewPeersMissNothing  BY <1>1 DEF NewPeersMissNothing
<1> QED  BY <1>2, <1>3, <1>4, <1>5, <1>6, <1>7, <1>8 DEF IInv

-----------------------------------------------------------------------------
(* The start, and the routines that dial and listen *)

\* The addresses that the factory keeps are addresses.
LEMMA SeedsTyped ==
  ASSUME TypeOK
  PROVE  seedAddrs \in Seq(Addr)
BY FactoryAssumption DEF TypeOK

LEMMA StartLoopingTyped ==
  ASSUME TypeOK, NEW seeds \in Seq(Addr), StartLooping(seeds)
  PROVE  /\ newAddrs' \in Seq(Addr) /\ tries' \in 0..Looping
         /\ listening' \in BOOLEAN /\ (listening' => localAddr # NoAddr)
<1>1. newAddrs \in Seq(Addr)  BY DEF TypeOK
<1>2. newAddrs' \in Seq(Addr)  BY <1>1, ConcatProperties DEF StartLooping
<1>3. tries' \in 0..Looping  BY FactoryAssumption DEF StartLooping, Looping
<1> QED  BY <1>2, <1>3, FactoryAssumption DEF StartLooping

LEMMA StartAloneOK ==
  ASSUME IInv, StartAlone
  PROVE  IInv'
<1> USE DEF IInv, StartAlone, queueVars, peerVars
<1>1. /\ newAddrs' \in Seq(Addr) /\ tries' \in 0..Looping
      /\ listening' \in BOOLEAN /\ (listening' => localAddr # NoAddr)
  BY StartLoopingTyped, EmptySeq
<1>2. TypeOK'  BY <1>1 DEF TypeOK
<1>3. PeersKept  BY DEF PeersKept, Live
<1>4. /\ TableOK' /\ KnownPeersExact' /\ IdleOK' /\ NewPeersMissNothing'
  BY <1>3, TableKept, PeersVarsKept
<1>5. NewConnsOK' /\ HeadsOK' /\ AddrsOfPeers'  BY DEF NewConnsOK, HeadsOK, AddrsOfPeers
<1> QED  BY <1>2, <1>4, <1>5

LEMMA ReachSeedOK ==
  ASSUME IInv, ReachSeed
  PROVE  IInv'
<1> USE DEF IInv, ReachSeed, queueVars
<1>1. PICK n \in Node : Connect(n)  BY DEF DialReaches
<1>2. /\ conns' \in Seq(ConnRecord) /\ Len(conns') <= MaxConns
      /\ newConns' \in Seq(Conn) /\ NewConnsOK' /\ PeersKept
  BY <1>1, ConnectOK
<1>3. /\ newAddrs' \in Seq(Addr) /\ tries' \in 0..Looping
      /\ listening' \in BOOLEAN /\ (listening' => localAddr # NoAddr)
  BY StartLoopingTyped, SeedsTyped
<1>4. TypeOK'  BY <1>2, <1>3 DEF TypeOK, ConnRecord
<1>5. /\ TableOK' /\ KnownPeersExact' /\ IdleOK' /\ NewPeersMissNothing'
  BY <1>2, TableKept, PeersVarsKept
<1>6. HeadsOK' /\ AddrsOfPeers'  BY DEF HeadsOK, AddrsOfPeers
<1> QED  BY <1>2, <1>4, <1>5, <1>6

LEMMA MissSeedsOK ==
  ASSUME IInv, MissSeeds
  PROVE  IInv'
<1> USE DEF IInv, MissSeeds, queueVars, peerVars
<1>1. tries' \in 0..Looping  BY FactoryAssumption DEF TypeOK, Looping
<1>2. TypeOK'  BY <1>1 DEF TypeOK
<1>3. PeersKept  BY DEF PeersKept, Live
<1>4. /\ TableOK' /\ KnownPeersExact' /\ IdleOK' /\ NewPeersMissNothing'
  BY <1>3, TableKept, PeersVarsKept
<1>5. NewConnsOK' /\ HeadsOK' /\ AddrsOfPeers'  BY DEF NewConnsOK, HeadsOK, AddrsOfPeers
<1> QED  BY <1>2, <1>4, <1>5

LEMMA TryNewAddrOK ==
  ASSUME IInv, TryNewAddr
  PROVE  IInv'
<1> USE DEF IInv, TryNewAddr, queueVars
<1>1. newAddrs' \in Seq(Addr)  BY TailFacts DEF TypeOK
<1>2. /\ conns' \in Seq(ConnRecord) /\ Len(conns') <= MaxConns
      /\ newConns' \in Seq(Conn) /\ NewConnsOK' /\ PeersKept
  <2>1. CASE DialFails
    BY <2>1 DEF DialFails, TypeOK, ConnRecord, NewConnsOK, PeersKept, Live
  <2>2. CASE DialReaches(Head(newAddrs))
    BY <2>2, ConnectOK DEF DialReaches
  <2> QED  BY <2>1, <2>2
<1>3. TypeOK'  BY <1>1, <1>2 DEF TypeOK, ConnRecord
<1>4. /\ TableOK' /\ KnownPeersExact' /\ IdleOK' /\ NewPeersMissNothing'
  BY <1>2, TableKept, PeersVarsKept
<1>5. HeadsOK' /\ AddrsOfPeers'  BY DEF HeadsOK, AddrsOfPeers
<1> QED  BY <1>2, <1>3, <1>4, <1>5

LEMMA AcceptOK ==
  ASSUME IInv, NEW n \in Node, Accept(n)
  PROVE  IInv'
<1> USE DEF IInv, Accept, queueVars
<1>1. /\ conns' \in Seq(ConnRecord) /\ Len(conns') <= MaxConns
      /\ newConns' \in Seq(Conn) /\ NewConnsOK' /\ PeersKept
  BY ConnectOK
<1>2. TypeOK'  BY <1>1 DEF TypeOK, ConnRecord
<1>3. /\ TableOK' /\ KnownPeersExact' /\ IdleOK' /\ NewPeersMissNothing'
  BY <1>1, TableKept, PeersVarsKept
<1>4. HeadsOK' /\ AddrsOfPeers'  BY DEF HeadsOK, AddrsOfPeers
<1> QED  BY <1>1, <1>2, <1>3, <1>4

-----------------------------------------------------------------------------
(* The cases of the select *)

\* One connection's record changes.
LEMMA ReplaceConn ==
  ASSUME TypeOK, NEW c \in DOMAIN conns, NEW r \in ConnRecord,
         conns' = [conns EXCEPT ![c] = r]
  PROVE  /\ conns' \in Seq(ConnRecord) /\ Len(conns') <= MaxConns
         /\ DOMAIN conns' = DOMAIN conns
         /\ conns'[c] = r /\ \A d \in DOMAIN conns \ {c} : conns'[d] = conns[d]
         /\ Live' = IF r.place = "peer" THEN Live \cup {c} ELSE Live \ {c}
<1>1. /\ conns \in Seq(ConnRecord) /\ DOMAIN conns = 1..Len(conns)
  BY ConnFacts
<1>2. /\ conns' \in Seq(ConnRecord) /\ Len(conns') = Len(conns)
      /\ DOMAIN conns' = DOMAIN conns
      /\ conns'[c] = r /\ \A d \in DOMAIN conns \ {c} : conns'[d] = conns[d]
  BY <1>1, ExceptSeq
<1>3. Live' = IF r.place = "peer" THEN Live \cup {c} ELSE Live \ {c}
  BY <1>2 DEF Live
<1>4. Len(conns') <= MaxConns  BY <1>2 DEF TypeOK
<1> QED  BY <1>2, <1>3, <1>4

\* Distinct peers have distinct ids that the table holds, so they fit in it.
LEMMA LiveFits ==
  ASSUME NEW L, NEW K, IsFiniteSet(K), Cardinality(K) <= MaxPeers,
         NEW f \in [L -> K], \A c, d \in L : f[c] = f[d] => c = d
  PROVE  Cardinality(L) <= MaxPeers
<1>1. f \in Injection(L, K)  BY DEF Injection, IsInjective
<1>2. IsFiniteSet(L) /\ Cardinality(L) <= Cardinality(K)  BY <1>1, FS_Injection
<1>3. Cardinality(L) \in Nat /\ Cardinality(K) \in Nat  BY <1>2, FS_CardinalityType
<1> QED  BY <1>2, <1>3, FactoryAssumption
\* The connection that addConn takes waits no longer, whatever becomes of it.
LEMMA TakeConn ==
  ASSUME TypeOK, NewConnsOK, newConns # <<>>, NEW r \in ConnRecord,
         newConns' = Tail(newConns), conns' = [conns EXCEPT ![Head(newConns)] = r]
  PROVE  /\ Head(newConns) \in DOMAIN conns /\ conns[Head(newConns)].place = "queued"
         /\ newConns' \in Seq(Conn) /\ NewConnsOK'
<1> DEFINE c == Head(newConns)
<1>1. newConns \in Seq(Conn)  BY DEF TypeOK
<1>2. /\ 1 \in DOMAIN newConns /\ c = newConns[1]
      /\ newConns' \in Seq(Conn) /\ IsInjective(newConns')
      /\ \A i \in DOMAIN newConns' : i + 1 \in DOMAIN newConns
                                     /\ newConns'[i] = newConns[i + 1]
      /\ DOMAIN newConns' = 1..(Len(newConns) - 1)
  BY <1>1, TailFacts DEF NewConnsOK
<1>3. c \in DOMAIN conns /\ conns[c].place = "queued"  BY <1>2 DEF NewConnsOK
<1>4. ASSUME NEW i \in DOMAIN newConns'
      PROVE  newConns'[i] \in DOMAIN conns' /\ conns'[newConns'[i]].place = "queued"
  <2>1. i + 1 \in DOMAIN newConns /\ newConns'[i] = newConns[i + 1] /\ i + 1 # 1
    BY <1>1, <1>2
  <2>2. newConns'[i] # c  BY <1>2, <2>1 DEF NewConnsOK, IsInjective
  <2>3. newConns'[i] \in DOMAIN conns /\ conns[newConns'[i]].place = "queued"
    BY <2>1 DEF NewConnsOK
  <2> HIDE DEF c
  <2> QED  BY <1>3, <2>2, <2>3, ReplaceConn DEF c
<1> QED  BY <1>2, <1>3, <1>4 DEF NewConnsOK

\* A node that is no peer becomes one, and the table has it.
LEMMA UpgradeOK ==
  ASSUME TypeOK, TableOK, KnownPeersExact, NEW c \in DOMAIN conns \ Live,
         conns[c].id \in Node, MayUpgrade(conns[c].id),
         Live' = Live \cup {c}, \A d \in DOMAIN conns : conns'[d].id = conns[d].id,
         knownPeers' = knownPeers \cup {conns[c].id}, UNCHANGED closingQ
  PROVE  TableOK' /\ KnownPeersExact'
<1> DEFINE id == conns[c].id
           liveIds == {conns[d].id : d \in Live}
<1>1. /\ id \notin knownPeers /\ Cardinality(knownPeers) < MaxPeers
      /\ IsFiniteSet(knownPeers) /\ Live \subseteq DOMAIN conns
  BY DEF MayUpgrade, TableOK, Live
<1>2. TableOK'
  <2>1. IsFiniteSet(knownPeers') /\ Cardinality(knownPeers') = Cardinality(knownPeers) + 1
    BY <1>1, FS_AddElement
  <2>2. Cardinality(knownPeers) \in Nat /\ MaxPeers \in Nat
    BY <1>1, FS_CardinalityType, FactoryAssumption
  <2> QED  BY <1>1, <2>1, <2>2 DEF TableOK
<1>3. /\ knownPeers = liveIds \cup ToSet(closingQ)
      /\ liveIds \cap ToSet(closingQ) = {} /\ IsInjective(closingQ)
      /\ \A d, e \in Live : conns[d].id = conns[e].id => d = e
  BY DEF KnownPeersExact
<1>4. {conns'[d].id : d \in Live'} = liveIds \cup {id}
  BY <1>1
<1>5. id \notin liveIds /\ id \notin ToSet(closingQ)  BY <1>1, <1>3
<1>6. ASSUME NEW d \in Live', NEW e \in Live', conns'[d].id = conns'[e].id
      PROVE  d = e
  <2>1. \A x \in Live : conns[x].id # id  BY <1>5
  <2>2. d \in DOMAIN conns /\ e \in DOMAIN conns /\ conns[d].id = conns[e].id
    BY <1>1, <1>6
  <2> QED  BY <1>3, <1>6, <2>1, <2>2
<1>7. /\ knownPeers' = {conns'[d].id : d \in Live'} \cup ToSet(closingQ')
      /\ {conns'[d].id : d \in Live'} \cap ToSet(closingQ') = {} /\ IsInjective(closingQ')
  BY <1>3, <1>4, <1>5
<1>8. Cardinality(Live') <= MaxPeers
  <2> DEFINE f == [d \in Live' |-> conns'[d].id]
  <2>1. f \in [Live' -> knownPeers']  BY <1>7
  <2>2. \A d, e \in Live' : f[d] = f[e] => d = e  BY <1>6
  <2> HIDE DEF f
  <2> QED  BY <1>2, <2>1, <2>2, LiveFits DEF TableOK
<1> QED  BY <1>2, <1>6, <1>7, <1>8 DEF KnownPeersExact

LEMMA AddConnOK ==
  ASSUME IInv, AddConn
  PROVE  IInv'
<1> DEFINE c == Head(newConns)
           id == conns[c].id
<1>1. /\ newConns # <<>> /\ newConns' = Tail(newConns)
      /\ UNCHANGED <<knownPeerAddrs, newAddrs, curHead, tries, queueVars, peerHeadQ, told,
                     newest, seedAddrs>>
  BY DEF AddConn
<1> USE DEF IInv, queueVars
<1>2. c \in DOMAIN conns /\ conns[c].place = "queued" /\ id \in Node /\ c \in Conn
      /\ c \notin Live /\ conns[c] = [id |-> id, place |-> "queued"]
  <2>1. newConns \in Seq(Conn)  BY DEF TypeOK
  <2>2. 1 \in DOMAIN newConns /\ c = newConns[1]  BY <1>1, <2>1, TailFacts
  <2>3. c \in DOMAIN conns /\ conns[c].place = "queued"  BY <2>2 DEF NewConnsOK
  <2>4. conns[c] = [id |-> id, place |-> "queued"]
    BY <2>3, ConnFacts DEF ConnRecord, Closed
  <2> QED  BY <2>3, <2>4, ConnFacts DEF Live
<1>3. CASE MayUpgrade(id)
  <2> DEFINE r == [id |-> id, place |-> "peer"]
  <2>1. /\ conns' = [conns EXCEPT ![c].place = "peer"]
        /\ peerHead' = [peerHead EXCEPT ![c] = StartingHead]
        /\ knownPeers' = knownPeers \cup {id}
        /\ localAddr' = IF Listen /\ localAddr = NoAddr THEN AddrOf[Self] ELSE localAddr
        /\ listening' = (listening \/ Listen)
        /\ behind' = IF headQ = <<>> THEN behind ELSE behind \cup {c}
        /\ Tell(c)
    BY <1>3 DEF AddConn
  <2>2. r \in ConnRecord /\ conns' = [conns EXCEPT ![c] = r]
    <3>1. [conns[c] EXCEPT !.place = "peer"] = r  BY <1>2
    <3> QED  BY <1>2, <2>1, <3>1 DEF ConnRecord
  <2>3. newConns' \in Seq(Conn) /\ NewConnsOK'  BY <1>1, <2>2, TakeConn
  <2>4. /\ conns' \in Seq(ConnRecord) /\ Len(conns') <= MaxConns /\ Live' = Live \cup {c}
        /\ \A d \in DOMAIN conns : conns'[d].id = conns[d].id
    BY <1>2, <2>2, ReplaceConn
  <2>5. TableOK' /\ KnownPeersExact'  BY <1>1, <1>2, <1>3, <2>1, <2>4, UpgradeOK
  <2>6. peerQ' \in [Conn -> SUBSET {"announce", "sendPeers", "askPeers"}]
        /\ (Listen => "announce" \in peerQ'[c]) /\ \A d \in Live : peerQ'[d] = peerQ[d]
    <3>1. peerQ \in [Conn -> SUBSET {"announce", "sendPeers", "askPeers"}]  BY DEF TypeOK
    <3>2. Live \subseteq Conn  BY ConnFacts
    <3> HIDE DEF c
    <3>3. CASE Listen
      <4>1. peerQ' = [peerQ EXCEPT ![c] = @ \cup {"announce"}]  BY <2>1, <3>3 DEF Tell, c
      <4> QED  BY <1>2, <3>1, <3>2, <4>1
    <3>4. CASE ~Listen
      <4>1. peerQ' = peerQ  BY <2>1, <3>4 DEF Tell
      <4> QED  BY <3>1, <3>4, <4>1
    <3> QED  BY <3>3, <3>4
  <2>7. peerHead' \in [Conn -> 0..MaxHead] /\ peerHead'[c] = curHead
        /\ \A d \in Live : peerHead'[d] = peerHead[d]
    <3>1. curHead \in 0..MaxHead  BY FactoryAssumption DEF TypeOK
    <3>2. peerHead \in [Conn -> 0..MaxHead] /\ Live \subseteq Conn
      BY ConnFacts DEF TypeOK
    <3>3. peerHead' = [peerHead EXCEPT ![c] = curHead]  BY <2>1 DEF StartingHead
    <3> HIDE DEF c
    <3> QED  BY <1>2, <3>1, <3>2, <3>3
  <2>8. TypeOK'
    <3>1. localAddr' \in Addr \cup {NoAddr} /\ (Listen => localAddr' # NoAddr)
      BY <2>1, FactoryAssumption DEF TypeOK
    <3>2. listening' \in BOOLEAN /\ (listening' => localAddr' # NoAddr)
      BY <2>1, <3>1, FactoryAssumption DEF TypeOK
    <3>3. knownPeers' \subseteq Node /\ behind' \subseteq Conn  BY <1>2, <2>1 DEF TypeOK
    <3> QED  BY <1>1, <2>3, <2>4, <2>6, <2>7, <3>1, <3>2, <3>3 DEF TypeOK, ConnRecord
  <2>9. HeadsOK' /\ AddrsOfPeers'  BY <1>1, <2>1 DEF HeadsOK, AddrsOfPeers
  <2>10. IdleOK'  BY <1>1, <2>4 DEF IdleOK
  <2>11. NewPeersMissNothing'
    <3>1. peerHeadQ[c] = <<>>  BY <1>2 DEF IdleOK
    <3>2. c \in behind' \/ newest = peerHead'[c]  BY <2>1, <2>7 DEF HeadsOK
    <3>3. behind \subseteq behind'  BY <2>1
    <3> QED  BY <1>1, <2>4, <2>6, <2>7, <3>1, <3>2, <3>3 DEF NewPeersMissNothing
  <2> QED  BY <2>3, <2>5, <2>8, <2>9, <2>10, <2>11
<1>4. CASE ~MayUpgrade(id)
  <2>1. /\ conns' = [conns EXCEPT ![c] = Closed]
        /\ UNCHANGED <<peerHead, knownPeers, localAddr, listening, peerQ, behind>>
    BY <1>4 DEF AddConn
  <2>2. Closed \in ConnRecord  BY DEF ConnRecord
  <2>3. newConns' \in Seq(Conn) /\ NewConnsOK'  BY <1>1, <2>1, <2>2, TakeConn
  <2>4. /\ conns' \in Seq(ConnRecord) /\ Len(conns') <= MaxConns /\ PeersKept
    BY <1>2, <2>1, <2>2, ReplaceConn DEF PeersKept, Closed, Live
  <2>5. TypeOK'  BY <1>1, <2>1, <2>3, <2>4 DEF TypeOK, ConnRecord
  <2>6. /\ TableOK' /\ KnownPeersExact' /\ IdleOK' /\ NewPeersMissNothing'
    BY <1>1, <2>1, <2>4, TableKept, PeersVarsKept
  <2>7. HeadsOK' /\ AddrsOfPeers'  BY <1>1, <2>1 DEF HeadsOK, AddrsOfPeers
  <2> QED  BY <2>3, <2>5, <2>6, <2>7
<1> QED  BY <1>3, <1>4

\* The invariant but for the tables of addresses, when no connection, peer or head changes.
LEMMA PeersAndHeadsKept ==
  ASSUME IInv, UNCHANGED <<newConns, knownPeers, curHead, closingQ, headQ, conns, peerHead,
                           peerHeadQ, peerQ, told, behind, newest>>
  PROVE  /\ NewConnsOK' /\ TableOK' /\ KnownPeersExact' /\ HeadsOK' /\ IdleOK'
         /\ NewPeersMissNothing'
<1> USE DEF IInv
<1>1. PeersKept  BY DEF PeersKept, Live
<1>2. TableOK' /\ KnownPeersExact' /\ IdleOK' /\ NewPeersMissNothing'
  BY <1>1, TableKept, PeersVarsKept
<1> QED  BY <1>2 DEF NewConnsOK, HeadsOK

LEMMA TakeAnnouncedAddrOK ==
  ASSUME IInv, TakeAnnouncedAddr
  PROVE  IInv'
<1> DEFINE e == Head(announcedQ)
<1>1. /\ announcedQ # <<>> /\ announcedQ' = Tail(announcedQ)
      /\ knownPeerAddrs' = [id \in DOMAIN knownPeerAddrs \cup {e.id} |->
                              IF id = e.id THEN e.addr ELSE knownPeerAddrs[id]]
      /\ late' = IF e.id \in knownPeers THEN late ELSE late \cup {e.id}
      /\ UNCHANGED <<knownPeers, newConns, newAddrs, curHead, localAddr, listening, tries,
                     closingQ, receivedQ, requestedQ, headQ, conns, peerHead, peerHeadQ,
                     peerQ, told, behind, newest, seedAddrs>>
  BY DEF TakeAnnouncedAddr, peerVars
<1> USE DEF IInv
<1>2. e \in [id : Node, addr : Addr] /\ announcedQ' \in Seq([id : Node, addr : Addr])
  BY <1>1, TailFacts DEF TypeOK
<1>3. DOMAIN knownPeerAddrs' \subseteq Node /\ Range(knownPeerAddrs') \subseteq Addr
  <2>1. DOMAIN knownPeerAddrs' = DOMAIN knownPeerAddrs \cup {e.id}  BY <1>1
  <2>2. \A id \in DOMAIN knownPeerAddrs : knownPeerAddrs[id] \in Addr
    BY DEF TypeOK, Range
  <2> QED  BY <1>1, <1>2, <2>1, <2>2 DEF TypeOK, Range
<1>4. late' \subseteq Node  BY <1>1, <1>2 DEF TypeOK
<1>5. TypeOK'  BY <1>1, <1>2, <1>3, <1>4 DEF TypeOK
<1>6. AddrsOfPeers'  BY <1>1 DEF AddrsOfPeers
<1> QED  BY <1>1, <1>5, <1>6, PeersAndHeadsKept

\* The closing's id leaves both tables; no other peer has it.
LEMMA TakeClosingOK ==
  ASSUME IInv, TakeClosing
  PROVE  IInv'
<1> DEFINE id == Head(closingQ)
<1>1. /\ closingQ # <<>> /\ closingQ' = Tail(closingQ)
      /\ knownPeers' = knownPeers \ {id}
      /\ knownPeerAddrs' = [x \in DOMAIN knownPeerAddrs \ {id} |-> knownPeerAddrs[x]]
      /\ late' = late \ {id}
      /\ UNCHANGED <<newConns, newAddrs, curHead, localAddr, listening, tries,
                     announcedQ, receivedQ, requestedQ, headQ, conns, peerHead, peerHeadQ,
                     peerQ, told, behind, newest, seedAddrs>>
  BY DEF TakeClosing, peerVars, Forget, Restrict
<1> USE DEF IInv
<1>2. /\ id \in Node /\ closingQ' \in Seq(Node) /\ id \in ToSet(closingQ)
      /\ IsInjective(closingQ') /\ ToSet(closingQ') = ToSet(closingQ) \ {id}
  BY <1>1, TailFacts DEF TypeOK, KnownPeersExact
<1>3. DOMAIN knownPeerAddrs' \subseteq Node /\ Range(knownPeerAddrs') \subseteq Addr
  BY <1>1 DEF TypeOK, Range
<1>4. TypeOK'  BY <1>1, <1>2, <1>3 DEF TypeOK
<1>5. PeersKept  BY <1>1 DEF PeersKept, Live
<1>6. TableOK'
  <2>1. IsFiniteSet(knownPeers') /\ Cardinality(knownPeers') <= Cardinality(knownPeers)
    BY <1>1, FS_Subset DEF TableOK
  <2>2. Cardinality(knownPeers') \in Nat /\ Cardinality(knownPeers) \in Nat
    BY <2>1, FS_CardinalityType DEF TableOK
  <2> QED  BY <2>1, <2>2, FactoryAssumption DEF TableOK
<1>7. KnownPeersExact'
  <2>1. {conns'[c].id : c \in Live'} = {conns[c].id : c \in Live}
    BY <1>5 DEF PeersKept
  <2> QED  BY <1>1, <1>2, <1>5, <2>1 DEF KnownPeersExact, PeersKept
<1>8. AddrsOfPeers'  BY <1>1 DEF AddrsOfPeers
<1>9. NewConnsOK' /\ HeadsOK'  BY <1>1 DEF NewConnsOK, HeadsOK
<1>10. IdleOK' /\ NewPeersMissNothing'  BY <1>1, <1>5, PeersVarsKept
<1> QED  BY <1>4, <1>6, <1>7, <1>8, <1>9, <1>10

LEMMA TakeReceivedOK ==
  ASSUME IInv, TakeReceived
  PROVE  IInv'
<1> DEFINE offer == Head(receivedQ)
           new == DOMAIN offer \ (knownPeers \cup {Self})
<1>1. /\ receivedQ # <<>> /\ receivedQ' = Tail(receivedQ)
      /\ UNCHANGED <<knownPeers, knownPeerAddrs, newConns, curHead, localAddr, listening,
                     tries, announcedQ, closingQ, requestedQ, headQ, late, conns, peerHead,
                     peerHeadQ, peerQ, told, behind, newest, seedAddrs>>
  BY DEF TakeReceived, peerVars
<1>2. PICK ids \in SetToSeqs(new) :
         newAddrs' = newAddrs \o [i \in DOMAIN ids |-> offer[ids[i]]]
  BY DEF TakeReceived
<1> USE DEF IInv
<1>3. offer \in Offers /\ receivedQ' \in Seq(Offers)  BY <1>1, TailFacts DEF TypeOK
<1>4. [i \in DOMAIN ids |-> offer[ids[i]]] \in Seq(Addr)
  <2>1. \A x \in DOMAIN offer : offer[x] \in Addr  BY <1>3, FactoryAssumption DEF Range
  <2>2. Cardinality(new) \in Nat
    <3>1. IsFiniteSet(new)  BY <1>3, FactoryAssumption, FS_Subset
    <3> QED  BY <3>1, FS_CardinalityType
  <2>3. ids \in [1..Cardinality(new) -> new]  BY DEF SetToSeqs
  <2>4. DOMAIN ids = 1..Cardinality(new) /\ \A i \in DOMAIN ids : offer[ids[i]] \in Addr
    BY <2>1, <2>3
  <2> HIDE DEF new, offer
  <2> QED  BY <2>2, <2>4
<1>5. newAddrs' \in Seq(Addr)  BY <1>2, <1>4, ConcatProperties DEF TypeOK
<1>6. TypeOK'  BY <1>1, <1>3, <1>5 DEF TypeOK
<1>7. AddrsOfPeers'  BY <1>1 DEF AddrsOfPeers
<1> QED  BY <1>1, <1>6, <1>7, PeersAndHeadsKept

\* An event for a peer is added to what it is told.
LEMMA SendToTyped ==
  ASSUME TypeOK, NEW id, NEW what \in {"announce", "sendPeers", "askPeers"},
         SendTo(id, what)
  PROVE  /\ peerQ' \in [Conn -> SUBSET {"announce", "sendPeers", "askPeers"}]
         /\ \A c \in Conn : peerQ[c] \subseteq peerQ'[c]
BY DEF TypeOK, SendTo

LEMMA PeersToldMore ==
  ASSUME IInv, \A c \in Conn : peerQ[c] \subseteq peerQ'[c],
         UNCHANGED <<newConns, knownPeers, curHead, closingQ, headQ, conns, peerHead,
                     peerHeadQ, told, behind, newest>>
  PROVE  /\ NewConnsOK' /\ TableOK' /\ KnownPeersExact' /\ HeadsOK' /\ IdleOK'
         /\ NewPeersMissNothing'
<1> USE DEF IInv
<1>1. PeersKept /\ Live' = Live /\ Live \subseteq Conn  BY ConnFacts DEF PeersKept, Live
<1>2. TableOK' /\ KnownPeersExact'  BY <1>1, TableKept
<1>3. NewPeersMissNothing'  BY <1>1 DEF NewPeersMissNothing
<1> QED  BY <1>1, <1>2, <1>3 DEF NewConnsOK, HeadsOK, IdleOK

LEMMA TakeRequestedOK ==
  ASSUME IInv, TakeRequested
  PROVE  IInv'
<1> USE DEF IInv, TakeRequested, factoryVars
<1>1. requestedQ' \in Seq(Node)  BY TailFacts DEF TypeOK
<1>2. /\ peerQ' \in [Conn -> SUBSET {"announce", "sendPeers", "askPeers"}]
      /\ \A c \in Conn : peerQ[c] \subseteq peerQ'[c]
  BY SendToTyped
<1>3. TypeOK'  BY <1>1, <1>2 DEF TypeOK
<1>4. AddrsOfPeers'  BY DEF AddrsOfPeers
<1> QED  BY <1>2, <1>3, <1>4, PeersToldMore

LEMMA TakeHeadOK ==
  ASSUME IInv, TakeHead
  PROVE  IInv'
<1> USE DEF IInv
<1>1. /\ headQ # <<>> /\ headQ' = Tail(headQ) /\ curHead' = Head(headQ)
      /\ UNCHANGED <<knownPeers, knownPeerAddrs, newConns, newAddrs, localAddr, listening,
                     tries, announcedQ, closingQ, receivedQ, requestedQ, late, conns,
                     peerHead, peerHeadQ, peerQ, told, behind, newest, seedAddrs>>
  BY DEF TakeHead, peerVars
<1>2. /\ Head(headQ) \in 1..MaxHead /\ headQ' \in Seq(1..MaxHead) /\ Head(headQ) = headQ[1]
      /\ 1 \in DOMAIN headQ
      /\ \A i \in DOMAIN headQ' : i + 1 \in DOMAIN headQ /\ headQ'[i] = headQ[i + 1]
      /\ headQ' # <<>> => Last(headQ') = Last(headQ)
      /\ headQ' = <<>> => Last(headQ) = Head(headQ)
  <2>1. headQ \in Seq(1..MaxHead) /\ headQ # <<>> /\ headQ' = Tail(headQ)
    BY <1>1 DEF TypeOK
  <2>2. /\ Head(headQ) \in 1..MaxHead /\ Tail(headQ) \in Seq(1..MaxHead)
        /\ Head(headQ) = headQ[1] /\ 1 \in DOMAIN headQ
        /\ \A i \in DOMAIN Tail(headQ) : i + 1 \in DOMAIN headQ /\ Tail(headQ)[i] = headQ[i + 1]
        /\ Tail(headQ) # <<>> => Last(Tail(headQ)) = Last(headQ)
        /\ Tail(headQ) = <<>> => Last(headQ) = Head(headQ)
    BY <2>1, TailFacts, Zenon
  <2> QED  BY <2>1, <2>2, Zenon
<1>3. HeadsOK'  BY <1>1, <1>2 DEF HeadsOK
<1>4. curHead' \in 0..newest
  <2>1. headQ[1] <= newest  BY <1>2 DEF HeadsOK
  <2>2. newest \in Nat /\ MaxHead \in Nat  BY FactoryAssumption DEF TypeOK
  <2>3. headQ[1] \in 1..MaxHead /\ curHead' = headQ[1]  BY <1>1, <1>2
  <2> QED  BY <2>1, <2>2, <2>3
<1>5. TypeOK'  BY <1>1, <1>2, <1>4 DEF TypeOK
<1>6. PeersKept  BY <1>1 DEF PeersKept, Live
<1>7. TableOK' /\ KnownPeersExact' /\ IdleOK' /\ NewPeersMissNothing'
  BY <1>1, <1>6, TableKept, PeersVarsKept
<1>8. NewConnsOK' /\ AddrsOfPeers'  BY <1>1 DEF NewConnsOK, AddrsOfPeers
<1> QED  BY <1>3, <1>5, <1>7, <1>8

LEMMA SeekNewPeersOK ==
  ASSUME IInv, SeekNewPeers
  PROVE  IInv'
<1> USE DEF IInv
<1>1. UNCHANGED <<knownPeers, knownPeerAddrs, newConns, curHead, localAddr, listening,
                  tries, announcedQ, closingQ, receivedQ, requestedQ, headQ, late, conns,
                  peerHead, peerHeadQ, told, behind, newest, seedAddrs>>
  BY DEF SeekNewPeers, queueVars
<1>2. newAddrs' \in Seq(Addr)
  <2>1. newAddrs \in Seq(Addr) /\ seedAddrs \in Seq(Addr)  BY SeedsTyped DEF TypeOK
  <2>2. newAddrs \o seedAddrs \in Seq(Addr)  BY <2>1, ConcatProperties
  <2>3. newAddrs' = newAddrs \/ newAddrs' = newAddrs \o seedAddrs
    BY DEF SeekNewPeers, Seeds
  <2> QED  BY <2>1, <2>2, <2>3
<1>3. /\ peerQ' \in [Conn -> SUBSET {"announce", "sendPeers", "askPeers"}]
      /\ \A c \in Conn : peerQ[c] \subseteq peerQ'[c]
  <2>1. CASE UNCHANGED peerQ  BY <2>1 DEF TypeOK
  <2>2. ASSUME NEW id \in knownPeers, SendTo(id, "askPeers")  PROVE <1>3!:
    BY <2>2, SendToTyped
  <2> QED  BY <2>1, <2>2 DEF SeekNewPeers
<1>4. TypeOK'  BY <1>1, <1>2, <1>3 DEF TypeOK
<1>5. AddrsOfPeers'  BY <1>1 DEF AddrsOfPeers
<1> QED  BY <1>1, <1>3, <1>4, <1>5, PeersToldMore

-----------------------------------------------------------------------------
(* The peer routines and the chain *)

\* A peer that acts on an event for its address has told it.
LEMMA PeerActsOK ==
  ASSUME IInv, NEW c \in Conn, NEW what \in peerQ[c], PeerActs(c, what)
  PROVE  IInv'
<1> USE DEF IInv
<1>1. /\ peerQ' = [peerQ EXCEPT ![c] = @ \ {what}]
      /\ told' = IF what = "announce" THEN told \cup {c} ELSE told
      /\ UNCHANGED <<knownPeers, knownPeerAddrs, newConns, newAddrs, curHead, seedAddrs,
                     localAddr, listening, tries, announcedQ, closingQ, receivedQ,
                     requestedQ, headQ, late, conns, peerHead, peerHeadQ, behind, newest>>
  BY DEF PeerActs, factoryVars, queueVars
<1>2. /\ peerQ' \in [Conn -> SUBSET {"announce", "sendPeers", "askPeers"}]
      /\ told' \subseteq Conn
  BY <1>1 DEF TypeOK
<1>3. TypeOK'  BY <1>1, <1>2 DEF TypeOK
<1>4. PeersKept /\ Live' = Live /\ Live \subseteq Conn  BY <1>1, ConnFacts DEF PeersKept, Live
<1>5. TableOK' /\ KnownPeersExact'  BY <1>1, <1>4, TableKept
<1>6. NewConnsOK' /\ HeadsOK' /\ IdleOK' /\ AddrsOfPeers'
  BY <1>1, <1>4 DEF NewConnsOK, HeadsOK, IdleOK, AddrsOfPeers
<1>7. ASSUME NEW d \in Live, Listen  PROVE d \in told' \/ "announce" \in peerQ'[d]
  <2>1. d \in told \/ "announce" \in peerQ[d]  BY <1>7 DEF NewPeersMissNothing
  <2>2. peerQ \in [Conn -> SUBSET {"announce", "sendPeers", "askPeers"}]  BY DEF TypeOK
  <2> QED  BY <1>1, <1>4, <2>1, <2>2
<1>8. NewPeersMissNothing'
  BY <1>1, <1>4, <1>7 DEF NewPeersMissNothing
<1> QED  BY <1>3, <1>5, <1>6, <1>8

LEMMA PeerTakesHeadOK ==
  ASSUME IInv, NEW c \in Conn, PeerTakesHead(c)
  PROVE  IInv'
<1> USE DEF IInv
<1>1. /\ c \in Live /\ peerHeadQ[c] # <<>>
      /\ peerHead' = [peerHead EXCEPT ![c] = Head(peerHeadQ[c])]
      /\ peerHeadQ' = [peerHeadQ EXCEPT ![c] = Tail(peerHeadQ[c])]
      /\ UNCHANGED <<knownPeers, knownPeerAddrs, newConns, newAddrs, curHead, seedAddrs,
                     localAddr, listening, tries, announcedQ, closingQ, receivedQ,
                     requestedQ, headQ, late, conns, peerQ, told, behind, newest>>
  BY DEF PeerTakesHead, factoryVars, queueVars
<1>2. /\ peerHead \in [Conn -> 0..MaxHead]
      /\ peerHeadQ \in [Conn -> Seq(1..MaxHead)] /\ peerHeadQ[c] \in Seq(1..MaxHead)
  BY DEF TypeOK
<1>3. /\ Head(peerHeadQ[c]) \in 1..MaxHead /\ Tail(peerHeadQ[c]) \in Seq(1..MaxHead)
      /\ Tail(peerHeadQ[c]) # <<>> => Last(Tail(peerHeadQ[c])) = Last(peerHeadQ[c])
      /\ Tail(peerHeadQ[c]) = <<>> => Last(peerHeadQ[c]) = Head(peerHeadQ[c])
  BY <1>1, <1>2, TailFacts, Zenon
<1>4. Head(peerHeadQ[c]) \in 0..MaxHead  BY <1>3, FactoryAssumption
<1>5. peerHead' \in [Conn -> 0..MaxHead] /\ peerHeadQ' \in [Conn -> Seq(1..MaxHead)]
  BY <1>1, <1>2, <1>3, <1>4
<1>6. TypeOK'  BY <1>1, <1>5 DEF TypeOK
<1>7. PeersKept /\ Live' = Live /\ Live \subseteq Conn  BY <1>1, ConnFacts DEF PeersKept, Live
<1>8. TableOK' /\ KnownPeersExact'  BY <1>1, <1>7, TableKept
<1>9. NewConnsOK' /\ HeadsOK' /\ AddrsOfPeers'
  BY <1>1 DEF NewConnsOK, HeadsOK, AddrsOfPeers
<1>10. IdleOK'  BY <1>1, <1>2, <1>7 DEF IdleOK
<1>11. /\ peerHead'[c] = Head(peerHeadQ[c]) /\ peerHeadQ'[c] = Tail(peerHeadQ[c])
       /\ \A d \in Live \ {c} : peerHead'[d] = peerHead[d] /\ peerHeadQ'[d] = peerHeadQ[d]
  BY <1>1, <1>2, <1>7
<1>12. ASSUME NEW d \in Live
       PROVE  d \in behind'
              \/ newest' = IF peerHeadQ'[d] = <<>> THEN peerHead'[d] ELSE Last(peerHeadQ'[d])
  <2>1. d \in behind
        \/ newest = IF peerHeadQ[d] = <<>> THEN peerHead[d] ELSE Last(peerHeadQ[d])
    BY DEF NewPeersMissNothing
  <2>2. CASE d = c  BY <1>1, <1>3, <1>11, <2>1, <2>2
  <2>3. CASE d # c  BY <1>1, <1>11, <2>1, <2>3
  <2> QED  BY <2>2, <2>3
<1>13. NewPeersMissNothing'
  BY <1>1, <1>7, <1>12 DEF NewPeersMissNothing
<1> QED  BY <1>6, <1>8, <1>9, <1>10, <1>13

\* What a peer reports waits in a queue of its own topic.
LEMMA PeerReportsOK ==
  ASSUME IInv, NEW c \in Conn, PeerReports(c)
  PROVE  IInv'
<1> DEFINE id == conns[c].id
<1> USE DEF IInv
<1>1. /\ c \in Live
      /\ UNCHANGED <<knownPeers, knownPeerAddrs, newConns, newAddrs, curHead, seedAddrs,
                     localAddr, listening, tries, closingQ, headQ, late, conns, peerHead,
                     peerHeadQ, peerQ, told, behind, newest>>
  BY DEF PeerReports, factoryVars, peerVars
<1>2. id \in Node /\ [id |-> id, addr |-> AddrOf[id]] \in [id : Node, addr : Addr]
  <2>1. id \in Node  BY <1>1, ConnFacts DEF Live
  <2>2. AddrOf[id] \in Addr  BY <2>1, FactoryAssumption
  <2> QED  BY <2>1, <2>2
<1>3. /\ announcedQ \in Seq([id : Node, addr : Addr]) /\ requestedQ \in Seq(Node)
      /\ receivedQ \in Seq(Offers)
  BY DEF TypeOK
<1>4. /\ announcedQ' \in Seq([id : Node, addr : Addr]) /\ requestedQ' \in Seq(Node)
      /\ receivedQ' \in Seq(Offers)
  <2>1. CASE announcedQ' = Append(announcedQ, [id |-> id, addr |-> AddrOf[id]])
             /\ UNCHANGED <<receivedQ, requestedQ>>
    BY <1>2, <1>3, <2>1, AppendFacts
  <2>2. CASE requestedQ' = Append(requestedQ, id) /\ UNCHANGED <<announcedQ, receivedQ>>
    BY <1>2, <1>3, <2>2, AppendFacts
  <2>3. CASE (\E offer \in Offers : receivedQ' = Append(receivedQ, offer))
             /\ UNCHANGED <<announcedQ, requestedQ>>
    BY <1>3, <2>3, AppendFacts
  <2> QED  BY <2>1, <2>2, <2>3 DEF PeerReports
<1>5. TypeOK'  BY <1>1, <1>4 DEF TypeOK
<1>6. AddrsOfPeers'  BY <1>1 DEF AddrsOfPeers
<1> QED  BY <1>1, <1>5, <1>6, PeersAndHeadsKept

\* The id of a peer that ends moves from the peers that run to the closings.
LEMMA PeerEndsOK ==
  ASSUME IInv, NEW c \in Conn, PeerEnds(c)
  PROVE  IInv'
<1> DEFINE id == conns[c].id
           liveIds == {conns[d].id : d \in Live}
<1> USE DEF IInv
<1>1. /\ c \in Live /\ conns' = [conns EXCEPT ![c] = Closed]
      /\ peerQ' = [peerQ EXCEPT ![c] = {}]
      /\ peerHeadQ' = [peerHeadQ EXCEPT ![c] = <<>>]
      /\ peerHead' = [peerHead EXCEPT ![c] = 0]
      /\ told' = told \ {c} /\ behind' = behind \ {c}
      /\ closingQ' = Append(closingQ, id)
      /\ UNCHANGED <<knownPeers, knownPeerAddrs, newConns, newAddrs, curHead, seedAddrs,
                     localAddr, listening, tries, announcedQ, receivedQ, requestedQ, headQ,
                     late, newest>>
  BY DEF PeerEnds, factoryVars
<1>2. /\ c \in DOMAIN conns /\ conns[c].place = "peer" /\ id \in Node
      /\ Live \subseteq DOMAIN conns /\ Live \subseteq Conn /\ Closed \in ConnRecord
      /\ Closed.place # "peer" /\ Closed.place # "queued"
  BY <1>1, ConnFacts DEF Live, ConnRecord, Closed
<1>3. /\ conns' \in Seq(ConnRecord) /\ Len(conns') <= MaxConns
      /\ DOMAIN conns' = DOMAIN conns /\ Live' = Live \ {c}
      /\ \A d \in DOMAIN conns \ {c} : conns'[d] = conns[d]
  BY <1>1, <1>2, ReplaceConn
<1>4. /\ peerQ' \in [Conn -> SUBSET {"announce", "sendPeers", "askPeers"}]
      /\ peerHeadQ' \in [Conn -> Seq(1..MaxHead)] /\ peerHeadQ'[c] = <<>>
      /\ peerHead' \in [Conn -> 0..MaxHead]
      /\ \A d \in Conn \ {c} : /\ peerQ'[d] = peerQ[d] /\ peerHeadQ'[d] = peerHeadQ[d]
                               /\ peerHead'[d] = peerHead[d]
  <2>1. /\ peerQ \in [Conn -> SUBSET {"announce", "sendPeers", "askPeers"}]
        /\ peerHeadQ \in [Conn -> Seq(1..MaxHead)]
        /\ peerHead \in [Conn -> 0..MaxHead]
    BY DEF TypeOK
  <2>2. 0 \in 0..MaxHead /\ <<>> \in Seq(1..MaxHead)  BY FactoryAssumption
  <2> QED  BY <1>1, <2>1, <2>2
<1>5. id \notin ToSet(closingQ) /\ id \in liveIds  BY <1>1 DEF KnownPeersExact
<1>6. /\ closingQ' \in Seq(Node) /\ ToSet(closingQ') = ToSet(closingQ) \cup {id}
      /\ IsInjective(closingQ')
  <2>1. closingQ \in Seq(Node) /\ IsInjective(closingQ)  BY DEF TypeOK, KnownPeersExact
  <2> QED  BY <1>1, <1>2, <1>5, <2>1, AppendFacts
<1>7. TypeOK'
  BY <1>1, <1>3, <1>4, <1>6 DEF TypeOK, ConnRecord
<1>8. {conns'[d].id : d \in Live'} = liveIds \ {id}
  <2>1. \A d \in Live' : d \in Live /\ conns'[d].id = conns[d].id /\ conns[d].id # id
    BY <1>1, <1>2, <1>3 DEF KnownPeersExact
  <2>2. \A d \in Live : conns[d].id # id => d \in Live'  BY <1>3
  <2> QED  BY <2>1, <2>2
<1>9. KnownPeersExact'
  <2>1. \A d, e \in Live' : conns'[d].id = conns'[e].id => d = e
    BY <1>2, <1>3 DEF KnownPeersExact
  <2>2. /\ knownPeers' = {conns'[d].id : d \in Live'} \cup ToSet(closingQ')
        /\ {conns'[d].id : d \in Live'} \cap ToSet(closingQ') = {}
    <3>1. knownPeers = liveIds \cup ToSet(closingQ) /\ liveIds \cap ToSet(closingQ) = {}
      BY DEF KnownPeersExact
    <3> QED  BY <1>1, <1>5, <1>6, <1>8, <3>1
  <2>3. Cardinality(Live') <= MaxPeers
    <3>1. TableOK'  BY <1>1 DEF TableOK
    <3> DEFINE f == [d \in Live' |-> conns'[d].id]
    <3>2. f \in [Live' -> knownPeers']  BY <2>2
    <3>3. \A d, e \in Live' : f[d] = f[e] => d = e  BY <2>1
    <3> HIDE DEF f
    <3> QED  BY <3>1, <3>2, <3>3, LiveFits DEF TableOK
  <2> QED  BY <1>6, <2>1, <2>2, <2>3 DEF KnownPeersExact
<1>10. TableOK' /\ HeadsOK' /\ AddrsOfPeers'
  BY <1>1 DEF TableOK, HeadsOK, AddrsOfPeers
<1>11. NewConnsOK'
  <2>1. \A i \in DOMAIN newConns : newConns[i] # c  BY <1>2 DEF NewConnsOK
  <2> QED  BY <1>1, <1>3, <2>1 DEF NewConnsOK
<1>12. IdleOK'  BY <1>3, <1>4 DEF IdleOK
<1>13. NewPeersMissNothing'
  BY <1>1, <1>2, <1>3, <1>4 DEF NewPeersMissNothing
<1> QED  BY <1>7, <1>9, <1>10, <1>11, <1>12, <1>13

\* Everyone is sent the new head.
LEMMA ValidateHeadOK ==
  ASSUME IInv, ValidateHead
  PROVE  IInv'
<1> USE DEF IInv
<1>1. /\ newest < MaxHead /\ newest' = newest + 1 /\ headQ' = Append(headQ, newest')
      /\ behind' = {}
      /\ peerHeadQ' = [c \in Conn |-> IF c \in Live THEN Append(peerHeadQ[c], newest')
                                      ELSE peerHeadQ[c]]
      /\ UNCHANGED <<knownPeers, knownPeerAddrs, newConns, newAddrs, curHead, seedAddrs,
                     localAddr, listening, tries, announcedQ, closingQ, receivedQ,
                     requestedQ, late, conns, peerHead, peerQ, told>>
  BY DEF ValidateHead, factoryVars
<1>2. /\ newest \in Nat /\ MaxHead \in Nat /\ newest' \in 1..MaxHead
      /\ newest' \in 0..MaxHead /\ curHead' \in 0..newest'
  BY <1>1, FactoryAssumption DEF TypeOK
<1>3. headQ \in Seq(1..MaxHead) /\ peerHeadQ \in [Conn -> Seq(1..MaxHead)]
  BY DEF TypeOK
<1>4. /\ headQ' \in Seq(1..MaxHead) /\ headQ' # <<>> /\ Last(headQ') = newest'
      /\ DOMAIN headQ' = 1..(Len(headQ) + 1) /\ headQ'[Len(headQ) + 1] = newest'
      /\ \A i \in DOMAIN headQ : headQ'[i] = headQ[i]
  <2> DEFINE new == newest'
             S == 1..MaxHead
  <2>1. headQ \in Seq(S) /\ new \in S /\ headQ' = Append(headQ, new)  BY <1>1, <1>2, <1>3
  <2> HIDE DEF new, S
  <2>2. /\ Append(headQ, new) \in Seq(S) /\ Append(headQ, new) # <<>>
        /\ Last(Append(headQ, new)) = new
        /\ DOMAIN Append(headQ, new) = 1..(Len(headQ) + 1)
        /\ Append(headQ, new)[Len(headQ) + 1] = new
        /\ \A i \in DOMAIN headQ : Append(headQ, new)[i] = headQ[i]
    BY <2>1, AppendFacts
  <2> USE DEF new, S
  <2> QED  BY <2>1, <2>2, Zenon
<1>5. \A i \in DOMAIN headQ' : headQ'[i] <= newest'
  <2>1. DOMAIN headQ = 1..Len(headQ) /\ Len(headQ) \in Nat
    BY <1>3, LenProperties
  <2>2. \A i \in DOMAIN headQ : headQ[i] \in Nat /\ headQ[i] <= newest
    <3>1. \A i \in DOMAIN headQ : headQ[i] \in 1..MaxHead  BY <1>3, ElementOfSeq, <2>1
    <3> QED  BY <3>1 DEF HeadsOK
  <2>3. \A i \in DOMAIN headQ' : i \in DOMAIN headQ \/ i = Len(headQ) + 1
    BY <1>4, <2>1
  <2> QED  BY <1>1, <1>2, <1>4, <2>2, <2>3
<1>6. HeadsOK'  BY <1>4, <1>5 DEF HeadsOK
<1>7. ASSUME NEW c \in Live
      PROVE  /\ Append(peerHeadQ[c], newest') \in Seq(1..MaxHead)
             /\ Append(peerHeadQ[c], newest') # <<>>
             /\ Last(Append(peerHeadQ[c], newest')) = newest'
  <2> DEFINE new == newest'
             q == peerHeadQ[c]
             S == 1..MaxHead
  <2>1. q \in Seq(S)  BY <1>3, <1>7, ConnFacts
  <2>2. new \in S  BY <1>2
  <2> HIDE DEF new, q, S
  <2>3. /\ Append(q, new) \in Seq(S) /\ Append(q, new) # <<>>
        /\ Last(Append(q, new)) = new
    BY <2>1, <2>2, AppendFacts
  <2> QED  BY <2>3 DEF new, q, S
<1>8. peerHeadQ' \in [Conn -> Seq(1..MaxHead)]  BY <1>1, <1>3, <1>7
<1>9. TypeOK'  BY <1>1, <1>2, <1>4, <1>8 DEF TypeOK
<1>10. PeersKept /\ Live' = Live /\ Live \subseteq Conn  BY <1>1, ConnFacts DEF PeersKept, Live
<1>11. TableOK' /\ KnownPeersExact'  BY <1>1, <1>10, TableKept
<1>12. NewConnsOK' /\ AddrsOfPeers'  BY <1>1 DEF NewConnsOK, AddrsOfPeers
<1>13. IdleOK'  BY <1>1, <1>10 DEF IdleOK
<1>14. \A c \in Live : peerHeadQ'[c] # <<>> /\ Last(peerHeadQ'[c]) = newest'
  BY <1>1, <1>7, <1>10
<1>15. NewPeersMissNothing'
  BY <1>1, <1>10, <1>14 DEF NewPeersMissNothing
<1> QED  BY <1>6, <1>9, <1>11, <1>12, <1>13, <1>15

-----------------------------------------------------------------------------
(* The theorems *)

LEMMA StepOK == IInv /\ [Next]_vars => IInv'
<1> SUFFICES ASSUME IInv, [Next]_vars  PROVE IInv'
  OBVIOUS
<1>1. CASE StartAlone  BY <1>1, StartAloneOK
<1>2. CASE ReachSeed  BY <1>2, ReachSeedOK
<1>3. CASE MissSeeds  BY <1>3, MissSeedsOK
<1>4. CASE LoopStep
  BY <1>4, AddConnOK, TakeAnnouncedAddrOK, TakeClosingOK, TakeReceivedOK, TakeRequestedOK,
     TakeHeadOK, SeekNewPeersOK DEF LoopStep
<1>5. CASE TryNewAddr  BY <1>5, TryNewAddrOK
<1>6. ASSUME NEW n \in Node, Accept(n)  PROVE IInv'  BY <1>6, AcceptOK
<1>7. ASSUME NEW c \in Conn, PeerStep(c) \/ PeerReports(c) \/ PeerEnds(c)  PROVE IInv'
  <2>1. CASE PeerTakesHead(c)  BY <2>1, PeerTakesHeadOK
  <2>2. ASSUME NEW what \in peerQ[c], PeerActs(c, what)  PROVE IInv'  BY <2>2, PeerActsOK
  <2>3. CASE PeerReports(c)  BY <2>3, PeerReportsOK
  <2>4. CASE PeerEnds(c)  BY <2>4, PeerEndsOK
  <2> QED  BY <1>7, <2>1, <2>2, <2>3, <2>4 DEF PeerStep
<1>8. CASE ValidateHead  BY <1>8, ValidateHeadOK
<1>9. CASE UNCHANGED vars
  <2> USE <1>9 DEF IInv, vars, factoryVars, queueVars, peerVars
  <2>1. TypeOK'  BY DEF TypeOK
  <2>2. Live' = Live  BY DEF Live
  <2>3. NewConnsOK' /\ TableOK' /\ HeadsOK' /\ IdleOK'
    BY <2>2 DEF NewConnsOK, TableOK, HeadsOK, IdleOK
  <2>4. KnownPeersExact' /\ AddrsOfPeers' /\ NewPeersMissNothing'
    BY <2>2 DEF KnownPeersExact, AddrsOfPeers, NewPeersMissNothing
  <2> QED  BY <2>1, <2>3, <2>4
<1> QED  BY <1>1, <1>2, <1>3, <1>4, <1>5, <1>6, <1>7, <1>8, <1>9 DEF Next

LEMMA Invariance == Spec => []IInv
<1>1. Init => IInv  BY InitOK
<1>2. IInv /\ [Next]_vars => IInv'  BY StepOK
<1> QED  BY <1>1, <1>2, PTL DEF Spec

\* Whatever connects, is refused, reports and ends, in any order of the topics, the
\* factory's fields keep their types: in particular the listener never starts before
\* its address is known (peerfactory.go:95, 214).
THEOREM TypeCorrect == Spec => []TypeOK
<1>1. IInv => TypeOK  BY DEF IInv
<1> QED  BY <1>1, Invariance, PTL

\* No node is ever a peer twice, the peers never outnumber MaxPeers, and knownPeers is
\* exactly the peers that run and those whose closing waits (addConn and the handler of
\* ClosingPeer).
THEOREM KnownPeersAreExact == Spec => []KnownPeersExact
<1>1. IInv => KnownPeersExact  BY DEF IInv
<1> QED  BY <1>1, Invariance, PTL

\* The address list that is given out names peers only, and ids whose address came
\* after their closing.
THEOREM AddrsAreOfPeers == Spec => []AddrsOfPeers
<1>1. IInv => AddrsOfPeers  BY DEF IInv
<1> QED  BY <1>1, Invariance, PTL

\* NewPeer subscribes before addConn goes on, so no head and no address is lost on a
\* new peer, except heads that the factory itself had still to take.
THEOREM NewPeersMissNoEvent == Spec => []NewPeersMissNothing
<1>1. IInv => NewPeersMissNothing  BY DEF IInv
<1> QED  BY <1>1, Invariance, PTL

=============================================================================
