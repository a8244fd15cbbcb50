----------------------------- MODULE PeerFactory ----------------------------
(***************************************************************************)
(* internal/peerfactory: the routine that turns connections into peers and *)
(* keeps the tables of peers and addresses.  It meets the peer routines    *)
(* and the chain only through topics (see Delivery): each topic is a queue *)
(* of its own, and so is each subscription of each peer.                   *)
(***************************************************************************)
EXTENDS Naturals, Sequences, FiniteSets, SequencesExt, Functions

CONSTANTS
    Node,           \* runtime ids of the other nodes
    Self,           \* params.RuntimeId
    Addr, AddrOf,   \* the listen address of each node, of this one too
    Listen, NoAddr, \* params.Listen; ""
    Starts,         \* seeds that SetSeeds may have set, with params.LocalAddr
    MaxPeers,
    NumTries,       \* rounds of seeds at the start, 15 in the code
    Offers,         \* the address lists that peers send
    MaxConns, MaxHead, MaxReports, MaxAddrs     \* bounds: connections, heads, reports of
                                            \* peers and addresses that wait

ASSUME FactoryAssumption ==
    /\ Self \notin Node /\ NoAddr \notin Addr
    /\ AddrOf \in [Node \cup {Self} -> Addr]
    /\ Listen \in BOOLEAN
    /\ \A start \in Starts : start.seeds \in Seq(Addr) /\ start.local \in Addr \cup {NoAddr}
    /\ \A o \in Offers :
          DOMAIN o \subseteq Node \cup {Self} /\ IsFiniteSet(DOMAIN o) /\ Range(o) \subseteq Addr
    /\ {MaxPeers, NumTries, MaxConns, MaxHead, MaxReports, MaxAddrs}
         \subseteq Nat

VARIABLES
    knownPeers, knownPeerAddrs, newConns, newAddrs, curHead,    \* as in the code
    seedAddrs, localAddr,   \* never changed after the start; params.LocalAddr
    listening,              \* listenStarted
    tries,                  \* rounds of seeds so far; Looping once Loop has its select
    announcedQ, closingQ, receivedQ, requestedQ, headQ,     \* the factory's subs
    late,       \* history: ids whose address came after their closing
    behind,     \* history: peers made while the factory had a head to take
    conns,      \* the connections made: the node at the other end, and what became of it
    peerHead, peerHeadQ,    \* Peer.curHead of each connection, its ValidatedHead sub
    peerQ,      \* its other subs: what it is told to do
    told,       \* connections whose other end was told our address
    newest      \* the newest head that the chain has announced

factoryVars ==
    <<knownPeers, knownPeerAddrs, newConns, newAddrs, curHead, seedAddrs, localAddr,
      listening, tries>>
queueVars == <<announcedQ, closingQ, receivedQ, requestedQ, headQ, late>>
peerVars == <<conns, peerHead, peerHeadQ, peerQ, told, behind>>
vars == <<factoryVars, queueVars, peerVars, newest>>

Looping == NumTries + 1
Conn == 1..MaxConns

\* A connection that is refused, or whose peer has ended.
Closed == [id |-> Self, place |-> "closed"]
Live == {c \in DOMAIN conns : conns[c].place = "peer"}
HasPeer(id) == \E c \in Live : conns[c].id = id

Init ==
    /\ knownPeers = {} /\ knownPeerAddrs = <<>>
    /\ newConns = <<>> /\ newAddrs = <<>>
    /\ curHead = 0 /\ newest = 0
    /\ \E start \in Starts : seedAddrs = start.seeds /\ localAddr = start.local
    /\ listening = FALSE
    /\ tries = 0
    /\ announcedQ = <<>> /\ closingQ = <<>> /\ receivedQ = <<>>
    /\ requestedQ = <<>> /\ headQ = <<>>
    /\ late = {} /\ behind = {}
    /\ conns = <<>>
    /\ peerHead = [c \in Conn |-> 0]
    /\ peerHeadQ = [c \in Conn |-> <<>>]
    /\ peerQ = [c \in Conn |-> {}] /\ told = {}

-----------------------------------------------------------------------------
(* Connections *)

\* A connection whose handshake succeeded waits in newConns.
Connect(n) ==
    /\ Len(conns) < MaxConns
    /\ conns' = Append(conns, [id |-> n, place |-> "queued"])
    /\ newConns' = Append(newConns, Len(conns) + 1)

\* tryConn: no answer, or "will not connect to self", or the node at this address.
DialFails == UNCHANGED <<conns, newConns>>
DialReaches(addr) == \E n \in Node : AddrOf[n] = addr /\ Connect(n)

\* Mutant: the routine listen starts before it is known where.
StartLooping_ListensAnyway(seeds) ==
    tries' = Looping /\ newAddrs' = newAddrs \o seeds /\ listening' = Listen

\* Loop starts: any seed will do, and all of them are queued after that; the listener
\* starts if its address is known.
StartLooping(seeds) ==
    /\ tries' = Looping
    /\ newAddrs' = newAddrs \o seeds
    /\ listening' = (Listen /\ localAddr # NoAddr)

StartAlone ==
    /\ tries = 0 /\ seedAddrs = <<>>
    /\ StartLooping(<<>>)
    /\ UNCHANGED <<knownPeers, knownPeerAddrs, newConns, curHead, localAddr, queueVars,
                   peerVars, newest, seedAddrs>>

ReachSeed ==
    /\ tries < NumTries
    /\ \E i \in DOMAIN seedAddrs : DialReaches(seedAddrs[i])
    /\ StartLooping(seedAddrs)
    /\ UNCHANGED <<knownPeers, knownPeerAddrs, curHead, localAddr, queueVars, peerHead,
                   peerHeadQ, peerQ, told, behind, newest, seedAddrs>>

\* After the last round this is "failed to reach seed peer" and the node ends.
MissSeeds ==
    /\ tries < NumTries /\ seedAddrs # <<>>
    /\ tries' = tries + 1
    /\ UNCHANGED <<knownPeers, knownPeerAddrs, newConns, newAddrs, curHead, localAddr,
                   listening, queueVars, peerVars, newest, seedAddrs>>

\* The routine tryNewAddrs.
TryNewAddr ==
    /\ newAddrs # <<>>
    /\ newAddrs' = Tail(newAddrs)
    /\ DialFails \/ DialReaches(Head(newAddrs))
    /\ UNCHANGED <<knownPeers, knownPeerAddrs, curHead, localAddr, listening, tries,
                   queueVars, peerHead, peerHeadQ, peerQ, told, behind, newest,
                   seedAddrs>>

\* The routine listen.
Accept(n) ==
    /\ listening
    /\ Connect(n)
    /\ UNCHANGED <<knownPeers, knownPeerAddrs, newAddrs, curHead, localAddr, listening,
                   tries, queueVars, peerHead, peerHeadQ, peerQ, told, behind, newest,
                   seedAddrs>>

-----------------------------------------------------------------------------
(* The cases of Loop's select *)

InSelect == tries = Looping

\* Mutant: an id that is a peer already is taken again.
MayUpgrade_Twice(id) == Cardinality(knownPeers) < MaxPeers

MayUpgrade(id) == Cardinality(knownPeers) < MaxPeers /\ id \notin knownPeers

\* Mutant: the new peer subscribes in its own goroutine, after the announcement.
Tell_BeforeSubscribing(c) == UNCHANGED peerQ

\* ShouldAnnounceAddr, which the new peer has subscribed to.
Tell(c) ==
    IF Listen THEN peerQ' = [peerQ EXCEPT ![c] = @ \cup {"announce"}] ELSE UNCHANGED peerQ

\* Mutant: a peer starts without a head.
StartingHead_None == 0
StartingHead == curHead

\* addConn.  NewPeer is evaluated before its goroutine starts, so the peer subscribes
\* here; the first connection tells a listener without an address its own.  A connection
\* with an error comes from no caller.
AddConn ==
    LET c == Head(newConns)
        id == conns[c].id
    IN
    /\ InSelect /\ newConns # <<>>
    /\ newConns' = Tail(newConns)
    /\ IF MayUpgrade(id)
       THEN /\ conns' = [conns EXCEPT ![c].place = "peer"]
            /\ peerHead' = [peerHead EXCEPT ![c] = StartingHead]
            /\ knownPeers' = knownPeers \cup {id}
            /\ localAddr' = IF Listen /\ localAddr = NoAddr THEN AddrOf[Self] ELSE localAddr
            /\ listening' = (listening \/ Listen)
            /\ behind' = IF headQ = <<>> THEN behind ELSE behind \cup {c}
            /\ Tell(c)
       ELSE /\ conns' = [conns EXCEPT ![c] = Closed]
            /\ UNCHANGED <<peerHead, knownPeers, localAddr, listening, peerQ, behind>>
    /\ UNCHANGED <<knownPeerAddrs, newAddrs, curHead, tries, queueVars, peerHeadQ, told,
                   newest, seedAddrs>>

TakeAnnouncedAddr ==
    LET e == Head(announcedQ) IN
    /\ InSelect /\ announcedQ # <<>>
    /\ announcedQ' = Tail(announcedQ)
    /\ knownPeerAddrs' =
         [id \in DOMAIN knownPeerAddrs \cup {e.id} |->
            IF id = e.id THEN e.addr ELSE knownPeerAddrs[id]]
    /\ late' = IF e.id \in knownPeers THEN late ELSE late \cup {e.id}
    /\ UNCHANGED <<knownPeers, newConns, newAddrs, curHead, localAddr, listening, tries,
                   closingQ, receivedQ, requestedQ, headQ, peerVars, newest, seedAddrs>>

\* Mutant: the address stays.
Forget_KeepsAddr(id) == knownPeers' = knownPeers \ {id} /\ UNCHANGED knownPeerAddrs

Forget(id) ==
    /\ knownPeers' = knownPeers \ {id}
    /\ knownPeerAddrs' = Restrict(knownPeerAddrs, DOMAIN knownPeerAddrs \ {id})

TakeClosing ==
    /\ InSelect /\ closingQ # <<>>
    /\ closingQ' = Tail(closingQ)
    /\ Forget(Head(closingQ))
    /\ late' = late \ {Head(closingQ)}
    /\ UNCHANGED <<newConns, newAddrs, curHead, localAddr, listening, tries, announcedQ,
                   receivedQ, requestedQ, headQ, peerVars, newest, seedAddrs>>

\* Addresses of nodes that are not peers are tried, in the map's order.
TakeReceived ==
    LET offer == Head(receivedQ)
        new == DOMAIN offer \ (knownPeers \cup {Self})
    IN
    /\ InSelect /\ receivedQ # <<>> /\ Len(newAddrs) < MaxAddrs
    /\ receivedQ' = Tail(receivedQ)
    /\ \E ids \in SetToSeqs(new) : newAddrs' = newAddrs \o [i \in DOMAIN ids |-> offer[ids[i]]]
    /\ UNCHANGED <<knownPeers, knownPeerAddrs, newConns, curHead, localAddr, listening,
                   tries, announcedQ, closingQ, requestedQ, headQ, late, peerVars,
                   newest, seedAddrs>>

\* An event with this target; a peer of another id ignores it.
SendTo(id, what) ==
    peerQ' = [c \in Conn |-> IF c \in Live /\ conns[c].id = id THEN peerQ[c] \cup {what}
                             ELSE peerQ[c]]

TakeRequested ==
    /\ InSelect /\ requestedQ # <<>>
    /\ requestedQ' = Tail(requestedQ)
    /\ SendTo(Head(requestedQ), "sendPeers")
    /\ UNCHANGED <<factoryVars, announcedQ, closingQ, receivedQ, headQ, late, conns,
                   peerHead, peerHeadQ, told, behind, newest>>

TakeHead ==
    /\ InSelect /\ headQ # <<>>
    /\ headQ' = Tail(headQ)
    /\ curHead' = Head(headQ)
    /\ UNCHANGED <<knownPeers, knownPeerAddrs, newConns, newAddrs, localAddr, listening,
                   tries, announcedQ, closingQ, receivedQ, requestedQ, late, peerVars,
                   newest, seedAddrs>>

\* Mutant: the seeds are forgotten after the start.
Seeds_Once == <<>>
Seeds == seedAddrs

\* seekNewPeers on the ticker; seeds that still wait to be tried are not bounded in
\* the code.
SeekNewPeers ==
    /\ InSelect /\ Cardinality(knownPeers) < MaxPeers
    /\ IF knownPeers = {}
       THEN newAddrs = <<>> /\ newAddrs' = newAddrs \o Seeds /\ UNCHANGED peerQ
       ELSE UNCHANGED newAddrs /\ \E id \in knownPeers : SendTo(id, "askPeers")
    /\ UNCHANGED <<knownPeers, knownPeerAddrs, newConns, curHead, localAddr, listening,
                   tries, queueVars, conns, peerHead, peerHeadQ, told, behind, newest,
                   seedAddrs>>

-----------------------------------------------------------------------------
(* The peer routines and the chain, as far as the factory sees them *)

\* A peer takes an event and issues the command.
PeerActs(c, what) ==
    /\ c \in Live /\ what \in peerQ[c]
    /\ peerQ' = [peerQ EXCEPT ![c] = @ \ {what}]
    /\ told' = IF what = "announce" THEN told \cup {c} ELSE told
    /\ UNCHANGED <<factoryVars, queueVars, conns, peerHead, peerHeadQ, behind, newest>>

PeerTakesHead(c) ==
    /\ c \in Live /\ peerHeadQ[c] # <<>>
    /\ peerHead' = [peerHead EXCEPT ![c] = Head(peerHeadQ[c])]
    /\ peerHeadQ' = [peerHeadQ EXCEPT ![c] = Tail(@)]
    /\ UNCHANGED <<factoryVars, queueVars, conns, peerQ, told, behind, newest>>

\* The other end's commands, as the handlers publish them.
PeerReports(c) ==
    LET id == conns[c].id IN
    /\ c \in Live
    /\ Len(announcedQ) + Len(requestedQ) + Len(receivedQ) < MaxReports
    /\ \/ /\ announcedQ' = Append(announcedQ, [id |-> id, addr |-> AddrOf[id]])
          /\ UNCHANGED <<receivedQ, requestedQ>>
       \/ /\ requestedQ' = Append(requestedQ, id)
          /\ UNCHANGED <<announcedQ, receivedQ>>
       \/ /\ \E offer \in Offers : receivedQ' = Append(receivedQ, offer)
          /\ UNCHANGED <<announcedQ, requestedQ>>
    /\ UNCHANGED <<factoryVars, closingQ, headQ, late, peerVars, newest>>

\* Peer.Loop returns or panics: it closes its subscriptions and says so.
PeerEnds(c) ==
    /\ c \in Live
    /\ conns' = [conns EXCEPT ![c] = Closed]
    /\ peerQ' = [peerQ EXCEPT ![c] = {}]
    /\ peerHeadQ' = [peerHeadQ EXCEPT ![c] = <<>>]
    /\ peerHead' = [peerHead EXCEPT ![c] = 0]
    /\ told' = told \ {c} /\ behind' = behind \ {c}
    /\ closingQ' = Append(closingQ, conns[c].id)
    /\ UNCHANGED <<factoryVars, announcedQ, receivedQ, requestedQ, headQ, late, newest>>

\* The chain commits to a new head.
ValidateHead ==
    /\ newest < MaxHead
    /\ newest' = newest + 1
    /\ headQ' = Append(headQ, newest')
    /\ behind' = {}
    /\ peerHeadQ' = [c \in Conn |-> IF c \in Live THEN Append(peerHeadQ[c], newest')
                                    ELSE peerHeadQ[c]]
    /\ UNCHANGED <<factoryVars, announcedQ, closingQ, receivedQ, requestedQ, late,
                   conns, peerHead, peerQ, told>>

-----------------------------------------------------------------------------
LoopStep ==
    \/ AddConn \/ TakeAnnouncedAddr \/ TakeClosing \/ TakeReceived
    \/ TakeRequested \/ TakeHead \/ SeekNewPeers
PeerStep(c) == PeerTakesHead(c) \/ \E what \in peerQ[c] : PeerActs(c, what)

Next ==
    \/ StartAlone \/ ReachSeed \/ MissSeeds
    \/ LoopStep \/ TryNewAddr
    \/ \E n \in Node : Accept(n)
    \/ \E c \in Conn : PeerStep(c) \/ PeerReports(c) \/ PeerEnds(c)
    \/ ValidateHead

Spec == Init /\ [][Next]_vars

\* Go's select chooses among the ready cases at random, so each is taken in the end;
\* the ticker is one of them.
FairSpec ==
    /\ Spec
    /\ SF_vars(TakeClosing) /\ SF_vars(SeekNewPeers)
    /\ WF_vars(TryNewAddr)

-----------------------------------------------------------------------------
(* Properties *)

TypeOK ==
    /\ knownPeers \subseteq Node
    /\ DOMAIN knownPeerAddrs \subseteq Node /\ Range(knownPeerAddrs) \subseteq Addr
    /\ newConns \in Seq(Conn) /\ newAddrs \in Seq(Addr)
    /\ curHead \in 0..newest /\ newest \in 0..MaxHead
    /\ \E start \in Starts : seedAddrs = start.seeds
    /\ localAddr \in Addr \cup {NoAddr} /\ listening \in BOOLEAN
    /\ listening => localAddr # NoAddr
    /\ tries \in 0..Looping
    /\ announcedQ \in Seq([id : Node, addr : Addr])
    /\ {closingQ, requestedQ} \subseteq Seq(Node) /\ late \subseteq Node
    /\ receivedQ \in Seq(Offers) /\ headQ \in Seq(1..MaxHead)
    /\ conns \in Seq([id : Node, place : {"queued", "peer"}] \cup {Closed})
    /\ Len(conns) <= MaxConns
    /\ peerHead \in [Conn -> 0..MaxHead]
    /\ peerHeadQ \in [Conn -> Seq(1..MaxHead)]
    /\ peerQ \in [Conn -> SUBSET {"announce", "sendPeers", "askPeers"}]
    /\ told \subseteq Conn /\ behind \subseteq Conn

\* However connections, refusals and closings interleave, no node is a peer twice,
\* there are at most MaxPeers, and the factory knows exactly the peers that run and
\* those whose closing it has still to take.
KnownPeersExact ==
    LET liveIds == {conns[c].id : c \in Live} IN
    /\ \A c, d \in Live : conns[c].id = conns[d].id => c = d
    /\ knownPeers = liveIds \cup ToSet(closingQ)
    /\ liveIds \cap ToSet(closingQ) = {} /\ IsInjective(closingQ)
    /\ Cardinality(Live) <= MaxPeers

\* "Not all knownPeers appear here" (peerfactory.go:43), but only they do, except for
\* those whose address was taken after their closing: the two travel on different
\* topics.  Such an entry is given out until the same id closes again.
AddrsOfPeers == DOMAIN knownPeerAddrs \subseteq knownPeers \cup late

\* A peer is made in the midst of events and misses none: the newest head is, or is on
\* its way to be, every peer's (but for a peer made while the factory had still to take
\* a head: it starts below it and stays so until the next), and a peer of a node that
\* listens has been told its address or is about to be.
NewPeersMissNothing ==
    \A c \in Live :
        /\ c \in behind
             \/ newest = IF peerHeadQ[c] = <<>> THEN peerHead[c] ELSE Last(peerHeadQ[c])
        /\ Listen => c \in told \/ "announce" \in peerQ[c]

\* A node that has lost all its peers dials a seed again.
SeedsRetried ==
    InSelect /\ knownPeers = {} /\ seedAddrs # <<>>
        ~> knownPeers # {} \/ ToSet(newAddrs) \cap ToSet(seedAddrs) # {}

=============================================================================
