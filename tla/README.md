# basiccoin: a TLA+ development

TLA+ modules, TLC configurations and TLAPS proofs for the basiccoin node
(`src/`, Go): the verified inventory, the ledger state and the single routine that
adopts chains, through forks, reorganisations, invalid heads, crashes and restarts; the
protocols of two connected peers; the table of peers; the topics that connect the
routines; and mining under the rules on times and targets. Every invariant of a passing
run is stated by a theorem, proved for every instance; section 5 says under which
hypotheses, and what is model-checked only.

Run inside this directory, each `.cfg` with the module that section 3 names:

    tlc -config MCChainFork.cfg MCChain
    tlc -config MCPeer.cfg MCPeer
    tlapm EntitiesProofs.tla ; tlapm ChainProofs.tla ; tlapm ValidityProofs.tla
    tlapm SyncProofs.tla ; tlapm PeerProofs.tla ; tlapm TopicProofs.tla
    tlapm PeerFactoryProofs.tla ; tlapm MiningProofs.tla

## 1. The system

A node is a set of goroutines that talk over typed topics (`pkg/topic`,
`internal/bus`) and share one in-memory inventory.

| part | state | operations | talks to |
|---|---|---|---|
| inventory `internal/inv` | `txs`, `merkles`, `blocks` (with height and total work), optional save dir | Store*, Verify* (through `pkg/core/verify.go`), ancestor walks | written by chain only, read by everyone |
| chain `internal/chain` | `state` (head, mempool, utxos, spend index, balance index, tx to block), `saveDir/head` | candidate head, candidate tx, queries, mining target | events in: CandidateHead, CandidateTx, queries; events out: ValidatedHead, ValidatedTx, MinerTarget |
| peer `internal/peer` | `curHead`, a connection | sync chain, push tx, address and ping commands | CandidateHead, CandidateTx; ValidatedHead, ValidatedTx |
| peer factory `internal/peerfactory` | peers, known addresses, `curHead` | accept, dial, seek, close | PeerClosing, PeerAnnouncedAddr, ShouldAnnounceAddr |
| miner `internal/miner` | current template | update template, hash a batch of nonces, publish | MinerTarget in, CandidateHead out |
| connection `pkg/prot` | TCP stream, sticky error | framed reads and writes with timeouts, handshake | peer |
| topic, sync queue `pkg/topic`, `pkg/syncqueue` | subscriber queues | Pub, Subscribe, Close, polling loop | all |
| difficulty `pkg/core/difficulty.go` | none | next target from one period's times | verifier, miner |
| REST server, wallet, CLI `internal/rest`, `cmd` | none of consequence | queries, wallet txs | bus |

Interaction in one sentence: peers and miners publish *candidate* heads and txs;
the chain routine alone verifies, stores and adopts them, and publishes
*validated* ones, on which peers announce, miners retarget and clients read.

What is hard here:

- **Reorganisation.** A new head is reached by rewinding a copy of the state,
  tx by tx, to a common ancestor and advancing it tx by tx. Four indexes are
  maintained incrementally on both paths (`state.go:80-213`).
- **Partial failure.** A candidate head may fail after half of its entities were
  stored, or half of its branch was advanced over.
- **Crash and restart.** Inventory and head are on disk, the mempool is not; the
  head file is written in place.
- **Order.** Heads and txs arrive from several sources in any order, repeatedly,
  with or without what they depend on.
- **Concurrency outside the chain.** Two peers act on each other's commands over
  one stream, and either may be refused, time out or die; topics are delivered
  independently, and a subscription may be closed in the middle of a send; the miner
  works on an old template.
- **Clocks.** Block times come from other nodes' clocks, may go back, and decide
  the next target.

What makes each part correct:

- inventory: closed under reference; heights are parents' heights plus one;
- chain: its ledger is the one its head's chain determines, without double
  spends; it moves only to chains with strictly more work, to every correct one
  of those, and to no incorrect one; its indexes are exact; it never panics;
- mining target: can be mined as a whole on the current head;
- peer: both ends agree on the position in the protocol; what one publishes the other
  said; nobody waits for what is not owed; what is handed to the chain is ordered so
  that the chain can store it;
- peer factory: no node is a peer twice, the tables mention only peers that are
  running, and no event is missed by a new peer;
- topic: every event reaches every open subscription once, and Close returns;
- difficulty: the next target is defined, bounded, and one that the rules accept;
- miner: what it makes is what its node would take.

## 2. Modules

| module | models | notes |
|---|---|---|
| `Entities` | ids and contents of txs, merkle nodes and blocks; utxos created and consumed; merkle walk; ancestry | contents are CONSTANT functions of ids, as an id is a hash |
| `Inventory` | `internal/inv`, `pkg/core/verify.go` | `txs`, `merkles` as sets of ids; `blocks` as a partial function to `[height, totalWork]` |
| `State` | `internal/chain/state.go`, `target.go` | a State value is a record with the Go struct's fields |
| `Chain` | `internal/chain/chain.go` | the routine: one action per event, entity stored, tx rewound, tx advanced |
| `Ledger` | abstract specification | what the chain routine promises, with no mempool, arrival order or rewinding |
| `ChainProperties` | type invariant and properties of `Chain`; the refinement mapping to `Ledger` | |
| `EntitiesProofs` | induction over a finite set, sums over finite sets and sequences, sums that wrap, ancestry | TLAPS |
| `ChainInvariant` | the inductive invariants `IInv` and, on top of it, `HeadInv`, `VerifiedInv` and `TargetInv` | used by the proofs |
| `ChainProofs` | lemmas on the common ancestor, rewinding and advancing one tx; `IInv` is inductive; the theorems on the ledger; the refinement | TLAPS |
| `ValidityProofs` | the other three are inductive; the theorems on correct chains, restarts, panics, supply and mining targets | TLAPS |
| `Sync` | `internal/peer/sync.go`; of `peer.go`, the sync-chain command; the two nodes' chain routines behind it | two ends, two FIFO streams |
| `SyncProperties` | type invariant and properties of `Sync` | |
| `SyncProofs` | the joint places of both ends; the theorems on their agreement; the order in which a sync gathers and hands over | TLAPS |
| `Delivery` | abstract specification: what a topic promises | |
| `Topic`, `TopicProofs` | `pkg/topic`, `pkg/syncqueue` | lock by lock and channel operation by channel operation |
| `PeerFactory`, `PeerFactoryProofs` | `internal/peerfactory`, with peers as it sees them | the table of peers and its loop |
| `Peer` | `peer.go`, `handlers.go`, and what they use of `pkg/prot` | both ends of a connection |
| `PeerInvariant`, `PeerProofs` | the joint places of both ends, what a lone end has to read, what the streams carry; the theorems | TLAPS |
| `Difficulty` | `difficulty.go`, targets of `hasht.go`, header rules of `verify.go` | operators on a chain of headers |
| `Merkle` | `MerkleFromTxIds`, `GetMerkleTxIds` | operators; a node stands for its hash |
| `Mining`, `MiningProofs` | `internal/miner`, and the chain as it sees it | a state machine over `Difficulty` |
| `MCNetwork` | the txs, merkle trees and blocks of all instances | |
| `MCChain`, `MCSync`, `MCTopic`, `MCPeerFactory`, `MCPeer`, `MCMining` | small instances for TLC; `MCMining` also evaluates `TreesSound` | |

`Chain` extends `State`, `Inventory` and `Entities`, one upon the other; `Sync`
extends `Entities` only, as it has two inventories. Its `StoreNext` and `Adopt` stand
for what `Chain` models in detail: storing in order, giving up at the first entity
whose references are missing or, a block, whose header is wrong, moving to a head with
more work.

### Correspondence of `Chain` to the code

`handleCandidateHead` is one call in Go. It is several actions here, at the grain
at which it can fail, panic or be cut off by a crash, with `pc` for the place:

| `pc` | Go | actions |
|---|---|---|
| `select` | the `select` of `Loop` | `ReceiveHead`, `HandleCandidateTx` |
| `load` | the candidate that `NewChain` queued for itself is pending | `ReceiveSavedHead`, `HandleCandidateTx` |
| `store` | the three loops that verify and store; then the work comparison | `StoreNextTx`, `StoreNextMerkle`, `StoreNextBlock`, `CompareWork` |
| `rewind` | `newState.RewindUntil(lcaId)` | `RewindNextTx`, `RewindBlock`, `RewindDone` |
| `advance` | the loop of `newState.Advance` | `AdvanceNextTx`, `AdvanceBlock`, `Commit` |
| `panicked` | a panic in `Rewind` | none |

`st` is `Chain.state`, `ns` is `newState`. Every early return with an error is
`Return`: the copy is dropped and what was stored stays. `Commit` is the whole end
of the handler: new state, head file, announcements, new mining target.
`NewChain`'s event for the saved head carries `autoAdd = TRUE`
(`AddMempoolTx` of what the mempool lacks), all others `FALSE`.

Data abstractions, and what they keep:

- A Go map of sets is a set of pairs; "key absent" is "no pair". `mempoolRates`
  holds the rate of exactly the mempool's txs and is computed where it is read.
- Signatures, and a header's proof of work, time and target rules, are one
  Boolean each in the content of the entity.
- Expected work of a target is a natural number per block. `uint64` sums wrap at
  the constant `UintMod`.
- A block's content is a function of its id, though `Block.Hash` leaves `minedTime` out: of
  two blocks that differ in it alone a node keeps the one that it stores first.
- Output indices count from 1.
- A tx's inputs are a sequence; `Consumed` is their set, and `DuplicateInput` keeps
  the case in which the set loses something.
- `LeavesAssumption` states what the breadth-first walk of a merkle tree returns. The
  walk is a recursion that ends because a node cannot contain its own hash, which
  nothing in the model's ids says, so it is a named assumption that TLC evaluates on
  every instance.

### Correspondence of `Sync` to the code

Each end has a `pc`, the locals of its handler (`loc`) and what it still has to read
(`inbox`). A step is one read together with the decisions and writes up to the next
read, except in the request loop, where each id popped is a step, as the chain
routine may store that id in between. A place in `Expects` is a read in the
source; `Fits` is what makes it succeed.

| `pc` of the sender | Go | `pc` of the receiver | Go |
|---|---|---|---|
| `hello`, `offered`, `cancelled` | `handleSyncChain`: work and head; the answer | same | |
| `sendRole` | `"sync:recv"` expected | `recvRole` | `"sync:send"` expected |
| `sendWalk` | does the peer have this block? | `recvWalk` | the next ancestor's id |
| `verdict` | was the work verified? | `recvBlocks` | the needed blocks, then `quickVerifyChain` |
| `serve` | requested ids, until zero | `request`, `recvEntity` | pop an id; read the entity |
| `complete` | `"complete"` | | |

`cmd` follows `issueCommand`: an end's command is `issued`; if both issue one, the
initiator's is `met` and the acceptor's is served first, after which the acceptor
`owes` the initiator its acknowledgement. A handler that returns an error drops the
command that was to be served second (`Fail`).

### Correspondence of `Peer` to the code

`Sync` assumes that a handler starts with a clean stream and shows that it leaves one;
`Peer` is the other half: it has every command, with sync-chain cut down to one message
each way, and shows that handlers are entered in step. `pc` is the read that an end
waits in: `ack` in `issueCommand`; `ownAck` the acceptor's, before its own handler, with
the other's command `owed`; `ackAfter` the initiator's, after it has served the other's;
and one for each read of a handler. A step is a read with all that the code then does
before the next one.

- Events come to `Loop` when they come: an end may serve any number of commands before it
  takes one, and each kind comes up to `Events` times.
- A message is a string with a length before it, or raw data of a fixed size. Reading
  one as another yields an error or rubbish, and what follows is `Garbled`: the middle of a
  message (`Noise`), or nothing, as a read that fails may use up what was there, so that the
  ends may be in step again. A timeout between two reads of one string (`LoseByte`) does
  the same.
- A string that begins with `cmd:` is acknowledged before it is looked up (`Reply`). Nobody
  writes an unknown command, but a misread string may look like one (`MisreadCommands`). It is
  the last of what is misread, a bound: `Noise` has no length, and would be acknowledged
  without end.
- `handleReadPeerAddrs` counts to a number that it does not check and does not look at the
  connection's error meanwhile. Out of step with the stream the number may be a piece of
  another message (`Counted`), and the end is in the handler for years (`Spin`).
- An error is popped where the code pops it (`Abandon`), and the loop goes on. An end panics
  in two places: at the loop's own read, on an error that is not a timeout (`Broken`), and in
  `ReadTx`, whose `make` takes an unchecked length (`Sized`).
- An end whose loop returns or panics does not close the connection. The other end is told
  when the process ends (`Hangup`) or when the descriptor, which nothing refers to any more,
  is collected and its finalizer closes it (`Collect`).
- `refuses` is an end whose factory has closed the connection: it writes
  `CloseIfPossible`'s commands and reads nothing.
- `said` and `heard` are histories: what the handlers were given to write, and what
  they published.

### Correspondence of `PeerFactory` to the code

Each case of `Loop`'s `select` is an action, `addConn` and `seekNewPeers` included; the
routines `tryNewAddrs` and `listen` are `TryNewAddr` and `Accept`; the start is
`ReachSeed` and `MissSeeds`, or `StartAlone` for a node that has no seeds. Dialling and the handshake have one of two outcomes
(`Connect`). A subscription of the factory is a queue of its own (`announcedQ`,
`closingQ`, ...), which is what `Delivery` leaves of a topic: no order across topics. A
peer's subscriptions are made in `NewPeer`, which Go evaluates in the factory's
goroutine, so `AddConn` makes them. Its first test, of a connection that has an error, is
left out, as both routines that queue connections drop those. Of a peer remain its head,
what was sent to it, what it reports, and its end. `late` and `behind` are histories that
name the two windows described in section 3.

### Correspondence of `Topic` to the code

`Pub` takes a shared lock and pushes to one queue after the other (`StartPub`, `Push`),
several at once; `Sub` and `gc` need the lock alone. The loop is `select` (where it looks
at the close channel), `drain`, `send` (blocked on the unbuffered channel), `told`,
`returned`. `Close` is its goroutine (`closer`), its own loop (`Discard`), and its end.
Sleeps are left out: they only delay.

### Correspondence of `Mining` to the code

A chain is the sequence of its headers, so forks are left to `Chain` and a block that is
not on the head is dropped. Hashes, targets and work are numbers below `HashMax`; the
zero block is position 0 and has no header. `RemoteBlock` is a block of another node: any
target below `HashMax` and any time up to an hour from now are tried, and those that
`VerifyBlock` takes on the head are adopted when they have more work.
`template.time` is set where `updateTemplate` sets it. That a nonce beats the target is
a free choice. `NextTarget`'s panic ends the routine and with it the node.
`IsLastInPeriod` has Go's precedence.

## 3. Properties and runs

`MCNetwork` fixes ten blocks (zero, a first block `g`, the branches `a2 a3`,
`b2 b3 b4`, the invalid `b2 d3`, `i2` with a tx that spends another of the same
block, and `e3` with three txs), twelve txs and two owners. `t1` and `t2`
spend the same coinbase, `t3` and `t5` spend outputs of `t1`, `t4` names one utxo
twice. The works make `a3` beat `b3` and `b4` beat `a3`, so a run can reorganise
twice; `d3` has the most work after `b2` but confirms a double spend.

The cfg of a run is its name in capitals after `MC`, but for `sync_two_nodes`
(`MCSync.cfg`), `sync_deep_tree` (`MCSyncDeep.cfg`) and `peer_commands` (`MCPeer.cfg`); the
module is the one that the cfg's name begins with.

| run | question | result |
|---|---|---|
| `chain_fork` | all of it without crashes: seven heads, three free txs, in every order and any number of times | holds |
| `chain_restart` | save dir, two crashes at any step, the head file's write included | holds |
| `chain_restart_rejects` | is advancing given up only for wrong chains, after a restart too? | violated |
| `chain_intra_block` | can every adopted block be rewound? | violated |
| `chain_duplicate_input` | can the published target be mined? | violated |
| `sync_two_nodes` | a new node and an old one, two branches, or equal heads, while a third peer delivers two events and a node mines one block | holds |
| `sync_deep_tree` | can the chain store what a sync hands over, when a newer block has a deeper merkle tree? | violated |
| `topic` | two publishers, two subscriptions that come and go, and gc | holds |
| `peer_factory` | three connections of two nodes, a seed or none, room for two peers, a new head | holds |
| `peer_commands` | both ends issue commands of every kind, refuse, time out, misread, or die | holds |
| `mining` | eight headers, two adjustments, a miner, every target and time that `VerifyBlock` takes | holds |
| `mining_panic` | does VerifyBlock keep NextTarget from panicking? | violated |

Properties of the passing chain runs (`ChainProperties`):

- `IndexesExact`, `UtxosExact`, `NoDoubleSpend`, `ConfirmedOnChain`,
  `MempoolIsUnincluded`, `SupplyConserved`: the ledger and its indexes are what the
  head's chain determines, after any reorganisation.
- `HeadChainValid`, `RejectOnlyInvalid`: the incremental checks accept and reject
  exactly the chains that the declarative `ValidChain` calls correct. The
  definition shares nothing with the state machine: it quantifies over places in
  the chain.
- `HeadGainsWork`, `ValidHeadAdopted`: only heavier chains, and every correct
  heavier one (liveness).
- `TargetMinable`, `NoPanic`, `RestartRestoresHead`, `ImplementsLedger`.
- `IInv`: the invariant of the proofs, in the copy half way through a block too.

Properties of `sync_two_nodes` (`SyncProperties`):

- `NoMisread`: at every read the next message is of the kind, and for blocks and
  entities the hash, that the code expects; every requested entity is known to the
  sender; the receiver's verification never fails.
- `StreamsClean`: when both handlers have returned, nothing is left in a stream.
- `HandoverStorable`: the published lists can be stored in order, given what the
  inventory has grown to.
- `Converge`: the two heads come to have equal work (liveness).

Properties of `topic`:

- `ImplementsDelivery`: the topic refines the safety of `Delivery`: to each open
  subscription only what was published while it was open, once, in its publisher's
  order. Nothing holds across two publishers, and two subscriptions may see two
  publishers' messages in different orders.
- `NothingWithheld`: it refines the fairness of `Delivery` too: what is due to a
  subscription that stays open, and whose owner reads, is delivered (liveness).
- `NoSendOnClosedChannel`; `CloseReturns` (liveness), which holds because publication
  pauses (`MaxSent`): the loop sees a close only when its queue is empty. What it sends
  meanwhile is discarded.

Properties of `peer_factory`:

- `KnownPeersExact`: no node is a peer twice, and `knownPeers` is those that run and those
  whose closing is still to be taken, through every race of a connection, a refusal
  and a closing.
- `AddrsOfPeers`: an address belongs to a peer, except (`late`) one taken after its peer's
  closing: the two travel on different topics, and such an entry is given out to others
  until the same id closes again.
- `NewPeersMissNothing`: a new peer is told of every head and of our address, except
  (`behind`) a peer that is made when the factory has still to take a head: it starts from
  the one before and stays there until the next head.
- `SeedsRetried`: a node without peers tries its seeds again (liveness).

Properties of `peer_commands`:

- `HeardAsSaid`: what one end publishes is what the other issued as that command, and when
  both are idle nothing was lost but transactions that were known.
- `NoVainWait`: an end that waits has something to read or the other has: neither waits
  for what is not owed.
- `LonePeerEnds` (liveness): an end whose other end has gone or refuses ends too and frees
  its place in the table, though it may go on to issue commands or read nonsense.
- `HandlersReturn` (liveness): no handler keeps an end from its loop for ever.

Both except an end that spins in `handleReadPeerAddrs`, and that only after a timeout
(`SpinsAfterStall`), for that is what the code does: an acknowledgement that came too late
is read by the loop, the next command by the handler as a count, and the peer neither serves
the other end nor notices that it is gone. On a connection that keeps its timeouts no end
spins; that is why both ask for `stalled`.

`HeardAsSaid` and `NoVainWait` are stated for connections on which nothing timed out. They
fail after a timeout: the streams are then out of step, and a string such as `cmd:new-tx`
is published as an address.

Properties of `mining`:

- `TargetsBounded`: the target is constant in a period, within 4^k of the original after k
  periods, and never above the net's maximum. It is no stronger, as `VerifyBlock` takes
  any target in that range and not only the adjusted one.
- `MedianNeverFalls`: the median that times must exceed never falls while times do.
- `OwnBlocksVerify`: of the checks of `VerifyBlock` only the median can refuse a block of a
  template on the head. It does refuse: the time may be at or below the median, and then
  every block made of the template is refused until a new target comes (`updateTemplate`
  sets the time once). Templates of an earlier head are not in the statement.
- `TreesSound`, an assumption of `MCMining` that TLC evaluates once: the merkle trees of 1
  to 20 transactions can be stored by the inventory, are read back in order, and keep the
  bound of `MerkleTreeMaxSize`.

Bounds: the chain instance is small in entities, not in behaviour. Candidate heads and
txs arrive without limit; the state space is finite as the inventory only grows
(about 9 200 states) and, with crashes, `MaxRestarts = 2` (about 38 000), which
allows a crash during the replay of an earlier crash. Two blocks of rewinding,
three of advancing and a block with two txs below a merkle node are enough for
every branch of the handler; deeper chains repeat them, and the theorems below
do not depend on the instance.

Fairness: `FairSpec` adds weak fairness of `HandlerStep`, the steps of a handler
that was entered. `Loop` blocks only in its `select`; inside a handler there is no
lock and no channel receive. Nothing is assumed of arrivals.
`ValidHeadAdopted` is therefore about a head that passed the work comparison.
In `Sync`, each end and each chain routine is a goroutine with weak fairness; a
delivery from elsewhere is not fair. Reads do not time out there; they do in `Peer`.
In `Topic`, the loop, a running `Pub` and `Close` are fair, and an owner that reads comes
back to its select. In `PeerFactory`, Go's select chooses at random among ready cases, so
a closing and the ticker are strongly fair, and the dialling routine is weakly fair;
that a dial succeeds is not assumed. In `Peer`, an end that can run does, a read
without an answer times out as its deadline says, a refusing node closes after its
second, and the garbage collector, which Go runs every two minutes at the latest, closes the
connection of an end that is gone; that events come or a connection dies is not assumed.
`Mining` has no liveness.

Bounds of `sync_two_nodes`: the start is one of three pairs of nodes, and each of
three events from elsewhere comes at most once, at any moment: a complete short
chain, a block whose parent may be missing (so that storing fails), and a mined
block that reverses which node is ahead. Within this the nodes hold several syncs
in a row (about 204 000 states). TLC reaches, among others: a sync in which the
receiver learned of the head after the comparison, an id that became known before
it was requested or while it was on its way, a cancelled sync with unequal work,
and two simultaneous commands.

Bounds of the others. `topic`: three messages in all, enough for two that wait while a
third is published between a subscription's last pop and its close (about 176 000
states). `peer_factory`: three connections, so that a node comes twice while another
holds a place; one head, one report in a queue and one address being tried at a time
(about 808 000), with one seed, or with none and a configured listen address.
`peer_commands`: `Events` is a set of bounds, of which a
behaviour has one: any command at the initiator with any command and a tx at the acceptor,
so that all pairs cross at any time, before and after the initiator's first sync, served
or not; and two at each end (about 344 000). Every read is misread, the count and the
lengths among them. `mining`: a
period of four blocks and eight headers, so the first period, which
has one block less, and a full one; every target up to `MaxTarget = 20`, which four times
the original 16 exceeds; clocks of three ticks and one ahead (about 371 000).

Deadlock: checked for the passing chain and sync runs. `chain_intra_block` and
`mining_panic` really stop; in the other runs the bounded messages, connections and
clocks run out, or both ends of a connection end.

## 4. What the runs found

1. **After a restart, correct heavier chains are rejected** (`chain_restart_rejects`).
   The mempool is rebuilt only for txs of the replayed chain. A tx that was
   in the mempool or on an abandoned branch is still in the inventory, so
   `handleCandidateHead` does not add it to the mempool (`chain.go:139`), and
   `Advance` refuses it as it is not in the mempool (`state.go:230`). The node
   refuses any chain that includes it.
2. **A block with dependent txs cannot be rewound** (`chain_intra_block`). `Rewind`
   goes through the txs forward; the output that a later tx of the same block
   consumed is missing and the node panics.
3. **A tx that names a utxo twice is offered to miners** (`chain_duplicate_input`).
   It passes `VerifyTx` and `VerifyTxIncludable`; `Advance` then refuses the block.
4. **A chain can make the nodes that mine on it panic** (`mining_panic`). The check in
   `verify.go:186` that the last block of a period is younger than its first never runs:
   `newBlockHeight+1%period == 0` adds one to the height and compares that with zero.
   When the first block of a period is dated ahead of the others, which an hour's
   tolerance allows, the last may be above the median of five and not after the first.
   `NextTarget` then panics, in `Commit`, after the head was saved, so that a node with a
   save dir and miners panics again when it restarts.
5. **A chain with a large block above smaller ones cannot be synced**
   (`sync_deep_tree`). Entities are requested breadth first over all needed blocks
   and handed over reversed, which orders txs by depth in their merkle tree before
   block. A tx at depth two of a newer block comes before a tx at depth one of an
   older block that it spends; the chain gives up there, and does so on every retry.

In the passing runs no candidate block contains dependent txs and no free tx has
duplicate inputs, which keeps 2 and 3 out of them; `chain_restart` does not check
`RejectOnlyInvalid`, which is 1. In `sync_two_nodes` all trees have the same depth,
which keeps 5 out. `mining` allows the panic and checks what else must hold.

## 5. What is proved

Each theorem holds for every value of the constants that satisfies the named assumptions
of the modules, which TLC evaluates on every instance. They type the contents of
entities, the events and the parameters; the ones that say more are named below.

### The chain

For every set of txs, merkles and blocks that satisfies `EntitiesAssumption`,
`SizesAssumption` and `LeavesAssumption` (typed contents, finite `Block` and `Pkh`, a
coinbase that fits into a block and signed txs no smaller than the smallest, merkle walks
as described) and `ChainAssumption` (typed candidate events), any number of heads, txs and
restarts:

| theorem | says |
|---|---|
| `ChainProofs!InvariantHolds` | `Spec => []IInv` |
| `TypeCorrect` | `Spec => []TypeOK` |
| `IndexesAreExact`, `UtxosAreExact`, `NothingSpentTwice`, `ConfirmationsAreOfChain` | the ledger properties above |
| `NoTxLost` | `Spec => [](MaxRestarts = 0 => MempoolIsUnincluded)` |
| `HeadAlwaysGainsWork` | `Spec => HeadGainsWork` |
| `LedgerImplemented` | `Spec => ImplementsLedger`: the refinement of `Ledger` |
| `ValidityProofs!OnlyWrongChainsRejected` | `Spec => (MaxRestarts = 0 => RejectOnlyInvalid)` |
| `HeadIsValid` | `Spec => []HeadChainValid` |
| `RestartsRestoreHead` | `Spec => []RestartRestoresHead` |
| `OnlyIntraBlockPanics` | `NoPanic`, as long as no stored block `SpendsWithin` |
| `SupplyIsConserved` | `SupplyConserved`, as long as `ValuesFit` |
| `TargetIsMinable` | `TargetMinable`, as long as no stored tx names a utxo twice |

The hypotheses of `OnlyWrongChainsRejected`, `OnlyIntraBlockPanics` and `TargetIsMinable`
are findings 1, 2 and 3: without them the code does not do it. `ValuesFit` says that
neither a stored tx's outputs nor the rewards so far add up to 2^64, which the code takes
for granted: the sums that it compares wrap.

**The invariant.** The properties speak of `st` at block boundaries and say nothing
of `ns`, so none of them is inductive. `IInv` adds:

- `InventoryOK`: what a stored entity refers to is stored, and heights are exact;
- `LedgerOK(s)`, of `st` *and* of `ns`: indexes and utxos are exact and the included
  txs are consistent, at every tx, not only at block boundaries;
- `FromInventory(s)`: the ledger's txs are known, so a tx new to the inventory is
  in no chain; without restarts, no known tx is missing;
- `RecordedAt(s, place)`: the txs recorded as included are exactly those at given
  positions of given blocks: the whole chain for `st`; the whole chain but the
  first `k - 1` txs of the head during a rewind; the whole chain and the first
  `k - 1` txs of the next block during an advance;
- where the copy is: the common ancestor is an ancestor of both, and the copy's
  head is on the way.

**The argument.** Rewinding one tx keeps `LedgerOK` because the check whose failure
panics, that its outputs are unspent, is what makes the rest consistent
(`RewindUtxos`); so safety does not need `NoPanic`. Advancing keeps it because
its inputs are unspent and ids are fresh (`AdvanceUtxos`). `RecordedAt` needs that
the next block is not an ancestor of the current one, which heights give
(`NotOwnAncestor`). Ancestry is a least closed set, so its lemmas (`AncestorsStep`,
`ChildExists`, `ZeroIsAncestor`, `LCAFacts`) need no induction, only a least
element of a set of naturals.

**Correct chains.** `HeadInv` is inductive on top of `IInv`. `ChainsOK` follows the copy: the
chain that is left while rewinding is correct because a prefix of a correct chain is;
while advancing, `OrderedIn` says of the places passed so far what `ValidChain` says of all,
and when the last place is passed the two are the same (`ValidOfOrdered`). `CanAdvanceTx`
gives the next place, as an unspent output is one that an earlier place created
(`RecordedAt` and `LedgerOK`). The other direction, `OnlyWrongChainsRejected`, takes a place
of a chain that is correct and shows each check of `CanAdvanceTx` true in turn; that the tx
is in the mempool is where `MaxRestarts = 0` is needed. `SavedOK` says that the head file
names a correct chain whose blocks are stored, at every step of a commit and of a crash.

**Supply.** `VerifiedInv` says of each stored tx and block what `VerifyTx` and `VerifyBlock`
checked, the equation between a block's inputs, outputs and reward *modulo* 2^64 among it.
That a block pays out exactly what it consumes and the reward is more (`BlockArithmetic`): the
two differ by a multiple of 2^64. It pays out less than what it consumes and 2^64, as each tx
but the coinbase creates less than it consumes, within `ValuesFit`, and the coinbase less than
2^64; and it does not consume more than what it pays out and all coins there are, as a correct
chain consumes only what it created (`ValidConsumes`). So the multiple is zero, and the supply
of the head is its rewards by induction over its height (`SupplyOfChain`). `BalancesAddUp`
splits the sum by owner.

**The mining target.** `CreateMiningTarget` fills a block greedily and checks one tx at a
time. `FillBlockFacts` says of the fold, for every order of the mempool, that what it returns
has no tx twice, no utxo consumed by two, and fits, in bytes and, as a signed tx has a
smallest size, in number. `TargetInv` then is that the target told last is one of the
current head's, which every handler that moves the head ends with.

**Sums.** The community modules define a sum as a recursion that picks elements in some
order. `EntitiesProofs` shows that a fold over a finite set exists, that every such function
agrees with it, and that the order does not matter (`SumStep`), by least counterexamples:
`SetInduction` takes the *set* of the good subsets where a library theorem would take a
predicate. From there come the sum of a union, of an image and of a partition, and that a sum
of `uint64` values is the exact one modulo 2^64 (`Uint64SumIs`).

### The sync

For any two nodes whose inventories are complete and verified, any chains of any length, and
any events from elsewhere:

| theorem | says |
|---|---|
| `SyncProofs!Invariance` | `Spec => []IInv` |
| `TypeCorrect` | `Spec => []TypeOK` |
| `AllReadsFit` | `Spec => []NoMisread` |
| `StreamsStayClean` | `Spec => []StreamsClean` |
| `HandoverIsStorable` | `Spec /\ BalancedTrees /\ [](\A p \in Peer : Orderly(curHead[p])) => HandoverStorable` |

**The invariant.** None of the properties is inductive, as each looks at one end. `Together`
lists the nine stages that the two ends can be in jointly, each with what is in both streams:
`Resting`, `Greeting` (heads and answers), `Leaving` (one has cancelled), `Deciding` (roles),
`Walking`, `SendingBlocks`, `SendingEntities`, `Ending`, and either end as the sender. With
it go what the stages need of the data: `HeardWork`, so that the two ends' comparisons come
out opposite; `PathOK`, that the blocks noted by the sender lead from its head to where the
walk is and their works add up; `SameNeeded`, that the receiver noted the same; and that the
sender has what the receiver has queued, as inventories are complete (`NodesOK`).

**The argument.** One lemma per read of the source (`ReadHelloOK`, `ReadWalkIdOK`, ...): the
stage fixes the next frame, so it fits, and the step leads to a stage. `ChainVerified` shows
each of the four checks of `quickVerifyChain` true, so the nil error of its report is never
read between honest ends. What a node stores in the middle of a sync cannot hurt, for every
stage survives a growing inventory (`PlacesKept`); and an end takes a new head only when it is
out of the handler (`TakeHeadOK`).

**The assumptions.** `SyncAssumption` has ids as hashes (no two entities share one, and no
block is its own ancestor) and nodes that start with complete inventories of verified
blocks. That the work of a longer chain is the sum of its parts is a lemma (`WorkSums`).

**What is handed over.** `sync.go:186` reverses three lists, which is right only if the order
of receipt is backwards with respect to every reference. It is for `BalancedTrees` (all
leaves of a merkle are equally deep, as in the trees that `MerkleFromTxIds` builds; that
the receiver does not check) and chains that are `Orderly`: no tx occurs twice, and an input
refers to an earlier block whose tree has no fewer layers. Neither is vacuous nor dispensable:
`MCSync` assumes of its blocks, and TLC evaluates, that all but `e3` (a deep block over flat
ones) and `i2` (a spend inside the block) end orderly chains. The sync of `e3` breaks the
property (finding 5), and reversed leaves would have the spending tx of `i2` stored first.
`GatherInv` is inductive on top of `IInv`: the queue holds parts of
the trees of the needed blocks in the order of their `Turn`, which is the layer counted
from the roots times the number of blocks, plus the place of the block in the walk; what was
received comes before what is queued, and no two queued ids are more than one layer apart.
So a merkle's children, which are queued behind it, keep the order (`GatherMerkle`, with
`TurnFacts`), and a tx that is spent is received after the one that spends it, for its block
comes later in the walk and its leaves are not higher (`GatheredOrder`). `ReversedPlaces`
turns that into the order of storing (`GatheredStorable`).

### The commands of two ends

For commands of every kind from either end, at any time and up to any bounds `Events` on their
number, ends that refuse, time out, lose a byte, misread, or die:

| theorem | says |
|---|---|
| `PeerProofs!PeerTypeCorrect` | `Spec => []TypeOK` |
| `NobodyWaitsInVain` | `Spec => []NoVainWait` |
| `WhatIsHeardWasSaid` | `Spec => []HeardAsSaid` |

`TypeOK` is proved for connections that time out too. The other two are, as the properties,
about those that do not.

**The invariant.** `Joint` lists the places that two running ends can be in together, each
with both streams: `Apart`, or one command `Asked`, `Answered` or, for a tx, `Offered`; and two
that cross, from the moment both are written (`Crossed`) to the one in which the acceptor has
its own behind it and owes the other's (`Owing`). An end whose other end has gone is in none of
these: what it still has to read is what was written before, in order, and then the end of the
stream (`InOrder`), whatever part of a handler was cut off. `Honest` says that of each message
in a stream whose reading publishes something, that was said; `Delivers`, that what was said
and not heard is still to be written or to be read.

**The argument.** `NobodyWaitsInVain` is the joint places read one by one (`JointWaits`).
`Streams` is inductive by one lemma per family of places: each has the next read of each end
fixed, so it fits, and leads to a joint place (`AnsweredReceives`, `CrossedReceives`,
`OwingReceives`, ...). `JointReady` says that every joint place is one in which either end could
be left alone. On top of it a step publishes no more than it reads (`HandledHonest`) and
loses no message without publishing it (`ReceiveDelivers`).

### The other parts

| theorems | invariant and argument |
|---|---|
| `TopicProofs`: `TypeCorrect`, `NeverSendsOnClosedChannel`, `DeliveryImplemented` | the three places of a close, the loop's, the owner's and the closing goroutine's, in step (`CloseOrder`); and for the refinement (`FlightOK`), that of each publisher the messages that a subscription's loop holds and its queue contains are, in order and without gap, those from the last one taken to the last one pushed |
| `PeerFactoryProofs`: `TypeCorrect`, `KnownPeersAreExact`, `AddrsAreOfPeers`, `NewPeersMissNoEvent` | the three properties, with: a new connection waits at most once and is no peer yet (`NewConnsOK`), the table is finite and has room (`TableOK`), and the newest head is the last that is on its way to the factory, or the one it has (`HeadsOK`) |
| `MiningProofs`: `NextTargetIsAccepted`, `MedianOnlyRises` | the range of the next target is not empty, and the first block of a period lies below its last, so the division is defined; and a block above the median of five cannot lower the next one, by counting |
| `MiningProofs`: `TypeCorrect`, `TargetsStayBounded`, `OwnBlocksRefusedForMedianOnly`, `MedianIsMonotone` | targets are constant in a period and within 4^k; a target told for the head, on its way or in the template, is what `NextTarget` says of it, and the others are of lower heads (`ToldOK`) |

`DifficultyAssumption` is what `Params.verify` enforces and what the nets have in common.
`PowersOfFour` states of each `4^k` what an induction on `k` would give. `MaxTime > 0` in
`MiningAssumption` is an unbounded clock that has started. In `FactoryAssumption` each list
of addresses that a peer sends is finite.

### What is only model-checked

- Liveness, `Converge`, `ValidHeadAdopted`, `SeedsRetried` and the others: the provers have
  neither fairness nor `ENABLED`. With it goes `NothingWithheld`, the fair half of
  `Delivery`.
- What the theorems leave out by hypothesis: `HandoverStorable` of chains that are not
  orderly (finding 5), `NoPanic` where a block does spend within,
  `RejectOnlyInvalid` after a restart, `TargetMinable` with duplicate inputs (the runs show
  each false), and a supply whose sums wrap, of which no instance is large enough.
- `LeavesAssumption` and `PowersOfFour`, which TLC evaluates where they are used, and
  `TreesSound`.

## 6. Plan

1. The wallet's tx factory as a pure function: inputs, change and fee against a
   reference; sums that wrap.
2. Two factories composed: nodes that dial each other at once, each of which may keep the
   connection that the other refuses.

## 7. What is not modelled, and why

File formats, HTTP, JSON, the command line, flag parsing and key files are I/O with
no concurrent state. The REST server waits on the chain's routine for one reply per
query, and what it returns are the query operators of `State`. Cryptography is a
Boolean per entity. Failing disk writes are not modelled, except the torn head file.
Bytes and partial writes of a connection are not modelled: a frame is written at once or
cut between its two reads, and what is read out of step is any outcome that the code can
have of it, with one misread command each time. A ping is answered by the code but never issued by it. The tx
factory is planned. Txs of a candidate head that fails are announced to nobody
(`chain.go:145`), which shows in the variable `announced` of `Chain`; no run is spent on
it.
