# Verification of amber-store-iroh

TLA+ models of the transfer, publication and lifecycle code of amber-store-iroh,
the TLC configurations that check them on small instances, and TLAPS proofs of
the results that matter most for every size of the system. Line numbers refer to
the source in this repository; `PROJECT.json` maps every definition to the lines
it stands for.

## 1. The system

amber-store-iroh moves content-addressed object trees between a client store
and a server store over QUIC connections (go-iroh) and publishes named refs to
them. Objects live in amber-store-core, which is used as a library.

| Part | State it keeps | Operations |
|---|---|---|
| want loop, `src/wantsync` | receiver: frontier, wants, carried keys, the round's receipts and errors, weights; sender: nothing between rounds | `Receive`, `Wants`, `splitWants`, `dealWants`, `checkDelivered`, `Send` |
| frames, `src/protocol` | `chunkWriter.buf`; `packReader.cur, done, err` | `ReadMsg`, `WriteMsg`, `SendPack(Records)`, `packReader.Read` |
| server requests, `src/server` | refs, object store, `refLocks`, the collector's guard | `handlePush`, `checkCAS`, `lockRef`, `handlePull`, `handleRefList`, `handlePin` |
| transfer registry, `type transfers` | `pending`, one buffered channel per transfer | `create`, `attach`, `gather`, `drop`, `shardChannels` and its release |
| serving, `Server.Serve`, `cmd/amber-serve` | accept loops, connections, handlers, open stores | `Serve`, `serveConn`, `main`'s start and deferred calls |
| client transfers, `cmd/amber` push, pull, dial | streams counted as attached, the command's progress | `runPush`, `runPull`, `attachExtras`, `runSenders` |
| client refs, `cmd/amber` ref, import, push, pull | local refs and `remotes/<server>/<name>` | `ref set`, `ref rm`, `import --ref`, push, pull |
| one client command, `cmd/amber` dial, progress, refs, import, restore | endpoints, connections, the local store, the bar, goroutines, deferred calls | `dialServer`, `raceConnect`, `Extra`, `attachExtras`, `Close`, the commands' own order of opening and closing |
| other front ends, rendering, address filtering, relay flag | none that others read | sequential I/O |

How they interact. A push sends TPush on a control stream. The server checks the
precondition, answers TAccept with a token and its data ports, and gathers the
streams that arrive with a TAttach for that token. It then runs `Receive` over
the control stream and the gathered ones, while the client runs one `Send` per
stream it counts as attached. When the tree is complete the server takes the
lock of the ref, checks again, and publishes the ref inside the collector's write
barrier. A pull is the mirror image: the server sends and the client receives,
then stores the ref under its own and the tracking name, which is the expectation
of its next push.

What is hard here:

* `Receive` runs concurrent decoders, with other handlers writing the same store,
  over a peer that is not trusted, on streams that may be lost, from a store that
  an earlier attempt left half filled;
* the two ends agree only by counting streams, with a deadline between them;
* `attach` and `drop` do half of their work after the mutex is released;
* per-name locks are made on demand, and publication has error paths under lock;
* a collector may take what no ref names while a push is between its transfer and
  its Put, or a pull reads a tree whose ref moves;
* clients and servers die between the steps of a ref update;
* a command that fails half way has connections, goroutines and a store to undo;
* shutdown has to end handlers that may not end.

### Properties that make each part correct

| Part | Properties |
|---|---|
| want loop | success means the whole tree is stored (`SyncedOnOk`); a released `Send` means the same (`SenderReleased`); streams are frame-aligned between rounds (`AlignedAtScan`); nothing but a fault fails a transfer (`NoSpuriousFailure`); attempts end, retries complete, senders return |
| dealing | no channel is starved (`Probed`), shares follow weights (`Balanced`), what the weights really are (`SampledIsDealt`) |
| frames | bytes arrive once and in order (`InOrder`), ends of packs are believed only when true (`EndTrue`), readers end |
| requests | refs name complete trees (`RefsComplete`), pushes and pulls are atomic compare-and-swaps and reads (`Linearizable`), answers and hooks are true (`AnswersTrue`, `HooksTrue`), a pull is not broken by others' refs (`PullStable`), no handler waits for another's client (`OnlyOwnPeerBlocks`) |
| registry | a stream has one owner (`OneOwner`), a running transfer's streams stay usable, what is left open is accounted for |
| sharded transfer | missing connections fail nothing, success means committed over the streams of both ends (`OkIsAgreed`), both ends finish |
| client refs | tracking refs are true, no blind overwrite |
| one command | nothing it opened is left (`NothingLeaks`), the store is closed under nobody but the exporter of a failed restore (`OrderlyEnd`), it ends if its server answers |
| serving | stores outlive handlers, shutdown ends |

## 2. Modules

```
ObjectGraph        objects, children, completeness
  SyncContract     what a transfer promises                (abstract)
  WantSync         the want loop            implements SyncContract
    WantSyncProofs
DealWants          how a round is shared out (WantSync leaves the deal open)
PackFrames         one channel below the want loop (WantSync takes packs whole)
    ChannelProofs  about DealWants and PackFrames together
CasRegister        what pushes and pulls promise         (abstract)
RefService         HandleStream's requests  implements CasRegister
    RefServiceProofs
Transfers          the registry at the grain of mutex and channel operations
    TransfersProofs
ShardedTransfer    both ends of a sharded push or pull, composed
    ShardedTransferProofs
RemoteRefs         clients' refs against the server's compare-and-swap
    RemoteRefsProofs
ClientCommand      one command: races, store, goroutines, deferred calls
    ClientCommandProofs
ServeShutdown      amber-serve from start to exit
    ServeShutdownProofs
MC<module>         the instance TLC checks, with MC<module>*.cfg
```

`RefService` takes the transfer at the contract of `SyncContract`, and
`RemoteRefs` takes the server's side of a push at the contract of `CasRegister`.
`ShardedTransfer` reduces the want loop to what its channels see and the registry
to queue, gather and release; the races inside `attach` and `drop` are the
subject of `Transfers`. `ClientCommand` reduces a transfer to the goroutines it
joins.

### WantSync

| Model | Code |
|---|---|
| `Begin` | `Receive` up to its loop, `Send` started on every stream |
| `Scan(k)`, `ScanFails` | one iteration of `Wants`, other handlers writing between two of them; its store error |
| `Finish` | the empty want list: a final TWants on every channel, any write of which may fail |
| `DealRound` with `Asks`, `Deals`, `Used` | `splitWants`, any deal `dealWants` may choose, one TWants per non-empty shard |
| `Deliver`, `DeliverForged`, `StoreFails` | decoder, consumer and `WriteParallel` with Verify; its own failures |
| `CloseDecoder`, `AbandonDecoder` | what ends a decoder, drain included; `done` closed after a store error, which a decoder notices, or not while the buffer has room, when it has an object to hand over |
| `RoundFails`, `NextRound`, `Delivered` | error precedence, `checkDelivered`, the next frontier |
| `SendRound`, `SendDone`, `SendBroken` | `Send` |
| `RoguePack` | a far end that is not our `Send`: any pack, forged and unasked-for objects included |
| `OtherWrite`, `Cut`, `Crash` | another handler, a connection lost with some, all or nothing of what it carried, a dead receiver |

The store is a set of keys: objects are immutable and named by their contents,
so the graph is a constant. `fresh` holds what the running `WriteParallel` has
added; it is durable when `WriteParallel` returns, and a crash before loses any
subset, parents and children alike. The writes of other handlers are taken as
durable. A `TWants` is a set of keys, a pack a set of objects with what follows
it; the bytes in between are the subject of `PackFrames`.

### DealWants

`DealKey`, `Ask`, `Tick`, `Sample` and `NextRound` follow `dealWants` and the
rounds of `Receive`, whose first frontier is the root alone (`Root`). Speeds are
fixed per behaviour; compressible keys have a wire size of their own. The code
compares ratios as 64-bit floats; the model compares them exactly. The names of
the specification begin with `Deal` (`DealInit`, `DealNext`, `DealSpec`,
`DealIInv`) so that one module of proofs can extend this module and `PackFrames`.

### PackFrames

The bytes of a pack, a buffer of one chunk, TData frames, TDataEnd or TErr, and
a reader with its own buffer sizes, for several rounds on one stream. A cut can
fall between frames, in a header, between header and payload, or in a payload,
because `ReadMsg` reports them differently.

### RefService

| Model | Code |
|---|---|
| `Start`, `EarlyCheck`, `Transfer` | `handlePush` up to the end of its `Receive` |
| `LookupLock`, `Acquire`, `Recheck` | `lockRef` under `s.mu`, the mutex it returns, `checkCAS` again |
| `Prepare`, `PutOk`, `PutFails`, `CommitGuard` | PrepareRef, refs Put, abort or commit of the collector's barrier |
| `Access`, `Reply`, `Unlock` | onAccess, TOK, the deferred unlock |
| `Resolve` | `handlePull`: one read of the ref, onAccess |
| `Misses`, `Serve` | a `Send` that reads an object the collector took; the end of the last `Send` |
| `StartPin`, `PinNext`, `PinDone` | `handlePin`, name by name |
| `List` | `handleRefList` |
| `Collect` | the collector of the embedding program: any tree no ref names and no barrier protects |
| `Crash` | the process dies and comes back with what is durable |

Reads, writes and answers may fail, the client may be gone, and the process may
die between any two steps. PrepareRef fails when the tree is no longer stored: it
is what makes the barrier safe against a collection before it. A failed Put is
taken to leave the ref unchanged. amber-serve runs no collector; `SetRefGuard` is
there for a program that embeds the server, and `Guarded` says whether one does.
`OwnStep` and `PeerStep` divide the steps of a handler into those it takes by itself
and those that wait for what its client sends, which it does without a deadline.

### Transfers

`create`, `attach`, `gather` and `drop`, split where the code releases the mutex:
`Lookup`/`Send` and `Unregister`/`Drain`/`DrainEnds`. A stream may carry a token
that was never handed out; one that carries a transfer's token comes only after the
token was written to the client (`offered`). `overtaken` records the streams sent to
a channel that had already been drained.

### ShardedTransfer

`attachExtras` (a connection that cannot be opened ends it), the server's gather
with its deadline, `Receive` and the `Send`s over each end's own channel set,
`runSenders`, the Put (`Commit`) and after it TOK (`Reply`), which may be lost with the
control connection, release. `mode` chooses between push and pull, and whether every
attach reaches the server before the deadline (`punctual`).

### RemoteRefs

Commands of one client run one after another, those of different clients
interleave. `Die` ends a command between any two of its steps; a push that was
under way may still be carried out (`ServeAbandoned`). `held` and `served` are
history variables: the values a client pushed or had as its own ref, and the
values the server's ref ever had.

### ClientCommand

`Program` is the order of the steps of `push`, `pull`, `refs`, `import` and
`restore`; an action stands for each step, for its failure (`Abort`, `GiveUp`,
`Join`), for the goroutines beside it, and for each deferred call in LIFO order.
The races of `Bind` and `BindExtra` follow `raceConnect`: dials return in any
order, cancelled ones may still succeed, the first connection wins, and `Losers`
is the count the collecting goroutine is given. An extra connection races the
data port when the server offers one and falls back to the control candidates.
`LostOnlyIfAllFail` says that an endpoint is given up only when every control
candidate was dialed on it, in its only race or in the fallback, and lost; so a data
port behind a filter does not cost an extra connection by itself.
`WorkerEnds` stands for the Send loops, decoders or ingest workers of the
transfer; what they do is the subject of the other modules.

### ServeShutdown

`main` from binding the data endpoints to its deferred calls, and `Serve` and
`serveConn` with their grace. `expired` records whose grace ran out; `Stray` is
the set of endpoints already served when a later bind fails.

## 3. What TLC checks

| Run | Instance | Shows |
|---|---|---|
| `sync` | 5 objects, two of them shared at two depths, 2 channels, MaxWants 2, 1 fault, 2 starting stores, another writer, a rogue on the data channel in any attempt | `IInv`, `SyncedOnOk`, `SenderReleased`, `AlignedAtScan`, `NoSpuriousFailure`, `Contract`; `AttemptEnds`, `EventuallySynced`, `SendersReturn` |
| `requests` | 3 handlers in six combinations of pushes, pulls, pins and lists over 2 names and 2 trees, a collector, 1 crash | `IInv`, `RefsComplete`, `AnswersTrue`, `HooksTrue`; `PullStable`, `Linearizable`; `OnlyOwnPeerBlocks` |
| `attach` | 2 transfers asking for 3 streams over channels of 2, 3 streams | `IInv`, `UsableWhileRunning`, `OnlyOvertakenLeft`; `TransfersEnd`, `AttachesEnd` |
| `shard` | 3 extra connections, 2 rounds, 2 faults; punctual pushes and pulls, late pushes | `IInv`, `OkIsAgreed`; `TransferEnds` |
| `refs` | 2 clients, 2 roots, 1 lost command | `IInv`, `TrackingServed`, `NoBlindOverwrite` |
| `client` | five commands, one extra connection, 2 control candidates and a data port, a failure at any step | `IInv`, `NothingLeaks`, `OrderlyEnd`; `CommandEnds` |
| `serve_stop` | 2 data endpoints and the control one, 2 connections, a bind that may fail | `IInv`, `StoresOutliveHandlers`; `ShutdownEnds` |
| `deal` | 3 channels of 2 speeds, 5 want lists, 4 rounds | `DealIInv`, `Balanced`, `SampledIsDealt` |
| `pack_frames` | chunks of 3 bytes, packs of 5 shapes, 3 buffer sizes, 2 rounds | `IInv`, `EndTrue`; `ReaderEnds` |
| `attach_orphan`, `shard_late_pull`, `deal_straggler` | see section 5 | a disagreement between code and comment |

### Why these bounds

* `sync`: the graph has an object below both the root and another child of the
  root, which is where pruning on completeness and asking again interact; its
  second round wants three keys, one more than MaxWants, so a key is carried. Two
  channels are enough for every interaction of channels: a failure of one while
  the other is active, released or not asked. One starting store is empty, the
  other holds a parent whose child is reached in no other way, which is where
  presence and completeness differ. One fault is enough to make
  a first attempt fail anywhere and leave its store to a second; a rogue attempt
  counts as no fault, so rogue attempts, a fault and an honest attempt follow one
  another. A rogue's packs are empty, or hold one genuine object, or that and a
  forgery; the proofs allow any pack that comes to an end. A fault is a lost
  connection, a crash, or a store that fails on either side.
* `requests`: three handlers are needed for a lock entry made by one, held by a
  second and waited for by a third, and for a pull whose ref is moved by one push
  while another's tree is collected. The six combinations put every pair of
  operations on one name side by side; the second name, never pushed, is one a pin
  meets or misses. The server starts with no ref, either tree, or both names on one
  tree. The proofs cover any number of each, and a server without a collector.
* `attach`: DataConns above MaxDataConns exercises the clamp, three streams
  overflow a channel of two.
* `shard`: with three extras one can attach, one fail to open and one never be
  tried. Rounds beyond the second repeat the first two. Two faults are enough for a
  connection that fails to open to meet a failing Receive, a failing commit or a lost
  TOK.
* `refs`: one lost command may be a push that outlives its client while both
  clients carry on. Trees and clients are interchangeable (symmetry; no liveness
  is checked in this run).
* `client`: two candidates give a winner and a loser that may still connect, the
  data port a fallback, one extra connection each way an extra can fail. With two
  extras the run still passes (2.3 million states); it is kept to one for time.
* `serve_stop`: two data endpoints, so that a bind can fail over one that is served;
  two connections, so that one handler can hang while another ends.
* `deal`: the want lists hold equal keys, keys of no bytes, one long key among
  short ones, fewer keys than channels, and keys that compress.
* `pack_frames`: records that fill a chunk but for the end marker, exactly, and
  several times over.

Deadlock is checked in every run except `shard_late_pull`, whose system stops:
that it does is the finding. Ended systems have an explicit final step (`Done`,
`Quiet`, `Over`, `Exited`, `Synced`).

### Fairness

* Goroutines that can run do run: weak fairness of the steps of a receiver, a
  sender, a handler, `main`, a collector.
* `RefService` assumes it only of what a handler does by itself (`OwnStep`). The
  gather and Receive of a push and the Sends of a pull wait for an untrusted client
  without a deadline (`PeerStep`), and nothing is assumed of them:
  `OnlyOwnPeerBlocks` says that a handler stops for ever nowhere else, above all not
  at the lock of a ref while a silent client has the server in another transfer.
  Answers of a few bytes (TOK, TErr) are taken to be written without waiting for the
  peer; they too are written under the lock (`server.go:337-360`).
* `RefService` has strong fairness of `Acquire`: a sync.Mutex hands itself over to
  the longest waiter (starvation mode), so a handler that finds it free again and
  again gets it.
* Timers fire: gather's deadline, Serve's grace, the handshake timeout behind a
  dial.
* Frames on a connection that holds are delivered.
* In `ClientCommand` the server answers, and the goroutines of a transfer end: that
  they do is what `AttemptEnds`, `SendersReturn` and `TransferEnds` show, but for the
  late pull of section 5. `CommandEnds` is conditional on both. An exporter left
  behind by a restore does not keep the command from its exit, and no property
  catches it (section 5).
* `RetrySpec` of `WantSync` adds that a failed transfer is run again; nothing in
  the code retries by itself, and `AttemptEnds` and `SendersReturn` do not use it.
* Nothing is assumed of a rogue, of faults, of reads that may fail, of other
  writers, or of the handlers in `ServeShutdown`, which may hang for ever.
  `AttemptEnds` and `SendersReturn` therefore speak of attempts without a rogue: a
  silent peer holds `Receive` as long as its connection lives. That a transfer
  ends once it runs is assumed in `Transfers` and `ShardedTransfer`, where the
  want loop is not the subject.

## 4. What is proved

The proofs hold for every value of the constants that satisfies the modules'
ASSUME: any finite or infinite graph, any channels, stores, handlers, names,
clients, chunk sizes, packs, want lists and bounds. Every safety invariant, action
property and refinement that a passing run checks is proved.

### WantSyncProofs

`Inductive`: `Spec => []IInv`; from it `TypeCorrect`, `SyncedSafe`,
`ReleasedSafe`, `AlwaysAligned`, `FailsOverFaults`; and `Refinement`:
`Spec => Contract`.

That success means a complete tree is not inductive: it has to be known why an
empty want list says so. The strengthening is `Accounted`: in a running attempt,
in every set of objects that contains the store, if all outstanding keys
(frontier and wants during a scan, round and carry during a round) are complete,
the root is. Quantifying over larger stores makes it stable under the writes of
anyone. The pieces of the argument:

* `CompleteMonotone`: what was pruned as complete stays so (the scan of a pruned
  key);
* `CompleteAbove`: a stored object over complete children is complete (the step
  from a round to the next frontier); it needs `ReceivedStored`, that everything
  received without a store error is stored and its children are noted;
* `NothingLeft`: with nothing outstanding, `Accounted` says the root is complete;
* `FinalOnlyWhenSynced` and `NoneReleased` carry that fact to the senders.

The refinement maps `pc` to the result a caller sees. Rounds, deals, packs and
interleavings are stutters or gains of objects.

`AlwaysAligned` needs to know what a channel may carry in the middle of a round
(`Framed`): at most one request, and then no pack yet; a pack only while its
decoder is active, unless the decoders were told to stop by a store error. A round
ends when no decoder is active, so a round without error leaves every stream empty.

`FailsOverFaults` is the claim that nothing the receiver does by itself, and
nothing other handlers do to its store, makes a transfer fail. `Faultless` says why,
while there was no fault: the sender holds everything below every key that is
outstanding or may become so, and every key of the round that has not arrived is in
the request or the pack of a channel whose decoder is active. When all decoders have
ended every key has therefore arrived, and `checkDelivered` finds nothing missing.
What a scan adds are children of keys the sender holds completely (`CompleteBelow`).

### RefServiceProofs

`Inductive`, and from it `Exclusion`, `CommittedComplete`, `Truthful`, `Guards`,
`Hooks`, `Stable`; `Refinement`: `Spec => Linearizable`. The invariant adds: all
handlers of a name that are past the lookup use the one mutex the map holds for
it, and no two names share one (`OneMutex`); who is in the critical section owns
its mutex (`HolderOwns`); the re-check stands until the Put (`CheckStands`);
between them no other handler can be at its Put for the same name
(`MutualExclusion`).

That a published ref names a stored tree has two arguments, one for each value of
`Guarded`, and `Transferred` states both: with a collector the tree is protected
from PrepareRef on, by the barrier, and PrepareRef found it there; without one
what `Receive` completed stays. A pull is stable (`Stable`) because what a ref
names is never collected while it names it: at the read that misses an object the ref
names another tree. The linearization point of a push is the Put, or the check that turned it
down; that of a pull is its one read; a crash fails all pending requests at once.
Everything else maps to a stutter of the register.

### TransfersProofs

`Inductive`, `Usable`, `OneGap`. The invariant says of each stream who owns it:
nobody but HandleStream until it is handed over, then one place in one channel or
one transfer's list (`OneOwner`), open until `drop` drains (`HandedOpen`). A channel
found empty by `drop` can only gain streams that were looked up before, which is
what `overtaken` records; so what a finished transfer leaves open is exactly such
streams. `NoneTwice` says that no stream is queued twice: without it a gathered
stream could be drained.

### ShardedTransferProofs

`Inductive`, `Agreed`, `Lenient`. The two ends count the same streams once
gather is over, if no attach is late (`SameStreams`); streams are closed under a
push only after its answer, which follows the end of Receive (`ServerOrder`); so
every Send of a push has its final TWants before its stream goes
(`SendersServed`), and a client fails only with Receive, with the commit or with the
control connection.

That success means agreement (`OkIsAgreed`) has to hold of late clients too, for whom
nothing of this does. The client hears nothing of what becomes of its attach, and TOK
comes whether or not the server ran over the stream. What ties them is `SendsMatch`: on
a push only a stream the server gathered is ever given a frame, so only there can a
`Send` be done; `runSenders` waits for every `Send` of an attached stream and joins
their errors before TOK is read. And TOK follows the Put (`ServerOrder`).

### ServeShutdownProofs

`Inductive`, `StoresOutlive`, `PortsBeforeOffers`. `MainOrder` ties each step of
`main` to what is served; `Attended` says that a handler runs on a connection whose
serveConn has not returned, and that a Serve which returned over one ran out of
its grace. The stores are closed after the wait, when every Serve has returned.

### RemoteRefsProofs

`Inductive`, `TrackingTruthful`, and the action property
`NothingOverwrittenBlindly`. The invariant adds that whatever a command is about
to record was the server's value (`KnownServed`), and that whatever a push
expects, abandoned pushes included, its client has had (`ExpectsHeld`).

### ClientCommandProofs

`Inductive`, `NoLeaks`, `EndsInOrder`, for any candidate addresses and any number
of extra connections, where TLC checks one. That nothing leaks is not inductive.
Endpoints are numbered as they are bound, so that a race concerns an endpoint
nobody uses yet (`Numbered`). What is open lies on a bound endpoint and is in use
or still in the channel of its race (`OpenBound`, `Used`). What the command keeps
has a deferred call that closes it, and the closer of a pull's streams runs before
that of their connections (`Connected`, `StreamsFirst`); likewise for the store
and the bar (`Place`, `BarWaited`). A race the command no longer waits for was won
if results are to come (`Raced`), so an endpoint without a winner was given up with
no result left in its channel, and every candidate had been dialed on it (`Dialed`);
that the count a receiver holds is the number of those results is arithmetic of
finite sets (`Balance`). At exit the list of deferred calls is empty, and so is what
they would have closed.

### ChannelProofs

`PacksInductive` and `PacksEndTrue` about `PackFrames`, `DealInductive`,
`SharesBalanced` and the action property `WeightsAreBytesDealt` about `DealWants`.

The two modules share a need: both say what a fold over a sequence of any length
computes (`FlattenSeq` joins the payload of the frames under way, `FoldSeq` sums the
wire bytes of a shard). The induction theorems of the library take an operator as
parameter and cannot be used, but a set can take its place: `Least` finds the least
element of a set of naturals, from the well-foundedness of `<`, and
`NoLeastCounterexample` turns that into induction over the members of a set. From it
follow what the folds return, one element at a time (`FlattensExists`,
`FlattensUnique`, `FlattenIs`, `SumsExist`), and from that the facts used:
joining distributes over concatenation (`FlattenConcat`, `PayloadConcat`), the full
chunks of a buffer and its rest are the buffer (`ChunksMake`), and the bytes of a
shard are a natural number (`WireBytesType`).

*Frames.* That the end of a pack is believed only when true is not inductive:
`EndTrue` speaks of the reader, and why it holds lies with what the sender did.
`EndsLast` says that a frame that ends a pack is the last under way and that its
sender is done with the pack; `Closed`, that the end
marker is the last byte written and nothing else looks like it; `ReadSoFar`, that a
decoder past the marker has read all that was written. The step that matters is
`Copy`: the decoder meets the marker in what it has just copied, and because what it
has read is a prefix of what was written, and the marker stands only at the end of
that, it has everything (`EndReached`), whatever its buffer sizes and wherever the
stream was cut.

*Dealing.* The code picks the lowest ratio of assigned bytes to weight by a loop; in
the model `Best` is a CHOOSE, and `BestIsLowest` shows that there is always one,
for any number of channels and any weights, because the order of ratios is
transitive when the floored weights are positive (`RatioTransitive`). From it:
`Balanced`, since the channel that receives a key had the lowest ratio before it;
`Probed`, since a channel with nothing assigned has ratio 0, the lowest there is, and
`Counted` says that having bytes assigned and having keys are the same, which holds
only because a key of no bytes counts as one. `Conserved` ties the bytes a channel
has moved and has left to what it was asked for; a round ends with nothing left, so
what is sampled is what was dealt.

### Model-checked only

The liveness properties (`AttemptEnds`, `EventuallySynced`, `SendersReturn`,
`OnlyOwnPeerBlocks`, `TransfersEnd`, `AttachesEnd`, `TransferEnds`, `CommandEnds`,
`ShutdownEnds`, `ReaderEnds`): the prover has no rule for fairness here. The runs of
section 5 show violations, which is TLC's to do.

## 5. Where the code and its comments disagree

Three disagreements have a run that shows them:

* `attach_orphan`. `server.go:149-150`: streams attached but never gathered are
  closed. An attach that looked up its transfer before `drop` deleted it sends to
  the channel after `drop` has drained it. The stream stays open until its
  connection goes.
* `shard_late_pull`. `server.go:111-113`: a client that fails to open some
  connections must not stall the transfer. A TAttach that arrives after gather's
  deadline on a pull leaves the client with a channel nobody serves; both ends
  wait for each other, without a deadline.
* `deal_straggler`. `wantsync.go:188-191`: per-channel throughput stops a
  straggler from dictating the pace. A round ends when every channel has moved
  its shard, so the bytes moved in a round are the bytes dealt, whatever the
  speeds (`SampledIsDealt`). The first round gives the root to the control
  channel alone, and it keeps most of every later round even when it is slowest.

Others were met while modelling and have no run of their own:

* `loop_test.go:224-226` says a fresh sync requests and receives exactly the
  tree's objects. An object that is a child of the root and of another child of
  the root enters the next frontier through its second parent while it is present
  but not complete, and is asked for twice (`wantsync.go:332`).
* `dial.go:259-262` says failures to attach reduce parallelism instead of failing
  the transfer. On a push, an attach that misses gather's deadline makes the
  client's `Send` fail and the command report failure, although the server commits
  (`push.go:203`). `OkIsAgreed` shows that it is never the other way round, and that
  a push whose streams the two ends count differently is never reported as done.
* The design document (line 227) says interrupted transfers need no repair. When
  TOK is lost after the commit, the same push is refused when run again, although
  the server holds the very root it pushes (`server.go:440`).
* `server.go:169-170` says the caller closes the stores after the server stops.
  When a data endpoint cannot be bound, `main` returns and closes them while the
  earlier data endpoints are served (`main.go:231`). `StoresOutliveHandlers` says
  that only they are: the control endpoint is not served then, and no other
  handler loses its stores but by its grace.
* `server.go:175-176` says to call SetDataPorts before Serve. `main` calls it after
  the Serve of the data endpoints and before that of the control endpoint
  (`main.go:236-246`). `ControlHasPorts` shows that the control endpoint never
  offers a transfer without ports.
* `protocol.go:141-142` says a stream cut mid-frame surfaces as
  io.ErrUnexpectedEOF. Cut after the header and before the first payload byte, it
  surfaces as a wrapped io.EOF (`protocol.go:157`). `EndTrue` shows that no pack is
  taken for complete because of it.

* `server.go:254-256` says every failure is reported. A ref list above MaxFrame
  fails in `WriteMsg` before anything is sent, and the client sees the stream end.
* `restore.go:45`: when the extraction fails, the exporter is neither unblocked nor
  waited for, and the deferred close of the store runs under it. `OrderlyEnd`
  excludes that case and no other.

## 6. What is not modelled

* amber-store-core and go-iroh: used at the contracts described above
  (`CheckComplete`, `ChildKeys`, `WriteParallel` with Verify, ref Put and Get, the
  collector's PrepareRef; ordered reliable streams that may be lost).
* The CBOR encoding, token generation, key files, address filtering, discovery,
  relay selection, progress and formatting: pure functions and I/O.
* `ls`, `export`, `spec`, `chunk`, the relay flag and the `amberiroh` facade: they
  parse, read through amber-store-core and print, and nothing of theirs outlives
  a call or runs beside it. `tarexport` and `ingest` are amber-store-core.
* How `dialServer` finds its candidates (mDNS, pkarr, DNS): I/O of go-iroh, which
  stands for the set `Cand`.
* The frame-size limits. maxWantsPerRound keys of some 34 bytes are far below
  MaxFrame, a comparison of constants; the ref list is in section 5.
* The policy of a collector: `Collect` may take anything a barrier or a ref does not
  keep.

## 7. Plan

Done: the want loop, requests, registry, sharded transfer, client refs, one
client command, serving, dealing, frames, in this order of importance; proofs for
all nine.

Next, models:

1. `ShardedTransfer` over `Transfers` instead of its own queue, so that the late
   hand-over and the late attach meet in one model.
2. Address resolution in `dialServer` up to the candidates it races.

Next, proofs:

1. `PackFrames` as an implementation of what `WantSync` takes a channel for: a pack
   arrives whole, or fails, or is cut.
2. `DealWants`: that a deal is one `WantSync` allows (every want dealt, to one
   channel only).
