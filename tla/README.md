# Verification of soluna-plugin-sdk

TLA+ models of the SDK's concurrent parts, model-checked with TLC, and theorems
about them checked with TLAPS. Line numbers are those of the sources the modules
were written from; `PROJECT.json` maps every definition to its lines.

## 1. The system

The SDK lets a plugin process serve a host over a pipe. There are two protocols
on the same frames (`pluginapi/frame.go`: four bytes of length, then JSON).

| Component | State | Operations | Meets |
| --- | --- | --- | --- |
| special peer, `special/peer.go` | `done`, the queue `out`, `slots`, `pending`, `active`, one goroutine per Call and per request, a reader and a writer | `Call`, `send`, `write`, `read`, `handle`, `Close` | the other end's peer through the stream; the handler of the lifecycle server; providers through `Host` |
| special lifecycle server, `special/server.go` | `gate`, `state`, `lastUnit`, `frozenRun`; per request a phase context | `Serve`'s handler for each method; `remoteHost.invoke` and the Host methods | called by `Peer.handle`; calls the provider, whose Host calls `Peer.Call` |
| resource transfer, `special/runtime.go` | cursor, receipt, hash | `ReadResourceTo`, `PutResource` | `Host.ReadResource`, `Host.Resource` |
| action plugin server, `pluginapi/server.go` | `seen`, `handshaken`, `sem`, `active`, `writeMu` | `Serve`, `respond`, `cancel`, `cancelAll` | a `Handler`, such as the OCR worker |
| OCR worker, `ocr/worker/handler.go` | `mu`, `recognizer`, `identity`, `output/result.json` | `Execute` (initialize, recognize), `Shutdown` | called by the action server; calls a factory and its recognizer |
| frame codec, `frame.go` | none | `ReadFrame`, `WriteFrame` | both servers |
| semantic versions, `internal/semver` | none | `Parse`, `Compare` | OCR package |
| OCR package, `ocr/protocol` | files | `LoadPackage`, `WritePackage`, `Decode` | OCR worker |
| manifests, commands, types, `plugintest`, contracts | none | stateless checks | |

What is hard: the peer's cancellation, its closing and its bounded queues and
slots, between goroutines of two processes; the lifecycle that must hold across
refused, failed, cancelled and panicked methods while only *trying* its lock; a
Host that outlives its phase; the action server's writers and its shutdown; an
OCR worker whose initialization fails half way; transfers in which every chunk
may be the wrong one; frames cut anywhere; a package whose executable is rebuilt
while it is written or loaded. What makes each part correct is listed with its runs in
section 3, and every hazard with the line where it bites in `PROJECT.json`.

## 2. The modules

| Module | Models | Extends or uses |
| --- | --- | --- |
| `RpcContract` | abstract: what a Call tells its caller about the remote handler | |
| `Peer` | two SDK peers at both ends of a stream | `RpcContract` (INSTANCE, refinement) |
| `PeerOpen` | one SDK peer facing any remote | `Peer` |
| `PeerProofs` | theorems about `Peer` and `PeerOpen` | `PeerOpen` |
| `RunContract` | abstract: what a provider instance is promised | |
| `Lifecycle` | the handler in `Serve`, and the Host | `RunContract` (INSTANCE, refinement) |
| `LifecycleProofs` | theorems about `Lifecycle` | `Lifecycle` |
| `PeerLifecycle` | `Serve` behind its peer, a host in front of it | `Peer`, `Lifecycle` (INSTANCE, composition) |
| `PeerLifecycleProofs` | theorems about the composition | `PeerLifecycle`, `PeerProofs` |
| `ActionServer` | `pluginapi.Server` | |
| `ActionServerProofs` | theorems about `ActionServer` | `ActionServer` |
| `FrameChannel` | abstract: a channel of whole frames that may end | |
| `FrameStream` | `WriteFrame` and `ReadFrame` at the ends of a byte stream | `FrameChannel` (INSTANCE, refinement) |
| `FrameStreamProofs` | theorems about `FrameStream` | `FrameStream` |
| `ResourceLimits` | the limits both transfers share | |
| `ReadResource`, `PutResource` | the two transfers | `ResourceLimits` |
| `Transfer` | a put and then a read of the same resource | `PutResource`, `ReadResource` (INSTANCE) |
| `TransferProofs` | theorems about `Transfer` | `Transfer` |
| `OcrWorker` | the OCR `Handler` | |
| `OcrWorkerProofs` | theorems about `OcrWorker` | `OcrWorker` |
| `Semver` | `Parse` and `Compare`, and semver.org's grammar and precedence | |
| `OcrPackage` | `WritePackage` and `LoadPackage` | `Semver` |
| `OcrPackageProofs` | theorems about `Semver` and `OcrPackage` | `OcrPackage` |
| `MCPeer`, `MCPeerOpen`, `MCPeerLifecycle`, `MCLifecycle`, `MCActionServer`, `MCOcrWorker`, `MCOcrPackage` | small instances for TLC | |

Each module has a section *Seeded faults*: an action or a condition as a
plausible bug would have it. They belong to no specification. For each property
of each run one of them is put in the place of the definition it imitates, and
TLC must then find the property violated (`mutants` in `PROJECT.json`).

### Peer and PeerOpen

A Call draws its ID from an atomic counter under its end's prefix, so a Call
stands for its ID. `pc[c]` says where the goroutine of `Call` is (registered,
in `send`, in the wait, in the second `send` and wait after its context ended,
in the deferred delete). `serving[c]` is the goroutine of `handle` at the other
end. `p.pending` and `p.active` are not variables: an entry exists exactly
between two points of the goroutine that owns it, so they are the operators
`Pending` and `Active`. `hand` is the frame between `ReadFrame` and the dispatch
under the mutex; `releasing` counts handlers between `delete(p.active)` and
`<-p.slots`; `swept` tells whether `Close` has got to its loop over `p.active`.
`answered[c]` is the one-place channel of a Call. `why` is a history variable:
what closed an end first.

Abstractions. Timers may fire at any moment. A frame is its kind, its ID and
whether it is good, refused by the reader's envelope check, or over the limit
(found out by the writer only). `close(done)` and `stream.Close()` are one step;
a frame the writer is just writing counts as written (how a frame becomes bytes is
`FrameStream`'s). A select with several ready
cases takes any of them. `PeerOpen` leaves out the remote's goroutines and lets it
write any frame and go away at any time.

`RpcContract` is what a caller may conclude: the handler of a Call runs at most
once; a Call that failed to be sent (`limit`, `unsent`) has no effect and never
will; one that came back with a reply or with an acknowledged cancellation has its
effect behind it; one that was lost tells nothing. `Peer` maps its variables
onto these two, `Effect` and `Report`, and `ImplementsRpc` says that every step is
one of the contract or a stutter.

### Lifecycle and RunContract

Each `Inv` is a handler goroutine of the plugin's peer. `TryLock` and what
follows up to the provider method is one step, for the lock is exclusive and
nothing blocks; the provider method is the gap between an `Enter` and an `End`
action; `Revoke`, `Unlock` and `Reply` are the deferred calls in their order.
`Panic` is an end of the method that assigns no state. A run is the pair of run
ID and compiled input that `frozenRun` encodes. A `Helper` is a goroutine of the
provider that has a Host: `CallbackCheck` and `CallbackSend` are the two halves of
`invoke`. The variables `prepared`, `runs`, `seen`, `closing` and `closed` record
what the provider has seen; `RunContract` is stated over them alone, and
`ImplementsContract` says that `Lifecycle` is one way to keep it.

### PeerLifecycle

`Peer` and `Lifecycle` share a step where the code has one thing: a dispatch of a
request that starts `handle` is `Lifecycle`'s `Arrive`; what cancels a handler at
the peer (a cancel frame, its deadline, the sweep of `Close`) ends the context of
its phase (`Handed`); the handler's return is `Reply` and `HandlerReturn` at once. A
callback of the provider is `CallbackCheck`, then `CallbackSend` together with
`CallStart` of a Call in the other direction; the provider waits for it before its
method returns, and the callback's context ends with the method's
(`CallbackEnds`). `Abandon` is either owner closing its end, as `Serve` does when
its context ends (`server.go:199-205`), or the host giving up its Call. What
`Peer` alone leaves open, when a handler returns and what it has done by then, is
here decided by `Serve`.

### ActionServer

`loop` is where the read loop is; a request is chosen when it is read, among all
requests. `worker[i]` is the goroutine of an execute. A response is two writes
under `writeMu` (`WriteFrame` writes the header and then the payload), one when
it is refused before anything is written. `out` is all that was written.
`BreakPipe` is the host closing the pipe.

### ReadResource, PutResource, Transfer

One action per outcome of a loop iteration; a writer that fails may have taken
part of its chunk. SHA-256 is injective: a digest is the
content it is of. The host of `ReadResource` answers any chunk; the host of
`PutResource` may keep, drop or damage a chunk and fail with or without storing
it, but its receipt says what it committed, or is another resource's. In `Transfer` a
put that succeeded is followed by a read, whose host still answers anything: what
ties the two is the receipt, which is all that a caller has.

### FrameStream and FrameChannel

`stream` is the bytes under way, `left` and `buf` the loops of `writeAll` and of
`io.ReadFull`. A `Write` takes any number of the bytes it is given and goes on or
fails; a `Read` gives any number of those there are. A failed write is the end of
the stream, as for both servers, which stop writing then; what was taken before can
still be read. The writer is taken to fail only short of its last byte, as files
and pipes do. A header is a number in base `Base`, so that a reader that lost step
would take payload bytes for a size: payloads are all sequences of all byte values.
`FrameChannel` has no bytes: frames go in, come out in order, and it may end.

### Semver and OcrPackage

`Semver` has the functions of `semver.go` over sequences of code points and, apart
from them, the grammar of semver.org (a division of the text into core, pre-release
and build that has the right form) and item 11 of its precedence, on values and not
on texts. `OcrPackage` has one action per system call of `WritePackage` and
`LoadPackage`: an open by name, a read of a handle, a truncation and a write of the
manifest. An executable is two pieces, each of some build, since it is hashed in
pieces; `buildinfo` reads the first. Its environment replaces the file under its
name, rewrites a piece of it in place, or removes it; `torn` and `still` record
whether it did so under the reader, or at all. `LoadPackage` asks for more than
`WritePackage` does: a manifest of at most 65536 bytes (`package.go:44`), of which
only the version has no bound of its own, so that `Fits` bounds its length; an executable that
no link leads out of the directory (`os.OpenRoot`, line 53), that is a regular file of
1 byte to 512 MiB (line 67) and that may be executed (line 70). The last three are
`traits`: any of them may be missing, and stays so whatever build the file holds. The
manifest is another file than the executable, both calls are for one host, and reads of the
disk do not fail.

### OcrWorker

Executes and shutdowns compete for `h.mu`. A recognizer, and the identity that
came with it, is named by the initialize call that opened it. A factory may return
a recognizer together with an error, which `handler.go:63` provides for
(`OpenPartly`), or neither, which passes (`OpenNothing`). The granted image and `output/result.json` are
external.

## 3. The runs

| Run | Question | Instance |
| --- | --- | --- |
| `PeerSafe` | Is a cancel always behind its request (`CancelBehindRequest`)? How many handlers escape a close (`AtMostOneMissedByClose`)? Is each slot owned (`SlotAccounting`)? Do two SDK ends ever break the protocol (`NeverDuplicates`)? Does a Call keep its contract (`ImplementsRpc`)? | two Calls of one end; queues, slots, wire of 2; replies good or over the limit; symmetric in the Calls |
| `PeerOpen` | typing; a reader that refused a frame starts no handler (`NothingAfterRefusal`); every handler goroutine ends (`OpenHandlersEnd`), and every Call whose context does (`OpenCallsEnd`) | one Call to, and one request ID of, a remote that writes any frames and repeats IDs at will; everything of 1 |
| `PeerLifecycle` | a Call that came back with a reply or an acknowledgement has left the lifecycle free (`FreeWhenBack`); every Call returns, at either end (`CallsReturn`); a close reaches the other end (`CloseSpreads`); no provider method is kept for ever (`ProviderLetsGo`) | a `prepare` of the host, one callback of its provider; everything of 1; replies good or refused |
| `Lifecycle` | one provider method at a time, units once, panics, refinement of `RunContract`; what a Host can do once its phase is over (`AtMostOneStaleCallback`) | two goroutines, one helper, two runs of 2 and of unset units, unit numbers to 2; symmetric in the goroutines |
| `LifecycleOldHost` | violated: no callback of an old phase during cleanup | one helper, one goroutine |
| `Action` | one response per request, whole frames, quiet when stopping; `Serve` returns once it decided to; cancelled executions end, and so an execute that waits for their place gets it (`CancelledIsReleased`) | three requests, concurrency to 2 |
| `ActionContext` | violated: the end of the context ends `Serve` | the same |
| `Transfer` | what is written is what the receipt announced, all of it on success (`WrittenAsAnnounced`); a put that succeeded is whole, and so is what is read back (`RoundTrip`); one commit and last; both end | two byte values, all data of 0 to 4 bytes, chunks of 2, limit 3, any answers of 0 or 1 byte |
| `FrameStream` | frames arrive in order, once and whole (`ImplementsChannel`); what an end of the input tells of the frame that is missing (`EndMissesOnlyHeader`) | base 2, headers of 2, all payloads of 0 to 4 bytes, the writer's limit 3 and the reader's 2, a stream of 4, three frames |
| `Package` | what is loaded is one executable (`LoadedIsOneBuild`), and what is written of one nobody touches is loaded just when it has what only `LoadPackage` asks for (`WrittenLoads`); `Parse` accepts the grammar and nothing else (`ParseIsGrammar`), `Compare` is the precedence (`CompareIsPrecedence`) | two builds, two changes of the executable, one of its traits missing at most; about 460 texts as versions, one of them too long for a manifest |
| `Ocr` | nothing leaks, nothing in use is closed, what a passed recognition tells of its model and file (`PassedIsTrue`), every call gets the mutex and returns | two each of initialize and recognize, one shutdown |
| `OcrCancelled` | violated, see below | the same |

**Bounds.** The capacities 32, 32 and 8 of the peer are constants, shrunk to 1 or
2: each matters by being free or full, and with two Calls both happen, as do two
frames of different Calls in one queue. `MaxPending` 1 makes the limit of a
Call's registration bite. Two Calls of one end let requests, cancels and replies
overtake each other; Calls of both ends at once are in `PeerOpen`, whose remote
repeats its one request ID, which fills the only slot also while an earlier handler
of it has still to give it back. `PeerLifecycle` has one Call inside another, the
deepest the SDK nests them unless a host calls from within its answer; its method is
`prepare`, which like `run` and `cleanup` is given a Host. Two invocations are enough for `TryLock` to
fail and for a request to be decided while another leaves; a third would only be
refused alike. Three requests cover a handshake with two executes, an execute and
its cancel, or an execute and a shutdown. Unit numbers go beyond the limit of
the run whose units are unset and sizes beyond every limit by one; chunks of 2 with a limit of 3 make resources that
are empty, that end on a chunk boundary and that do not. A frame of the reader's limit,
header and payload, just fills the stream of `FrameStream`, and one over that limit
does not fit, so that writes stop half way; base 2 makes every header a possible
payload. In `Package` the texts are all those of up to three of six characters
behind a core, and of up to two behind whole and broken cores, which has every
production of the grammar fail and hold; only the first few are used while the
executable changes. Two changes suffice for a manifest whose settings are of one
build and whose digest of another, and for a name that changed hands twice. Only
`PeerSafe` and `Lifecycle`, which have no liveness property, use symmetry.

`CHECK_DEADLOCK FALSE` is set in every cfg: a closed peer, a server that returned
and a finished transfer stop, and no request need arrive.

**Fairness.** Weak fairness of each goroutine's own steps: the Go scheduler runs
a goroutine that can go on. Nothing makes an owner close, a context end, a
request arrive, a provider call back or the action server's host write. The timers
of the code (one second for an acknowledgement, five for a reply, the deadline of
a request) make their alternatives enabled and so, with fairness of the goroutine,
make it go on. `OpenFairSpec` adds that a request's deadline
passes and that a handler whose context has ended returns; `PeerLifecycle` the same
of deadlines and of provider methods, and that the end of a context reaches those
derived from it: a method may wait for ever while its context lasts, and the host
owes no answer to a callback. There every Call is made once, so that every behaviour
comes to rest and one weak fairness condition on the goroutines of each module is
that of each goroutine; its properties say where it rests (`<>[]`). `OcrWorker` adds
that the factory and the recognizer return;
`ActionServer` that the host reads and that an execution returns once its context
has ended, which its deadline brings about; `Transfer` that the host answers.
No run uses strong fairness.

### What the violated runs show

* `LifecycleOldHost`: the check in `invoke` and the call it guards are apart
  (`server.go:33`, `43`); a callback of a run is sent during the cleanup, against
  `docs/special-protocol.md:15`. `AtMostOneStaleCallback` bounds it: one per helper.
  It carries the epoch of its phase, by which a host can refuse it.
* `ActionContext`: `Serve` is blocked in `ReadFrame` when its context ends, against
  the comment at `pluginapi/server.go:33`.
* `OcrCancelled`: a context that ends during an initialize or while the image is
  read is answered as a failed result, not as an error, against
  `docs/ocr-contract.md:32`.

Two more places where the documents say more than the code does, without a run of
their own. After an initialize that failed with a recognizer in hand
(`handler.go:63`), recognize passes with an empty or an old identity;
`docs/ocr-contract.md:44` wants that of the successful initialize. `PassedIsTrue`
says how far this goes: the identity reported is then none, or one that an earlier
initialize did pass with and whose model is closed; if the initialize of the model in
use passed, it is that one's. A factory that never returns both avoids it. And `ActionServer` takes a frame cut short for the end of the input
(`server.go:55`): `EndMissesOnlyHeader` shows that the reader could tell the two
apart except where the cut is just behind a header, when `io.ReadFull` of the
payload reports a plain end.

`WritePackage` writes packages that no host loads, of an executable over 512 MiB for
one. No document says otherwise, and `WrittenLoads` states them as what they are:
a package of an executable nobody touched is refused in four cases and in no other.

## 4. Proofs

Eight modules prove their theorems for every value of the constants. Each has the
same shape: an invariant `IInv` that is inductive, `InitIInv`, `StepIInv` with one
step or lemma per action and one leaf per conjunct, `Invariant`, and the properties
as its consequences. Each `IInv` was first checked by TLC. Together the theorems state
every safety property of the runs that pass, and all three refinements.

Where a claim is about data of any length, the bytes of a header, the characters of a
text, the digits of a number, the induction does not go by a theorem that takes the
claim as a parameter. It goes by the least element of a set of numbers: those for which
the claim fails, or at which a loop may stop. What recursive functions compute is so
proved of `Header`, `Size` and `Value`, and what the loops of `Compare` find of every pair
of versions.

They rest on the assumptions of the modules alone:

| Assumption | Says |
| --- | --- |
| `PeerAssumption`, `LocalAssumption` | two ends; finitely many Calls; capacities of at least one |
| `LifecycleAssumption` | `Inv` is finite, nobody and no run is `None`, the units of a run are integers, `MaxUnit` is a natural number |
| `CompositionAssumption` | the Calls are the host's and the provider's, from different ends; `None` is no Call |
| `ServerAssumption` | finitely many requests; `None` and the loop are two and none of them; the limit on executions is at least one |
| `OcrAssumption` | `None` is no call, every call is of one of three kinds |
| `ResourceAssumption`, `TransferAssumption` | limits and chunk sizes are natural numbers, and a chunk of `PutResource` is not empty |
| `PackageAssumption`, `ManifestAssumption`, `VersionAssumption` | versions, and those they are compared with, are sequences of code points; builds for the host are builds; no file is `None`; the limits on changes and on a version's length are natural numbers; neither a missing nor a torn manifest file is a manifest |
| `FrameAssumption`, `HeaderAssumption` | limits, base and capacity are positive, and the largest size the writer may send fits in a header: nothing is left of it without its last `HeaderLen` bytes |

**Lifecycle.** `IInv` is the conjunction of

* `TypeOK`;
* `GateInv`: exactly the goroutine that holds the gate is between `Lock` and
  `Unlock`. `OneProviderMethod` says only that no two are in the provider, which a
  step of `Unlock` could break were the gate not tied to its owner;
* `StateInv`: `state`, which decides what is admitted, agrees with what the provider
  has seen, also in the states a panic leaves behind;
* `RunInv`: `lastUnit` counts the runs, and they are of the frozen run and within
  its limit. A panic changes `state` and not `lastUnit`, so that the count must be
  related to what was entered and not to what succeeded;
* `MethodInv`: the method in the provider is the one `state` was set for;
* `HostInv` and `StaleInv`: an open Host is of the phase that holds the gate; a
  helper past its check has not been counted as stale, one that has been is revoked.

`TypeCorrect`, `MutualExclusion`, `UnitsAreUnique`, `HostWithinPhase` and
`StaleCallbacksBounded` follow; `OneRun` and `PanicLeavesCleanup` are action
properties, each a consequence of `IInv` and a step. `Refinement` shows that
`Lifecycle` implements `RunContract`: the initial state maps to an initial state,
and, given `IInv`, each `Enter` and `End` action is the step of the contract of the
same method, every other action a stutter.

**OcrWorker.** `IInv` is `TypeOK`, `NothingLeaks`, and

* `MutexInv`: a call is past its `Lock` exactly while it holds the mutex, so that
  everything it found under the lock still holds when it goes on;
* `StageInv`: a call is at a stage of its own kind, and finds a recognizer, or none,
  as `Lock` did. `InUseIsOpen` is this together with `NothingLeaks`;
* `ModelInv`: the identity kept is of the recognizer kept if that one's initialize
  passed, and always of an initialize that did; `UseInv`: what a recognition used is still there when it writes;
* `FileInv`: the file is of the call that is writing it, or of one that has returned;
* `IdentityInv` and `WholeInv`, the halves of `PassedIsTrue`: also after an initialize
  that failed with a recognizer in hand, and behind a later write that is torn.

`TypeCorrect`, `NoLeaks`, `NoUseAfterClose` and `TrueResults` follow.

`PhasesShareRun`, which `OneRun` proves, is in no run: it is part of what the
contract of `ImplementsContract` says.

**Peer.** What is on its way from one end, `InTransit`, is what the other has in hand,
the wire and the queue of the writer, which is lost when its end closes. `IInv` is
`TypeOK`, `SlotAccounting`, `NeverDuplicates`, and

* `CallInv`: what a Call knows agrees with where its handler is: none was started
  before the request was queued, and it is over when a reply is there;
* `TransitInv`, for either direction: every frame in transit finds the other end as it
  should (`FramesOK`: a request finds no handler, a reply a handler that is over and
  an empty channel); no request or reply is there twice (`Unique`); a cancel for a
  handler that was never started is behind its request (`CancelsBehind`); and a request
  that was sent is in transit until its handler starts (`Sent`), as long as neither end
  is closed. `CancelBehindRequest` alone is not inductive: a Call may only cancel
  because its request is still in transit or has been dispatched, which is `Sent`,
  and a dispatch must not take that request twice, which is `Unique`;
* `SweepInv`: the reader of a closed end has one frame at most, and none once it has
  started a handler behind the sweep.

A step either moves a frame on, adds one, takes the first or cuts off the queue; the
lemmas `SteadyCut`, `SteadyAdded` and `Taken` keep the order for each, whatever the
action. `TypeCorrect`, `Slots`, `Duplicates`, `CancelBehind` and `MissedByOneClose`
follow, and `Refinement`, that two peers implement `RpcContract`.

Most of this does not hold against any remote: a foreign one repeats requests and cancels what
it never asked. What `PeerOpen` keeps is `OpenInv`: typing, `SlotAccounting`, `SweepInv`, that the
remote asks under IDs of its own, and that a reader which refused a frame has closed its
end and has nothing in hand. Types, slots and the sweep are lemmas about single actions,
shared by both (`SideTypes`, `HandlerSlots`, `DispatchSlots`, `SweepKept`). `OpenSlotsOwned`,
`OpenMissedByOneClose` and `RefusalIsFinal` follow.

**PeerLifecycle.** `BothParts` shows that each step of the composition is a step, or
none, of `Peer` and of `Lifecycle`, so that all theorems about the two hold of it.
`SharedInv` ties them: a request is with `Serve` as long as its handler goroutine runs,
and the slot is held on the way from `TryLock` to `Unlock`. With `Peer`'s `CallInv`, by
which a Call that came back has a handler that is over, `FreeOnReturn` follows.
`ContextInv` ties the contexts: from the arrival of a request to its `Revoke`, its context
has ended exactly if the peer has cancelled the handler, and a Host still of a phase has
the context of that phase. It rests on what a step of the peers does to handlers
(`OneStarted`: it starts one at most, not cancelled, and then cancels none, and no
cancellation of a running handler is taken back). `HostsEndWithHandlers` follows: what a
provider may do with its Host depends on the handler at the peer and on nothing else, so
that no cancel frame, deadline or close passes it by and none comes early (it is in no run,
but held in the instance of `PeerLifecycle`). `ServeTakes`
adds that `Handed`, by which the two share a step, holds no step of the peers back: a
handler that starts finds its place at `Serve` idle, and a context that ends was open.

**ActionServer.** `IInv` is `TypeOK`, the three safety properties, and

* `LoopInv` and `StartedInv`: the request of the loop has an ID that was seen and that
  no goroutine has; goroutines start after the handshake only, so that the semaphore
  it installs is empty;
* `MutexInv` and `SemInv`: `writeMu` is held exactly between the two writes of a
  response; the goroutines that hold a token are as many as `sem` counts;
* `FrameInv`: the last header is without payload as long as its writer has the mutex,
  and for ever once the pipe broke in between;
* `AnswerInv`: who still owes a response has written no header.

`TypeCorrect`, `AnsweredOnce`, `FramesWhole`, `Quiet` and `Bounded` (no more executions
than the handshake allows, which no run lists) follow.

**Transfer.** `PutInv` says what is committed at each stage, and that a put that
succeeded had compared it with the data; `ReadInv` that the cursor counts what was
written, save for a chunk whose write failed, and that no more is written than the
receipt announced. `CommitsLast`, `Announced` and `RoundTrips` follow.

**FrameStream.** That the bytes between the two ends are those of the frames sent and
not yet got cannot be said by a recursive definition, which could not be reasoned about.
`InStep` says it with a tape: there are a function from positions to bytes and the places
at which frames begin on it (`Laid`: header, payload and the next place of each frame
ever begun), such that the stream and the reader's buffer are the piece between the
reader's place and the writer's. A write makes the piece longer, a read moves a byte
into the buffer, and a new frame extends the tape where nothing has been written. `WriterInv` says that what is left to write ends
the header or payload being written. From these a header the reader has completed is
that of the frame it is at, its size is right by `SizeOfHeader`, an induction over the
bytes of a header, and what it then takes is the payload: `Refinement`. The conjunct that the input ended only where the
stream was cut gives `EndIsTrue`.

**OcrPackage.** `IInv` says which files exist and which are open, that what was hashed
is what the open file holds unless it was rewritten meanwhile, and what the manifest
was made from; for an executable nobody touched, that there is one file and all of
these are about it, and that a load which is past one of the four checks that
`WritePackage` has not, or refused at it, has found that trait or limit so. `OneBuild`
and `WrittenIsLoaded`, which is both directions of `WrittenLoads`, follow. `VersionInv` says which
versions have come past `Parse` at each stage: a package that is being written, one that
was loaded. With what follows on `Semver` it gives `ParsesGrammar` and
`ComparesByPrecedence`.

**Semver.** Three theorems say of every text of every length what the run checks of some:

* `ParsesIsInGrammar`: `Parse` cuts a text at its first plus, at the first hyphen before
  it and at dots; the grammar only says that there is a division into core, pre-release
  and build. That the two agree needs that the division is unique (`DivisionIsUnique`:
  neither a number nor a dot is a hyphen, and no identifier has a plus) and what the
  pieces of `Split` are (`Ranks`, `SplitAt`: a piece is what is between one separator and
  the next, in the order of their ranks).
* `CompareIsPrecedes`: `Compare` compares numbers by their length and then as texts once
  zeros are trimmed, the precedence compares their values. `ValueDef` gives the value
  digit by digit, `FirstDigit` and `FewerDigits` that the first digit that differs, or
  else the number of digits, decides. The loop over identifiers stops at the first
  that differ (`FirstDifference`), and `Decides` says in one piece that a result is that
  of either order and of no other, so that equality means the same version but for builds.
* `PrecedesIsTransitive`: two lexical orders, of the core and of the pre-release, over
  orders of their parts (`LexicalTransitive`). With the second theorem, `Compare` is a
  total order of versions but for builds.

Only model-checked:

* every liveness property, since fairness and ENABLED are out of the prover's reach:
  `OpenHandlersEnd`, `OpenCallsEnd`, `CallsReturn` (of both runs), `CloseSpreads`,
  `ProviderLetsGo`, `LeavingReturns`, `CancelledIsReleased`, `TransferEnds`;
* the three violated properties.

No module declares a recursive operator.

## 5. What is not modelled

* JSON, and the content of methods, manifests, reports and commands; `Decode` and
  validation appear as a refusal that may happen, except that of versions. The
  manifest and command of a special plugin, the message and domain types and
  `plugintest` are such checks and data, without a state that outlives a call.
* `Stdio` and the package root, which hand calls on to the operating system.
* A host that calls back into the plugin while it answers a callback, and several
  plugin instances: they share nothing.
* Process crashes: the SDK persists only the package manifest, whose torn state is
  `OcrPackage`'s; elsewhere a crash is the closing of the stream, which every model
  has. `result.json` is overwritten by every recognition and is the host's to read in
  time (`docs/ocr-contract.md:44`); no host of the OCR worker is modelled.
* That the slot of a handler is given back after its reply was queued
  (`peer.go:198`) is in the model; that a caller which counts its replies may so meet
  a full set of slots is what the code does, and no property says otherwise.

## 6. Plan

All that the first plan named is modelled, checked and, where it is a safety property,
proved. What would be worth adding is the composition of `OcrWorker` and `ActionServer`,
as `PeerLifecycle` is that of `Serve` and its peer.
