# Verification of Quetz

Quetz couples QEMU, which runs the guest, to SST, which simulates time, memory
and devices. The two are separate processes that share one memory segment. This
directory holds TLA+ models of the parts where that coupling can go wrong, the
TLC configurations that check them on small instances, and TLAPS proofs that
hold for instances of any size. Every invariant, action property and refinement
that a passing run checks is also proved.

Contents: [the system](#the-system), [modules and code](#modules-and-code),
[runs](#runs), [fairness](#fairness), [proofs](#proofs),
[disagreements](#disagreements-between-code-and-documents),
[what is not modelled](#what-is-not-modelled), [plan](#plan).
`PROJECT.json` maps every definition to its source lines and lists the hazards
with the properties that would catch them.

## The system

| Part | Source | Module |
|---|---|---|
| Synchronous MMIO mailbox (one slot per vCPU) | `quetz_ipc_client.c`, `quetz_ipc_lock.h`, `quetz_mmio_sync.h`, `quetzcpu_mmio_sync.cc` | `MmioMailbox`, abstractly `MmioService` |
| IRQ level mailbox | `quetz_mmio_sync.h`, `quetz_ipc_client.c`, `sst_mmio_bridge.c` | `IrqMailbox` |
| Window cache of a vCPU | `quetz_window_cache.h` | `WindowCache` |
| CPU reset and the bank of caches | `quetz_window_cache_bank.h`, `quetz_ipc_client.c`, `quetzcpu_mmio_sync.cc` | `CacheReset` |
| Trace plugin, command ring, event pipeline, CPU tick, QEMU process | `qemu_plugin/`, `quetz_pipeline*.cc`, `quetz_mem_issue.cc`, `quetzcpu.cc`, `quetz_launcher.cc`, `quetz_qemu_frontend.cc` | `TracePipeline` |
| Region table and handlers | `quetz_region_handlers.cc`, `quetz_region_handlers.h` | `TracePipeline` (`FindHandler`, `PassiveAction`, `HandlerAction`) |
| Accelerator port for balar | `quetz_balar_accelerator_port.cc` | `BalarPort` |
| GPU device | `quetz_gpu_device.cc` | `GpuDevice` |
| Stream device, sink device, the firmware's drain loop | `quetz_stream_device.cc`, `quetz_sink_device.cc`, `tests/sysmode/firmware/` | `StreamDevice`, `SinkDevice`, composed in `StreamToSink` |
| Address arithmetic | `quetz_memory_span.h`, `quetz_balar_flush_range.h` | `AccessSplit` |
| MMIO of user-mode guests | `linux-user/sst_mmio.c` | `UserMmio` |
| Layout of the shared segment, native RAM | `quetz_ipc_types.h`, `quetz_ipc_client.c`, `quetz_config.cc` | `SharedSegment` |

How they interact. A guest instruction reaches SST on one of two paths. The
plugin traces it: compute runs and memory accesses go through a ring to the
vCPU's pipeline, which stalls, filters and issues them to the memory system. Or
it faults on an aperture: the QEMU thread blocks in the mailbox until SST has
answered. SST's clock handler first polls the mailboxes, then ticks the cores,
then lets accelerator ports forward doorbells, then looks at the QEMU process. A
mailbox request is served by a window cache, by an accelerator port or directly
by a device. Devices answer with interrupts, which travel through the IRQ
mailbox to a timer callback in QEMU. A user-mode guest reaches the mailbox
through a signal handler instead of a device. All of it lives in one segment,
which SST lays out and QEMU checks when it attaches.

## Modules and code

**MmioMailbox.** One action is one access to shared memory: taking the lock, each
store of the request, the publication, SST's load of `pending`, its copy, its
dispatch, the stores of the response and each futex sleep and wake. SST's four
loads of the request fields are one step, which `RaceFree` justifies: nobody
stores to them meanwhile. A call is the pair of its producer and its number, and
SST's answer to a call is the call, so a mixed-up answer is visible. Cache
operations of the plugin (`cb_cache_op`) are a second kind of producer.
`MmioService` is what a caller is promised; the mailbox refines it
(`ImplementsService`): a call executes when SST takes it out of the slot and
returns when its value is read.

**IrqMailbox.** The three stores of `postIrq` against the loads of
`quetz_ipc_irq_drain` and the loop of the bridge's timer callback. Counters wrap
at `SeqMod`. SST is taken to post fewer than `SeqMod` (2^32) changes between two
complete scans.

**WindowCache.** `access`, `movec`, `push` and `reset` start a transaction; the
`next...` and `complete...` actions are the branches of `next` and `complete`.
Data is kept per word. An ACR is the set of lines it matches. `arch` is what the
program wrote last; `careful` says whether it has kept the rules of a cache
without coherence (no invalidation of dirty data, no change of mode over cached
lines and so on), and the data properties are conditional on it.

**CacheReset.** The epoch a board reset bumps (kept by QEMU until it has
attached), the two loads of the poll (epoch, then `pending`), and the backing
requests of open transactions. The cache is reduced to "on" or "off".

**TracePipeline.** The life of the QEMU process (spawn, attach or early death,
exit, crash at any moment, disappearance, kill), the plugin's run coalescing and
blocking ring writes, and `QuetzCPU::tick` split into its steps: poll, refill,
issue, next core, process, child check. The guest's threads run between any two steps.
`SingleThread` is `tcg,thread=single`. An access is classified by the first
region that holds its address, and is a number of requests (`Slots`) with a
cursor. The plugin counts instructions precisely or one block late
(`Accounting`), which decides where a run ends. A guest's access to SST goes to the
accelerator port, which may turn it into a posted operation, or straight to
another device; either holds the end of the simulation open (`Holds`). Programs are
finite, and the alphabet includes stores to the test finisher.

**BalarPort.** Doorbells held until the pipeline is drained and the packet
flushed, the SUBMIT queue of posted offloads, the aperture's registers, its
refusals and the failures of a flush. The mailbox and the pipeline appear as what
the port sees of them. A core issues what its guest has put into the pipeline
(`Feed`), is answered (`Settle`), and may halt at any moment (`Halt`: EXIT,
`max_insts`, the test finisher), also in the middle of a packet and while its
guest waits; the guest goes on. `Drained` is the code's `isDrained` on this state.
It and `TracePipeline` meet in one assumption: the drain test of a core that has
not halted is true only when what its guest wrote has been issued, which is
`PacketFirst` there.

**GpuDevice.** The device state is a record and each function of the device an
operator on it, so a handler is the composition the code has. Both modes, DMA
windows, rejections, counted completions, the held doorbell and the hold on the
simulation. Doorbell writes are the non-posted ones that the CPU, the pipeline and
the accelerator port send.

**StreamDevice, SinkDevice, StreamToSink.** The i-th byte of the stream is the
number i. The composition adds the refill clock, the link that carries level
events, and the ColdFire drain loop, one action per register access, with a
guest that may also acknowledge early, flush, and start over. Like the firmware,
the guest takes every word that it pops: STATUS above zero does not mean that a
whole word is ready, and a pop that comes too early returns zeros. How often that
happens depends on the guest's speed and is bounded by `MaxEarly`; at the bound
the guest pops only after the next refill, which comes, so the bound cuts off no
behaviour's end.

**AccessSplit.** The helpers as operators on machine words that wrap at `Top`,
with the loops that call them on the cached path; the reference is integer
arithmetic. An access on the MMIO path is one request and is not split.

**UserMmio.** The aperture arguments and their reservation, then one faulting
instruction after the other: the decoders' field tests for RV64 and m68k, the
handler's early returns, the request it makes, and what it does to registers,
flags, program counter and signal mask. An access may come from an instruction, from
a helper or from a fetch, and some of the bytes from the program counter on may be
unreadable (`TextRead`). The reference (`Supported`, `IsaStored`
and so on) is written from the instruction sets, with bytes of `B` values.

**SharedSegment.** Parsing and placing the native regions, the header checks of
an attach at another address, and the addresses both processes compute.

## Runs

| Run | Module | Instance | Distinct states |
|---|---|---|---|
| `mailbox` | MmioMailbox | 2 producers, 2 mailboxes, 2 calls each | 169 thousand |
| `irq` | IrqMailbox | 2 vCPUs of 2 lines, output array of 2, counters modulo 4 | 394 thousand |
| `cache` | MCWindowCache | 3 lines of 2 words in 1 set of 2 ways, 2 writes | 3.6 million |
| `reset` | CacheReset | 2 vCPUs, 2 resets each, 2 backing requests | 292 thousand |
| `gpu` | GpuDevice | 2 initiators, both modes, queue of 2, DMA of 4 and 3 in a window of 2, 5 doorbells | 33 thousand |
| `trace_stream` | MCTracePipeline | 1 vCPU, all programs of up to 3 events with at most one unusual access and of 4 ordinary ones, both accountings, ring and queue of 2 | 1.7 million |
| `trace_exit` | MCTracePipeline | 2 vCPUs on one thread, 2 instructions in all, of which one may be a doorbell or a store to the test finisher, ring and queue of 1, with and without `max_insts`, all ways the process can end | 120 thousand |
| `balar` | BalarPort | 2 vCPUs (one with a cache interface), 4 operations, depth 3, packets of 0 or 2 lines, halts at any moment | 3.6 million |
| `stream` | StreamToSink | 10 bytes in refills of 3, 4 or 5, 1 rewind, 2 early pops, sink cap 17 | 32 thousand |
| `addresses` | MCAddresses | all accesses in 16 bytes, 6 line sizes; pairs of apertures in 32 bytes, every decoded form at offsets around two apertures; pairs of native regions, two mapping addresses | 125 thousand |
| `reset_window` | CacheReset | 1 vCPU, 1 reset | violation |
| `trace_partial` | MCTracePipeline | 1 vCPU, `max_insts` 1 | violation |

What they show:

- `mailbox`: whoever is past the lock has the slot to itself (`ExclusiveSlot`);
  a call gets its own answer (`OwnAnswer`) and is dispatched once
  (`ExactlyOnce`); plain fields are never accessed from both sides (`RaceFree`); a
  cache operation never finds its mailbox in use (`MailboxFree`); the whole refines `MmioService`; and no wake is lost (`CallReturns`). Two
  producers on one slot give the contended lock, two slots give a poll that
  overtakes, a second call meets what the first left behind. A second sleeper on
  one lock needs three producers; with one call each (`MaxCalls` 1, 433 thousand
  states, six minutes) all properties hold too.
- `irq`: when the drain has caught up, the interrupt controller has the last
  level of every line (`NoLostChange`), and a level left in place gets there
  (`EventuallyApplied`). Two lines and an output array of two fill the array;
  modulus 4 wraps every counter.
- `cache`: a line is cached once; a careful program reads what it wrote last
  (`ReadsLatest`) and nothing it wrote is missing (`NothingMissing`); locked ways
  neither lose nor take a line except by the program's own push or invalidation
  (`LockedStay`); every step of a transaction lowers a measure
  (`TransactionShrinks`). Three lines for two ways force evictions, two words to
  a line give partial writes and accesses across lines.
- `reset`: transactions do not overlap, resets reach the cache and calls return
  (`Progress`), and the only way a reset goes wrong is a request served between
  the poll's two loads (`OnlyTheWindow`). `reset_window` shows that way.
- `gpu`: an idle device has nothing unfinished (`IdleMeansDone`), an
  acknowledgement loses no completion (`CompletionsCounted`), completion means
  that the result is in memory (`ResultBeforeSignal`), every doorbell ends
  (`Retires`). Both DMA sizes exceed the window and are no multiple of each
  other; five doorbells overflow the queue.
- `trace_stream`: at every moment consumed events, queue, run in expansion, ring,
  callback and open run are together exactly what the vCPU executed (`Stream`);
  a doorbell is forwarded only after the accesses before it (`PacketFirst`).
  Runs are longer than the queue, accesses have more requests than may be
  outstanding.
- `trace_exit`: the simulation ends once the process has ended in any way or
  every core has halted and the devices are done (`Ends`), with the right verdict
  and without leaving QEMU running (`TrueVerdict`). Rings of one message make every
  write block. The guest's exit is enough too, with one exception that `Ends` names:
  a core halted by `max_insts` or the test finisher before its EXIT reads its ring
  no more, and `cb_atexit` may wait for it for ever (`Wedged`; see below).
- `trace_partial`: with `max_insts`, a halted core counts as drained and its
  doorbell is forwarded over a packet that is still in the discarded trace.
- `balar`: the device finds the packet in memory, unless the core halted before
  it had issued all of it (`PacketInMemory`), counters and
  queue agree (`Accounting`), a blocked vCPU is owed exactly one response
  (`Awaited`), a ticket join is sound (`JoinMeansDone`), the simulation outlives
  every submit (`HeldOpen`). Four operations suffice to hold, queue and run
  three and to be refused a fourth.
- `stream`: the line is a true level (`LineIsLevel`), the file is the flushed part
  of the capture (`FileIsCapture`), and the loop ends, with no lost wake-up, with
  the stream in the file in order (`Drains`): exactly the stream, padded to words,
  when refills are whole words; with words of zeros in between otherwise, which
  cost no byte of the stream unless the cap cuts the file, and never come last.
  Refills of 3 and 5 give early pops; 10 bytes end in a padded word; cap 17 cuts a
  word in two after two early pops and nothing after one. With cap 9, which cuts
  every file, the run passes too.
- `addresses`, three sequential parts that share no state. Splitting: requests
  and flushed lines cover their bytes within cache lines (`Covers`) and exactly
  what does not fit is refused (`RefusedExactly`), over every input near the top
  of the address space. User mode: apertures are disjoint and each reserves
  pages of its own (`RangesSound`); a handled access does what the instruction
  set says with one request for the bytes addressed, and everything else is left
  to the guest unchanged, never a supported access of an instruction that lies in
  an aperture, but for a compressed one with unreadable bytes right behind it
  (`ActsLikeIsa`). Segment: both processes find each guest
  byte in the same place and no two share one (`OneView`); an attach succeeds
  exactly on the layout that SST made (`AttachesExactly`).

Deadlock is not checked where the system stops: a simulation that has ended, one
that SST aborts, or a sequential part at the end of its input. It is checked in `mailbox`, `irq` and `cache`.

## Fairness

- `mailbox`: a QEMU thread inside a call keeps running; it is not assumed to win
  the lock, and no futex timeout is assumed to fire, so liveness rests on the
  wakes. SST polls every slot in every tick and memory answers every request:
  strong fairness of both per slot, since other slots' steps disable them in
  between.
- `irq`: SST finishes a post it began; the timer callback runs and is re-armed.
  Nothing makes SST post.
- `reset`: the clock handler runs; responses arrive; a woken thread returns.
- `gpu`: the clock ticks while registered; memory answers.
- `trace_exit`: host threads and SST run; memory, accelerator and devices answer,
  and posted operations complete (strong fairness, since ticks come in between).
  The guest need never exit and the child need never end; `Ends` speaks of runs in
  which it does.
- `stream`: the guest runs, the refill clock ticks, link events arrive. Rewinds
  are bounded; an acknowledgement or a flush that has nothing to do changes
  nothing, so repeating it is not progress of the guest.

`cache`, `balar`, `trace_stream` and `addresses` are checked without fairness. In
the first two, a decreasing measure and an invariant that names the source of
each awaited response stand in for liveness.

## Proofs

Each proof is for every value of the constants; their assumptions are the named
`ASSUME`s of the component's module. The invariants (`IInv`) were checked with
TLC on small instances before they were proved.

**Mailbox** (`MmioMailboxProofs`, first part). For any set of
producers, any set of mailboxes and any number of calls: `TypeCorrect`,
`MutualExclusion`, `ReturnsOwnAnswer`, `DispatchedOnce`, `NeverInUse` and
`NoDataRace`. Assumed: `None` is no call, pair of calls or mailbox, and the
number of calls is natural.

`OwnAnswer` alone is not inductive: that a value read is the caller's own depends
on SST having copied the caller's request, on nobody having touched the slot
since, and on the slot having been clean when the caller took it. `IInv` says
this by the owner's program counter: while publishing, the slot is quiet; while
waiting, its request is asked, being worked on, or answered, and each of the
three fixes the flags, SST's position, the copied request and the dispatch count;
a free slot is quiet; earlier calls were dispatched once and later ones never.
The argument is a frame argument. A producer changes only the slot it owns
(`OwnerFrame`, `OutsideFrame`); SST changes only a slot whose owner waits
(`OwnerWaits`, `SstFrame`); so each action needs work only for one producer.

**Refinement** (`MmioMailboxProofs`, second part). `Refinement`: the mailbox implements
`MmioService`. Under the mapping `stageBar`, `inServiceBar` a call is asked until
SST clears `pending`, executing until its response is posted, answered until its
value is read. Six steps of the protocol are steps of the service; for every
other one the stage is shown not to change, which for SST's steps needs the
mailbox invariant: only the owner of the slot is in a stage they could move.

**IRQ mailbox** (`GuestSideProofs`, first part). For any number of slots, any output
array and any modulus above one: `TypeCorrect`, `NothingLost`, `BridgeSurvives` and
`CountersComparable`. The difficulty is that neither side locks and the counters
wrap. `WrapSafe` bounds how far a slot's sequence number is ahead of its shadow
by how far the generation is ahead of the client's; `ScanInv` gives the same for
the slots a scan has passed and the generation it loaded first; `LevelInv` says
that a slot that has not moved has its level in the controller or in the drained
changes. When generation and shadow agree, the bound is zero, so no slot has
moved. Arithmetic modulo `SeqMod` is confined to four lemmas on `Ahead` and
`Bump`.

**Reset** (`WindowCacheProofs`, first part). `ResetsFollowed`, for any number of vCPUs,
resets and backing requests. `OnlyTheWindow` does not speak of requests still pending
or of resets not seen yet. `Good` adds the phase of a vCPU's call, the relation
of QEMU's, the shared and SST's epoch, and, as long as no request was served
late, that the cache has the program's control state whenever the epochs agree
and is off for the program while they do not.

**Window cache** (`WindowCacheProofs`, second part). For every geometry, window, set
of control values and ACRs: `TypeCorrect`, `CacheInvisible` (`ReadsLatest`), `NoWriteLost`
(`NothingMissing`), `LockHeld` (`LockedStay`) and `TransactionsEnd`
(`TransactionShrinks`). Assumed: the four sizes of the geometry are positive
(`GeometryAssumption`), and control values and ACRs have the fields that the
model decodes from the registers (`ControlAssumption`).

What a read returns is fixed long before the read, so `IInv` speaks of every word
at every moment of a transaction. `Data`: while the software has kept the
discipline, a word is as written last in the line that caches it, and in memory
unless that line is dirty (`Sound`); the words of a write that are still to be
stored are in its buffer (`Unwritten`). `Disciplined`: the modes of the lines of
the access still allow it. `Requested`: what each backing request was issued for,
so that its completion finds the line, the way and the mode it was decided on;
for a write-through it also says that the line already holds the chunk.
`Extent`: the access stays within the window. The lemmas cut an access at line
boundaries once (`ChunkFits`, `ChunkWords`, `TwoLines`) and say which words a step
leaves as they were (`SameWords`, `DropSound`); every branch of `next` and every
completion then has a lemma of its own. The measure of `TransactionsEnd` falls
with the words left or, within a chunk, with its stage; that an eviction makes
room needs the victim to be the way just emptied or another clean one
(`RoomMade`).

**Doorbell device** (`DeviceProofs`, first part). For every queue limit, DMA window,
buffer size and mixture of latencies: `TypeCorrect`, `NoLaunchStranded`
(`IdleMeansDone`), `NoCompletionLost` (`CompletionsCounted`) and
`SignalledAfterResult` (`ResultBeforeSignal`). `Ledger` accounts for every
accepted doorbell: retired, rejected, running or queued. `Due` does so for
completions, with the number that a handler has still to raise as a parameter.
`Dma` gives for each phase which chunks were asked for, arrived and written
(`Transfer`). A handler retires a run of launches of latency zero at once; the
parts of `IInv` are predicates of a device state, so that they can be asserted of
the states inside the handler, and `ZerosExist` names the end of such a run.

**Accelerator port** (`BalarPortInvariant`, `BalarPortProofs`, first part). `PacketsReachMemory`,
`CountersAgree`, `OneAnswerDue`, `TicketsJoin` and `SubmitsHoldTheEnd`, for any
finite set of vCPUs, any packet size, any depth above zero and any number of
commands. `Good(v)` has five parts. `Phase`: a command is in the mailbox, armed,
being flushed, sent or a pending read, and each phase says what of its packet is
visible, or that its core halted before it had issued the packet (`CutOff`, which
is stable because a halted core issues nothing). `Data`: what is sent or queued is
in memory or cut off. `Pending`: a submit is done,
held back, queued or at the device. `Counts`: TICKET minus COMPLETED counts them.
`Order`: a ticket is beyond COMPLETED by more than its operation's place in the
queue, which is what makes a join sound when operations retire in order. A step
touches one vCPU; the `Same...` predicates and the `...Kept` lemmas dispose of
the others. A doorbell is forwarded from three places (directly, after the drain,
after the last flush), which `ForwardGood` treats once.

**Stream and sink** (`DeviceProofs`, second part). `LineFollowsData` and
`FileHoldsCapture`, for any file size, set of paces, cap and number of rewinds
and pushes. The line's level and the events under way alternate and end with the
device's own level (`SendEvent`, `HandleEvent`); the file is a prefix of the
capture, so appending the rest of it (`WriteFile`) neither repeats nor skips.

**Trace pipeline** (`TracePipelineInvariant`, `TracePipelineProofs`). `TypesHold`,
`VerdictIsTrue`, `NothingLostOrReordered` (`Stream`) and `PacketBeforeDoorbell`
(`PacketFirst`), for any number of vCPUs, all programs, limits and sizes of runs,
rings, queues and accesses, one host thread or several, either way of counting.
Assumed (`TraceAssumption`): the sizes are positive, and the kinds of events are
distinct.

None of the four is inductive. `TraceInv` supplies the control state. `Control`:
the child, SST's picture of it and the verdict agree at every stage.
`ExitTrail`: an EXIT that was written is in the callback, in the ring or in the
queue until its core halts, and there is none before. `CaughtUp`: when nothing
can write to a ring any more, a refill that the queue's limit did not stop has
read everything or the EXIT; this is what a drained pipeline, and a report of a
missing EXIT, rely on. `Blocked`: a vCPU that has rung has nothing left to write.
`Served`: its pipeline stays empty while the doorbell is served. `Flags`: the
callbacks' flags tell what the last instruction was.

On top of it `Stream` is inductive: every action moves a piece of one
concatenation across a boundary. The concatenation of a sequence of sequences is
the recursive function `Joined`; its lemmas (`JoinedNext`, `JoinedShift`, ...)
are proved once and give those of `Expand`, `Traced` and `Mems`. `PacketFirst`
follows from the two: a drained pipeline has an empty queue, an empty ring and no
run in expansion, and a blocked vCPU has no message left to write; so by `Stream`
what was consumed is what was executed but for instructions of the open run,
which are no accesses, and the accesses (`Mems`) are those of the program.

**Addresses.** The three parts share no state, so each has a specification and an
inductive invariant of its own; division with remainder is confined to lemmas.

*Splitting* (`BalarPortProofs`, second part). `RequestsCover` (`Covers`) and
`RefusalsAreExact` (`RefusedExactly`), for all accesses, lines and address spaces.
The invariant locates the cursor after every request (`TileInv`, `FlushInv`) and
counts the requests left.

*Segment* (`MmioMailboxProofs`, third part). `AttachmentIsExact`
(`AttachesExactly`) and `NativeRamIsOneView` (`OneView`), for all lists of native
regions and mapping addresses. The offsets handed out grow and each region ends
before the next begins, so the map from guest bytes to bytes of the segment is
injective.

*User mode* (`GuestSideProofs`, second part). `ApertureSoundness` (`RangesSound`),
for all lists of apertures: disjointness of an accepted range is the negation of
`Overlap`, and pages follow because every base is a multiple of the page.
`HandlerActsLikeIsa` (`ActsLikeIsa`), for all programs of the three instruction
sets, readable or not, and bytes of any number of values. Assumed
(`GuestAssumption`): an access in a program has the size and, if an instruction makes it, the direction of its
instruction where that is a supported one, and the instruction's own bytes are
readable, which is what the processor does. The invariant (`ServeInv`) is that of the
apertures with well-typed registers and the signal never left blocked. Each
decoder is shown to accept exactly the supported forms and to agree with the
instruction set on length, direction, size and operand (`RvDecoded`,
`RvcDecoded`, `M68kDecoded`); each widening to be the instruction's extension
(`RiscvLoads`, `M68kLoads`, `StoresAgree`, `FlagsAgree`); and the aperture found
for the faulting byte to be the one that holds the access (`FirstTouched`,
`RangeFound`). `HandleStep` and `DeliverStep` put these together.

Only model-checked: liveness, which is outside this prover's reach. What a
recursive definition computes is proved where it is a function on the naturals:
instead of an induction theorem the proofs use that a non-empty set of naturals
has a least element (`LeastNumber`, `Lowest`), which the library's theorem on
minimal elements gives for a set.

## Disagreements between code and documents

Shown by a run:

- `reset_window`: `pollMmioSyncMailbox` loads the reset epoch before `pending`. A
  vCPU that resets and makes its first request in between is served with the
  cache controls from before the reset; SIMULATING-YOUR-SYSTEM.md says that
  control state resets normally.
- `trace_partial`: the comment in the accelerator port says that holding the
  doorbell keeps a partial packet from balar; a core halted by `max_insts` counts
  as drained with part of the packet unread.

Seen while modelling, without a run:

- `quetz_gpu_device.h:275` tells the guest to wait until KERNEL_ID reaches its
  TICKET. A rejected operation advances the ticket counter and not KERNEL_ID, so
  after one rejection that loop does not end. `IdleMeansDone` states the relation
  that holds.
- `quetz_region_handler.h:36` says that a store to the test finisher halts the
  core and ends the simulation. It halts the core; the simulation ends once every
  core has halted.
- A halted core stops reading its ring; `Wedged` in `Ends` is this case. With
  `thread=single`, the thread that runs all vCPUs then blocks on it, so with
  `max_insts` ("after this many guest instructions per vCPU", `quetzcpu.h:182`)
  another vCPU may never get there.
- The async aperture has STATUS at 0x08 and TICKET at 0x20
  (`quetz_balar_accelerator_port.h:134`), which is not the map given in
  `quetzcpu.h:101`.
- `sst_mmio.c:146` says that only register, size and direction matter because the
  fault gives the address. For an access that begins below an aperture and
  reaches into it, the host reports the first byte inside, so the request is not
  for the bytes the instruction addressed. `ActsLikeIsa` excepts this case.
- With `max_insts` or after a store to the test finisher, the guest's exit does not
  end the simulation when a core that has halted leaves its ring full: `cb_atexit`
  waits for room in it, and the EXITs of the later cores come behind.
- With a `pace_bytes` that is no multiple of four, a stream read that wants a
  word while fewer bytes are ready returns zeros although STATUS is not zero.
  `quetz_stream_device.h:50` gives STATUS and EOS as the way to tell, which is not
  enough then; the firmware's drain loop takes the zeros for data, and `Drains` says
  what of the stream is kept.
- `sst_mmio.c:250` reads four bytes of a RISC-V instruction before it knows that it
  is a compressed one; two readable bytes at the end of a page are not enough.
- A process that attaches and ends between the two looks of `waitForChildAttach` is
  reported not to have attached.
- `waitForChildAttach` reaps a child that ended early and keeps its `pid_`, so
  the emergency shutdown that follows signals a process number that is no longer
  its own; `checkChild` clears it first for this reason.

## What is not modelled

- Configuration parsing (native regions apart), platform profiles and QEMU's command line: they fix the
  constants of the models. A refused configuration is an outcome of `Spawn`.
- The plugin's instruction decoders and classifier: tables of bit patterns, which
  a reference definition would repeat.
- Set-up and property checks of the MMIO bridge device, and failing system calls
  of an attach, which fail the attach.
- FFT and scale kernels: floating point. `GpuDevice` models their interface.
- Statistics, logs of the region handlers, the accelerator's event file, build scripts and stream tools:
  nothing in the system depends on what they write.
- In modelled parts: simulated time beyond the order of events, statistics,
  wrong-direction and bad-offset register accesses, and the grace periods of
  `reapBounded`.

## Plan

1. Instantiate `TracePipeline` for the cores of `BalarPort`, in place of `Feed`
   and `Settle` and the assumption on drained vCPUs that have not halted.
2. State for each liveness property a measure that its steps decrease, as
   `TransactionShrinks` does for the cache; that part of it can be proved.
