----------------------------- MODULE GpuDevice ------------------------------
(***************************************************************************)
(* QuetzGpuDevice: a doorbell device with two modes.                       *)
(*   - latency model (no kernel): a doorbell keeps the device busy for a   *)
(*     number of cycles; doorbells rung meanwhile queue up to a limit;     *)
(*   - kernel mode: a doorbell reads the input by DMA, computes, stays     *)
(*     busy, writes the output by DMA and only then retires.               *)
(* Completions raise a level interrupt that counts events; a blocking      *)
(* device holds the doorbell's response until the operation retires.       *)
(*                                                                         *)
(* A handler is one action.  The functions it calls are operators from a   *)
(* device state (a record) to a device state.  busy_until_clk_ is kept     *)
(* relative to gpu_clk_; buffers are counted in DMA requests.              *)
(***************************************************************************)
EXTENDS Naturals, Sequences, FiniteSets

CONSTANTS
    Requesters,      \* initiators on the MMIO link, each waiting for its response
    None,
    Kernels,         \* whether the kernel slot is populated: the cases looked at
    KernelLatency,   \* kernel_latency_
    Latencies,       \* overrides and kernel opinions; 0 is "none"
    MaxPending,      \* kMaxPendingLaunches
    InChunks,        \* DMA requests of the input ...
    OutChunks,       \* ... and of the output
    Window,          \* kMaxOpDmaOutstanding
    MaxSubmits       \* bound on the accepted doorbells

ASSUME GpuAssumption ==
    /\ None \notin Requesters
    /\ Kernels \subseteq BOOLEAN
    /\ KernelLatency \in Nat
    /\ Latencies \subseteq Nat /\ 0 \in Latencies
    /\ MaxPending \in Nat /\ MaxSubmits \in Nat
    /\ InChunks \in Nat \ {0} /\ OutChunks \in Nat \ {0} /\ Window \in Nat \ {0}

VARIABLES
    dev,       \* the device's fields
    blocking,  \* doorbell_blocking_, fixed at construction
    irq,       \* irq_line_ >= 0, fixed at construction
    kernel,    \* kernel_ is set, fixed at construction
    acked      \* completion events consumed so far (history)

config == <<blocking, irq, kernel>>
vars == <<dev, config, acked>>

\* What an operation's arguments lead to: accepted, refused at the doorbell
\* (kernel or range check), refused once the output size is known.
Ops == {"ok", "badArgs", "badOut"}

Init ==
    /\ blocking \in BOOLEAN /\ irq \in BOOLEAN /\ kernel \in Kernels
    /\ acked = 0
    /\ dev = [busy |-> FALSE, left |-> 0,        \* busy_until_clk_
              id |-> 0, submit |-> 0,            \* kernel_id_, submit_id_
              rejected |-> 0,                    \* ops_rejected
              override |-> 0,                    \* latency_override_
              queue |-> << >>,                   \* pending_latencies_
              hold |-> TRUE,                     \* holding_sim_
              held |-> None,                     \* whose response is held
              line |-> FALSE, events |-> 0,      \* irq_pending_, irq_events_
              phase |-> "idle", op |-> "ok",     \* op_phase_, op_args_
              next |-> 0, out |-> {},            \* DMA requests issued, in flight
              got |-> {}, written |-> {},        \* input received, output in memory
              last |-> "none", fatal |-> FALSE]  \* how the last op ended

-----------------------------------------------------------------------------
(* Functions of the device.                                                *)

\* hasOutstandingWork
Work(d) == d.busy \/ d.queue # << >> \/ d.phase # "idle"

\* The value STATUS reads as.
Status(d) == d.busy \/ d.phase # "idle"

\* updatePrimaryHold
Hold(d, mayEnd) == [d EXCEPT !.hold = Work(d) \/ (@ /\ ~mayEnd)]

\* Faulty variant: an event is counted only when it raises the line.
RaiseUncounted(d, n) ==
    IF ~irq \/ n = 0 \/ d.line THEN d ELSE [d EXCEPT !.events = @ + n, !.line = TRUE]

\* raiseIrqOnRetire, for n retirements in a row.
Raise(d, n) ==
    IF ~irq \/ n = 0 THEN d ELSE [d EXCEPT !.events = @ + n, !.line = TRUE]

\* The held doorbell response, if any, is sent.
Release(d) == [d EXCEPT !.held = None]

\* Faulty variant: the device goes idle without releasing the doorbell.
RejectSilently(d) ==
    Hold([d EXCEPT !.phase = "idle", !.busy = FALSE, !.left = 0, !.out = {},
                   !.rejected = @ + 1, !.last = "rejected"], TRUE)

\* opReject
Reject(d) ==
    Hold(Release([d EXCEPT !.phase = "idle", !.busy = FALSE, !.left = 0, !.out = {},
                           !.rejected = @ + 1, !.last = "rejected"]), TRUE)

\* startKernel
StartKernel(d, latency) ==
    Hold(IF latency = 0
           THEN Raise([d EXCEPT !.id = @ + 1, !.busy = FALSE, !.left = 0], 1)
           ELSE [d EXCEPT !.busy = TRUE, !.left = latency], FALSE)

\* Faulty variant: one launch is popped, whatever its latency.
PopOne(d) ==
    IF d.queue = << >> THEN d
    ELSE StartKernel([d EXCEPT !.queue = Tail(@)], Head(d.queue))

\* retireIfReady's loop: the launches of latency 0 at the front complete at
\* once, the first other one starts.
Pop(d) ==
    LET q == d.queue
        zeros == CHOOSE k \in 0..Len(q) : /\ \A i \in 1..k : q[i] = 0
                                          /\ k < Len(q) => q[k + 1] # 0
        done == Raise([d EXCEPT !.id = @ + zeros,
                                !.queue = SubSeq(q, zeros + 2, Len(q))], zeros)
    IN  IF zeros = Len(q) THEN done ELSE StartKernel(done, q[zeros + 1])

\* Faulty variant: the window is filled without counting what is in flight.
IssueFull(d, total) ==
    LET room == IF Window < total - d.next THEN Window ELSE total - d.next
    IN  [d EXCEPT !.next = @ + room, !.out = @ \union (d.next + 1)..(d.next + room)]

\* opIssueReadWindow, opIssueWriteWindow: fill the window.
Issue(d, total) ==
    LET free == Window - Cardinality(d.out)
        room == IF free < total - d.next THEN free ELSE total - d.next
    IN  [d EXCEPT !.next = @ + room, !.out = @ \union (d.next + 1)..(d.next + room)]

\* opBeginWriteback
BeginWriteback(d) ==
    IF d.op = "badOut" THEN Reject(d)
    ELSE Hold(Issue([d EXCEPT !.phase = "writing", !.out = {}, !.next = 0], OutChunks), FALSE)

\* opComputeAndStartBusy; opinion is the latency the kernel returns.
Compute(d, opinion) ==
    LET latency == CHOOSE x \in {d.override, opinion, KernelLatency} :
                     IF d.override # 0 THEN x = d.override
                     ELSE IF opinion # 0 THEN x = opinion ELSE x = KernelLatency
        e == [d EXCEPT !.override = 0]
    IN  IF latency = 0 THEN BeginWriteback(e)
        ELSE Hold([e EXCEPT !.busy = TRUE, !.left = latency], FALSE)

\* opFinish
Finish(d) ==
    Hold(Raise(Release([d EXCEPT !.phase = "idle", !.id = @ + 1, !.last = "done"]), 1), TRUE)

\* retireIfReady
Retire(d) ==
    IF ~d.busy \/ d.left > 0 THEN d
    ELSE IF kernel /\ d.phase = "reading" THEN BeginWriteback([d EXCEPT !.busy = FALSE])
    ELSE Pop(Raise(Release([d EXCEPT !.id = @ + 1, !.busy = FALSE]), 1))

\* opStartDma
StartDma(d) ==
    IF d.op = "badArgs" THEN Reject(d)
    ELSE Hold(Issue([d EXCEPT !.phase = "reading", !.out = {}, !.next = 0,
                              !.got = {}, !.written = {}], InChunks), FALSE)

-----------------------------------------------------------------------------
(* Handlers.  A requester whose response is held sends nothing.  The       *)
(* writes are non-posted ones, which is all that the CPU, the pipeline and *)
(* the accelerator port send.                                              *)

May(r) == ~dev.fatal /\ dev.held # r

\* tickBusy
TickBusy ==
    /\ ~dev.fatal
    /\ dev' = Hold(Retire([dev EXCEPT !.left = IF dev.busy THEN @ - 1 ELSE @]), TRUE)
    /\ UNCHANGED <<config, acked>>

\* A doorbell write in kernel mode.
DoorbellKernel(r, op) ==
    /\ kernel /\ May(r)
    /\ dev.submit < MaxSubmits
    /\ dev' = IF dev.phase # "idle" \/ dev.busy THEN [dev EXCEPT !.fatal = TRUE]
              ELSE StartDma([dev EXCEPT !.held = IF blocking THEN r ELSE @,
                                        !.submit = @ + 1, !.op = op])
    /\ UNCHANGED <<config, acked>>

\* A doorbell write in the latency model: start, queue or drop; then hold the
\* response if the device is busy and blocking.
DoorbellLatency(r) ==
    /\ ~kernel /\ May(r)
    /\ dev.submit < MaxSubmits
    /\ LET latency == IF dev.override = 0 THEN KernelLatency ELSE dev.override
           d == Retire([dev EXCEPT !.override = 0])
           e == IF ~d.busy /\ d.queue = << >>
                  THEN StartKernel([d EXCEPT !.submit = @ + 1], latency)
                ELSE IF Len(d.queue) < MaxPending
                  THEN Hold([d EXCEPT !.submit = @ + 1, !.queue = Append(@, latency)], FALSE)
                ELSE d
       IN  dev' = IF ~blocking \/ ~e.busy THEN e
                  ELSE IF e.held # None THEN [e EXCEPT !.fatal = TRUE]
                  ELSE [e EXCEPT !.held = r]
    /\ UNCHANGED <<config, acked>>

\* A write of LATENCY_OVERRIDE.
WriteOverride(r, latency) ==
    /\ May(r)
    /\ dev' = [dev EXCEPT !.override = latency]
    /\ UNCHANGED <<config, acked>>

\* A write of IRQ_ACK: ackIrq consumes at most the events there are.
Ack(r, n) ==
    /\ May(r)
    /\ irq /\ dev.line
    /\ LET consumed == IF n < dev.events THEN n ELSE dev.events
       IN  /\ dev' = [dev EXCEPT !.events = @ - consumed, !.line = dev.events > consumed]
           /\ acked' = acked + consumed
    /\ UNCHANGED config

\* A read of STATUS, KERNEL_ID or RESULT retires what is ready.
ReadRegister(r) ==
    /\ May(r)
    /\ dev' = Retire(dev)
    /\ UNCHANGED <<config, acked>>

\* opOnReadResp: responses come in any order.
ReadResp(c, opinion) ==
    /\ ~dev.fatal /\ dev.phase = "reading" /\ c \in dev.out
    /\ LET d == Issue([dev EXCEPT !.out = @ \ {c}, !.got = @ \union {c}], InChunks)
       IN  dev' = IF d.out = {} /\ d.next = InChunks THEN Compute(d, opinion) ELSE d
    /\ UNCHANGED <<config, acked>>

\* Faulty variant: the operation ends when the last write is issued.
WriteRespEarly(c) ==
    /\ ~dev.fatal /\ dev.phase = "writing" /\ c \in dev.out
    /\ LET d == Issue([dev EXCEPT !.out = @ \ {c}, !.written = @ \union {c}], OutChunks)
       IN  dev' = IF d.next = OutChunks THEN Finish(d) ELSE d
    /\ UNCHANGED <<config, acked>>

\* opOnWriteResp
WriteResp(c) ==
    /\ ~dev.fatal /\ dev.phase = "writing" /\ c \in dev.out
    /\ LET d == Issue([dev EXCEPT !.out = @ \ {c}, !.written = @ \union {c}], OutChunks)
       IN  dev' = IF d.out = {} /\ d.next = OutChunks THEN Finish(d) ELSE d
    /\ UNCHANGED <<config, acked>>

-----------------------------------------------------------------------------
Memory ==
    \/ \E c \in 1..InChunks, opinion \in Latencies : ReadResp(c, opinion)
    \/ \E c \in 1..OutChunks : WriteResp(c)

Next ==
    \/ TickBusy
    \/ \E r \in Requesters :
         \/ \E op \in Ops : DoorbellKernel(r, op)
         \/ DoorbellLatency(r)
         \/ \E latency \in Latencies : WriteOverride(r, latency)
         \/ \E n \in 1..2 : Ack(r, n)
         \/ ReadRegister(r)
    \/ Memory

Spec == Init /\ [][Next]_vars

\* The device's clock ticks and memory answers.
FairSpec == Spec /\ WF_vars(TickBusy) /\ WF_vars(Memory)

-----------------------------------------------------------------------------
\* Types; and the DMA bookkeeping: the window is never exceeded, and what was
\* issued is exactly what has arrived and what is in flight, so that no chunk is
\* skipped or asked for twice.
TypeOK ==
    /\ config \in BOOLEAN \X BOOLEAN \X Kernels /\ acked \in 0..MaxSubmits
    /\ dev \in [busy : BOOLEAN, left : Nat, id : 0..MaxSubmits, submit : 0..MaxSubmits,
                rejected : 0..MaxSubmits, override : Latencies,
                queue : Seq(Latencies \union {KernelLatency}),
                hold : BOOLEAN, held : Requesters \union {None},
                line : BOOLEAN, events : 0..MaxSubmits,
                phase : {"idle", "reading", "writing"}, op : Ops,
                next : Nat, out : SUBSET (1..(InChunks + OutChunks)),
                got : SUBSET (1..InChunks), written : SUBSET (1..OutChunks),
                last : {"none", "done", "rejected"}, fatal : BOOLEAN]
    /\ Cardinality(dev.out) <= Window
    /\ dev.phase = "reading" => dev.got \union dev.out = 1..dev.next /\ dev.got \cap dev.out = {}
    /\ dev.phase = "writing" => /\ dev.written \union dev.out = 1..dev.next
                                /\ dev.written \cap dev.out = {}

\* Whenever STATUS reads idle, and whenever the device lets the simulation end,
\* every accepted doorbell has retired or was rejected: no queued launch is
\* stranded, no poller rings again and nothing ends between the phases of an
\* operation.
IdleMeansDone == ~Status(dev) \/ ~dev.hold => dev.submit = dev.id + dev.rejected

\* The line is raised exactly while completions are unconsumed, and every
\* completion is consumed or still counted: an ack between two retirements
\* loses neither.
CompletionsCounted ==
    irq => /\ dev.line <=> dev.events > 0
           /\ dev.id = acked + dev.events

\* A kernel operation counts as complete (counter, interrupt, response, idle
\* status) only with its whole input read and its whole output in memory.
ResultBeforeSignal ==
    dev.last = "done" /\ dev.phase = "idle" =>
        dev.got = 1..InChunks /\ dev.written = 1..OutChunks

\* Every ticket is reached: an accepted doorbell retires or is rejected, whatever
\* mixture of latencies is queued before it, and a dropped one takes no ticket;
\* so a guest that waits for its ticket and counts the rejections is woken, and
\* one that only reads KERNEL_ID is if nothing was rejected before.  A requester
\* blocked in a doorbell gets its response, also when the operation is rejected.
Retires ==
    /\ \A t \in 1..MaxSubmits :
         dev.submit >= t ~> (dev.id + dev.rejected >= t \/ dev.fatal)
    /\ dev.held # None ~> (dev.held = None \/ dev.fatal)
=============================================================================
