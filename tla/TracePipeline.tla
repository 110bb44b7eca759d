---------------------------- MODULE TracePipeline ---------------------------
(***************************************************************************)
(* The instruction trace, from the guest to the memory system.             *)
(*                                                                         *)
(* The QEMU plugin coalesces compute instructions into runs and writes     *)
(* runs and memory accesses to one ring per vCPU (write blocks when the    *)
(* ring is full).  QuetzCPU::tick polls the mailbox, ticks every core      *)
(* (refill the staging queue from the ring, then issue under two budgets), *)
(* lets the accelerator port forward a held doorbell once its core is      *)
(* drained, watches the child process, and decides when to end.            *)
(*                                                                         *)
(* SST is one thread: `step' says where it is.  The guest's threads run    *)
(* between any two of its steps.                                           *)
(***************************************************************************)
EXTENDS Naturals, Sequences

CONSTANTS
    N,             \* vcpu_count
    Programs,      \* what the vCPUs may execute: functions from Cores to sequences
    Access,        \* the accesses of the programs: address, and whether a store
    Regions,       \* the region handlers in slot order: kind, start and end
    FilterUnmatched,  \* filter_unmatched_regions
    Slots,         \* memorySlots of a cached access: the requests it is split into
    Latency,       \* exec_latency_, compute_latency_: stall of each event
    RunMax,        \* QUETZ_COMPUTE_RUN_MAX
    RingSize,      \* messages a ring holds
    MaxQueue, MaxIssue, MaxPending,  \* limits of the pipeline
    Limits,        \* the values of max_insts to try, 0 for none
    Accounting,    \* "precise": the classifier decodes instructions; "delayed"
    SingleThread,  \* tcg,thread=single: one host thread runs all vCPUs
    PollPeriod,    \* ticks between two looks at the child (1024)
    Exits          \* how the child may end: "ok" after its EXIT records, "failed"
                   \* at any moment, "vanish" without them, "early" before it
                   \* attached, "refused" by SST and never started

Cores == 1..N
Compute == {"int", "fp", "other"}
Accesses == DOMAIN Access
\* A doorbell write stands for any access that goes to SST through the mailbox;
\* it is not traced.
Events == {"int", "fp"} \union Accesses \union {"doorbell"}
Records == Compute \union Accesses \union {"exit"}
Kinds == {"forward", "mmio", "filtered", "uart", "gpu", "finisher"}

ASSUME TraceAssumption ==
    /\ N \in Nat \ {0}
    /\ Programs \subseteq [Cores -> Seq(Events)]
    /\ Access \in [Accesses -> [addr : Nat, write : BOOLEAN]]
    /\ Accesses \intersect (Compute \union {"exit", "doorbell"}) = {}
    /\ Regions \in Seq([kind : Kinds, start : Nat, end : Nat]) /\ FilterUnmatched \in BOOLEAN
    /\ Latency \in [Records -> Nat]
    /\ {Slots, RunMax, RingSize, MaxQueue, MaxIssue, MaxPending, PollPeriod} \subseteq Nat \ {0}
    /\ Limits \subseteq Nat /\ Accounting \subseteq {"precise", "delayed"}
    /\ SingleThread \in BOOLEAN
    /\ Exits \subseteq {"ok", "failed", "vanish", "early", "refused"}

VARIABLES
    prog,      \* the program of each vCPU
    at,        \* instructions executed by each vCPU
    limit,     \* max_insts
    mode,      \* usesPreciseMemCallbacks
    called,    \* delayed: the instruction's exec callback has run
    seen,      \* delayed: g_mem_seen
    acc,       \* g_run_cls, g_run_count: the open compute run
    out,       \* messages the running plugin callback has still to write
    bell,      \* the vCPU's access to SST: "idle", "req" in the mailbox, "armed"
               \* or "sent" by the accelerator port, "direct" to another device
    leaving,   \* cb_atexit: the vCPU whose EXIT is next, 0 before the guest exits
    child,     \* the QEMU process
    ring,      \* the tunnel's buffers
    step, cur, \* SST: where QuetzCPU::tick is, and on which core
    issued,    \* requests issued by cur in this tick
    pipe,      \* each core's pipeline
    pid,       \* pid_ # 0
    reaped,    \* waitpid has returned the child
    alive,     \* child_running_
    polls,     \* child_poll_ticks_
    posted,    \* the cores with a posted operation in flight at the accelerator
    result     \* how the simulation ended

fixed == <<prog, limit, mode>>
guest == <<fixed, at, called, seen, acc, out, bell, leaving, child>>
sst == <<step, cur, issued, pipe, pid, reaped, alive, polls, posted, result>>
vars == <<guest, ring, sst>>

Message(e, n) == [ev |-> e, n |-> n]

Init ==
    /\ prog \in Programs /\ limit \in Limits /\ mode \in Accounting
    /\ called = [c \in Cores |-> FALSE] /\ seen = [c \in Cores |-> FALSE]
    /\ at = [c \in Cores |-> 0]
    /\ acc = [c \in Cores |-> Message("int", 0)]
    /\ out = [c \in Cores |-> << >>]
    /\ bell = [c \in Cores |-> "idle"]
    /\ leaving = 0 /\ child = "none"
    /\ ring = [c \in Cores |-> << >>]
    /\ step = "spawn" /\ cur = 1 /\ issued = 0 /\ pid = FALSE /\ reaped = FALSE
    /\ pipe = [c \in Cores |->
                 [q |-> << >>,                  \* coreQ_
                  run |-> Message("int", 0),    \* run_nop_, run_remaining_
                  has |-> FALSE, off |-> 0,     \* has_pending_op_, offset_ in requests
                  pending |-> 0,                \* pending_count_
                  insts |-> 0,                  \* inst_count_
                  halted |-> FALSE, exit |-> FALSE,  \* halted_, guest_exit_
                  cap |-> FALSE,                \* refill_hit_cap_
                  done |-> << >>]]              \* events consumed (history)
    /\ alive = TRUE /\ polls = 0 /\ posted = {}
    /\ result = "none"

-----------------------------------------------------------------------------
(* QuetzCPU::init: fork QEMU, then wait until its plugin has attached.     *)

Live == result = "none"

\* QemuFrontend::spawn, QemuLauncher::spawn: a configuration is refused, or
\* QEMU is forked.
Spawn ==
    /\ Live /\ step = "spawn"
    /\ \/ /\ "refused" \in Exits
          /\ result' = "refused"
          /\ UNCHANGED <<child, pid, step>>
       \/ /\ child' = "starting" /\ pid' = TRUE /\ step' = "attached?"
          /\ UNCHANGED result
    /\ UNCHANGED <<fixed, at, called, seen, acc, out, bell, leaving, ring, cur, issued, pipe, reaped, alive, polls, posted>>

\* qemu_plugin_install: it attaches and the guest starts ...
Attach ==
    /\ child = "starting"
    /\ child' = "running"
    /\ UNCHANGED <<fixed, at, called, seen, acc, out, bell, leaving, ring, sst>>

\* ... or exec or the plugin fails and the process ends.
DieEarly ==
    /\ child = "starting" /\ "early" \in Exits
    /\ child' = "early"
    /\ UNCHANGED <<fixed, at, called, seen, acc, out, bell, leaving, ring, sst>>

Attached == child \notin {"none", "starting", "early"}

\* One round of waitForChildAttach: the flag ...
CheckAttached ==
    /\ Live /\ step = "attached?"
    /\ step' = IF Attached THEN "between" ELSE "waitpid"
    /\ UNCHANGED <<guest, ring, cur, issued, pipe, pid, reaped, alive, polls, posted, result>>

\* ... then waitpid: a child that ended is an error.
CheckStarting ==
    /\ Live /\ step = "waitpid"
    /\ IF child \in {"starting", "running"}
         THEN step' = "attached?" /\ UNCHANGED <<result, reaped>>
         ELSE result' = "not attached" /\ reaped' = TRUE /\ UNCHANGED step
    /\ UNCHANGED <<guest, ring, cur, issued, pipe, pid, alive, polls, posted>>

-----------------------------------------------------------------------------
(* The plugin.                                                             *)

\* Inside a callback, or in a synchronous MMIO access.
InCall(c) == out[c] # << >> \/ bell[c] # "idle"

\* The host thread of vCPU c can execute its next instruction.
Running(c) ==
    /\ child = "running" /\ leaving = 0
    /\ ~InCall(c)
    /\ SingleThread => \A d \in Cores : ~InCall(d)

\* flush_run: what it writes.
FlushRun(c) == IF acc[c].n = 0 THEN << >> ELSE <<acc[c]>>

\* accumulate_compute
Accumulate(c, e) ==
    LET closed == IF acc[c].ev # e THEN FlushRun(c) ELSE << >>
        run == Message(e, IF acc[c].ev # e THEN 1 ELSE acc[c].n + 1)
        full == run.n >= RunMax
    IN  /\ out' = [out EXCEPT ![c] = closed \o (IF full THEN <<run>> ELSE << >>)]
        /\ acc' = [acc EXCEPT ![c] = IF full THEN Message(e, 0) ELSE run]

\* The instruction to execute; its exec callback, if it has one, comes first.
Insn(c) == prog[c][at[c] + 1]
Ready(c) == Running(c) /\ at[c] < Len(prog[c]) /\ called[c] = (mode = "delayed")
Step(c) == at' = [at EXCEPT ![c] = @ + 1] /\ called' = [called EXCEPT ![c] = FALSE]

\* Faulty variant: an access is remembered until the next one.
SeenStays(c) == UNCHANGED seen

\* handle_exec_delayed takes the flag that the previous instruction left.
TakeSeen(c) == seen' = [seen EXCEPT ![c] = FALSE]

\* handle_exec_delayed: the previous instruction was no traced access, so it is
\* counted now.
ExecCallback(c) ==
    /\ mode = "delayed" /\ Running(c) /\ at[c] < Len(prog[c]) /\ ~called[c]
    /\ IF seen[c] THEN UNCHANGED <<out, acc>> ELSE Accumulate(c, "other")
    /\ TakeSeen(c)
    /\ called' = [called EXCEPT ![c] = TRUE]
    /\ UNCHANGED <<fixed, at, bell, leaving, child, ring, sst>>

\* QemuMemAccessHandler::handle, for a traced access: the open run goes first.
MemAccess(c) ==
    /\ out' = [out EXCEPT ![c] = FlushRun(c) \o <<Message(Insn(c), 1)>>]
    /\ acc' = [acc EXCEPT ![c].n = 0]
    /\ seen' = [seen EXCEPT ![c] = TRUE]

\* emit_nop_now; in the delayed mode the next instruction's callback counts it.
ComputeInsn(c) ==
    /\ IF mode = "precise" THEN Accumulate(c, Insn(c)) ELSE UNCHANGED <<out, acc>>
    /\ UNCHANGED seen

\* An instruction other than a doorbell write executes, and its callback runs.
Execute(c) ==
    /\ Ready(c) /\ Insn(c) # "doorbell"
    /\ IF Insn(c) \in Compute THEN ComputeInsn(c) ELSE MemAccess(c)
    /\ Step(c)
    /\ UNCHANGED <<fixed, bell, leaving, child, ring, sst>>

\* A doorbell write: the guest blocks in the mailbox.  Its callback only
\* flushes the open run; QEMU may run it before the access or after.
DoorbellFlush(c) ==
    /\ Ready(c) /\ Insn(c) = "doorbell" /\ acc[c].n > 0
    /\ out' = [out EXCEPT ![c] = FlushRun(c)]
    /\ acc' = [acc EXCEPT ![c].n = 0]
    /\ UNCHANGED <<fixed, at, called, seen, bell, leaving, child, ring, sst>>

DoorbellWrite(c) ==
    /\ Ready(c) /\ Insn(c) = "doorbell"
    /\ bell' = [bell EXCEPT ![c] = "req"]
    /\ Step(c)
    /\ UNCHANGED <<fixed, seen, acc, out, leaving, child, ring, sst>>

\* TunnelDef::writeMessage: waits for room.
WriteMessage(c) ==
    /\ child = "running" /\ out[c] # << >> /\ Len(ring[c]) < RingSize
    /\ ring' = [ring EXCEPT ![c] = Append(@, Head(out[c]))]
    /\ out' = [out EXCEPT ![c] = Tail(@)]
    /\ UNCHANGED <<fixed, at, called, seen, acc, bell, leaving, child, sst>>

\* The guest exits: cb_atexit runs once every vCPU is out of its callbacks.
\* vCPU 1 has finished; the others may have been cut short.
GuestExit ==
    /\ child = "running" /\ leaving = 0
    /\ \A c \in Cores : ~InCall(c)
    /\ at[1] = Len(prog[1])
    /\ leaving' = 1
    /\ UNCHANGED <<fixed, at, called, seen, acc, out, bell, child, ring, sst>>

AtExitMessages(c) == FlushRun(c) \o <<Message("exit", 1)>>

\* One round of cb_atexit's loop.
AtExit ==
    /\ child = "running" /\ leaving \in Cores
    /\ \A c \in Cores : out[c] = << >>
    /\ out' = [out EXCEPT ![leaving] = AtExitMessages(leaving)]
    /\ acc' = [acc EXCEPT ![leaving].n = 0]
    /\ leaving' = leaving + 1
    /\ UNCHANGED <<fixed, at, called, seen, bell, child, ring, sst>>

\* The process ends after cb_atexit, successfully ...
ProcessExit ==
    /\ child = "running" /\ leaving = N + 1 /\ "ok" \in Exits
    /\ \A c \in Cores : out[c] = << >>
    /\ child' = "ok"
    /\ UNCHANGED <<fixed, at, called, seen, acc, out, bell, leaving, ring, sst>>

\* ... or it crashes or exits with another status, whatever it is doing ...
Fail ==
    /\ child = "running" /\ "failed" \in Exits
    /\ child' = "failed"
    /\ UNCHANGED <<fixed, at, called, seen, acc, out, bell, leaving, ring, sst>>

\* ... or with status 0 and without its EXIT records.
Vanish ==
    /\ child = "running" /\ leaving = 0 /\ "vanish" \in Exits
    /\ child' = "vanish"
    /\ UNCHANGED <<fixed, at, called, seen, acc, out, bell, leaving, ring, sst>>

-----------------------------------------------------------------------------
(* QuetzEventPipeline.                                                     *)

Set(c, p) == pipe' = [pipe EXCEPT ![c] = p]

\* QuetzCPU::tick up to the cores: pollMmioSyncMailbox hands a doorbell to the
\* port, which holds it, and other accesses to their devices.
TickStart ==
    /\ Live /\ step = "between"
    /\ \E others \in SUBSET {c \in Cores : bell[c] = "req"} :
         bell' = [c \in Cores |-> IF c \in others THEN "direct"
                                 ELSE IF bell[c] = "req" THEN "armed" ELSE bell[c]]
    /\ step' = "refill" /\ cur' = 1
    /\ UNCHANGED <<fixed, at, called, seen, acc, out, leaving, child, ring, issued, pipe, pid, reaped, alive, polls, posted, result>>

\* The core's tick is over: on to the next core.
NextCore(c) ==
    /\ cur' = IF c < N THEN c + 1 ELSE 1
    /\ step' = IF c < N THEN "refill" ELSE "after"

\* A halted core's tick does nothing.
SkipHalted(c) ==
    /\ Live /\ step = "refill" /\ cur = c /\ pipe[c].halted
    /\ NextCore(c)
    /\ UNCHANGED <<guest, ring, issued, pipe, pid, reaped, alive, polls, posted, result>>

Refilling(c) == Live /\ step = "refill" /\ cur = c /\ ~pipe[c].halted

Staged(e) == [ev |-> e, stall |-> Latency[e]]

\* drainRun: expand the run into the staging queue, as far as it fits.
DrainRun(c) ==
    LET p == pipe[c]
        room == MaxQueue - Len(p.q)
        k == IF p.run.n < room THEN p.run.n ELSE room
    IN  /\ Refilling(c) /\ p.run.n > 0 /\ Len(p.q) < MaxQueue
        /\ Set(c, [p EXCEPT !.q = @ \o [i \in 1..k |-> Staged(p.run.ev)], !.run.n = @ - k])
        /\ UNCHANGED <<guest, ring, step, cur, issued, pid, reaped, alive, polls, posted, result>>

\* refill returns; tick records whether the queue's limit stopped it.
StopRefill(c, p) ==
    /\ Set(c, [p EXCEPT !.cap = Len(p.q) >= MaxQueue])
    /\ step' = "issue" /\ issued' = 0 /\ cur' = c

\* readCommandNB finds a message.  A run is expanded by drainRun; EXIT ends
\* the refill.
ReadCommand(c) ==
    LET p == pipe[c]
        m == Head(ring[c])
        pushed == [p EXCEPT !.q = Append(@, Staged(m.ev))]
    IN  /\ Refilling(c) /\ p.run.n = 0 /\ Len(p.q) < MaxQueue /\ ring[c] # << >>
        /\ ring' = [ring EXCEPT ![c] = Tail(@)]
        /\ IF m.ev = "exit" THEN StopRefill(c, pushed)
           ELSE /\ Set(c, IF m.ev \in Compute THEN [p EXCEPT !.run = m] ELSE pushed)
                /\ UNCHANGED <<step, issued, cur>>
        /\ UNCHANGED <<guest, pid, reaped, alive, polls, posted, result>>

\* The queue is full, or the ring is empty.
RefillStops(c) ==
    LET p == pipe[c]
    IN  /\ Refilling(c)
        /\ Len(p.q) >= MaxQueue \/ (p.run.n = 0 /\ ring[c] = << >>)
        /\ StopRefill(c, p)
        /\ UNCHANGED <<guest, ring, pid, reaped, alive, polls, posted, result>>

Issuing(c) == Live /\ step = "issue" /\ cur = c

\* The head event is consumed: popped, counted, and checked against max_insts.
Consume(p) ==
    [p EXCEPT !.q = Tail(@), !.insts = @ + 1, !.done = Append(@, Head(p.q).ev),
              !.halted = limit > 0 /\ p.insts + 1 >= limit]

\* HALT_EXIT: an EXIT record, or a store to the test finisher.
Halt(p) ==
    [p EXCEPT !.q = Tail(@), !.halted = TRUE, !.exit = Head(p.q).ev = "exit",
              !.done = Append(@, Head(p.q).ev)]

\* findHandler: the first handler, in slot order, whose range holds the address.
Handlers(addr) == {i \in DOMAIN Regions : addr >= Regions[i].start /\ addr <= Regions[i].end}
FindHandler(addr) == Regions[CHOOSE i \in Handlers(addr) : \A j \in Handlers(addr) : i <= j]

\* onRead and onWrite of the forwarding, filtering, UART and GPU-trace handlers ...
PassiveAction(kind) == IF kind = "forward" THEN "FORWARD" ELSE "CONSUME"

\* ... and of the MMIO handler and the test finisher, which only a store stops.
HandlerAction(kind, write) ==
    CASE kind = "mmio" -> "FORWARD_MMIO"
      [] kind = "finisher" -> IF write THEN "END_SIM" ELSE "CONSUME"
      [] OTHER -> PassiveAction(kind)

\* handleMemoryAccess
RegionAction(e) ==
    LET a == Access[e]
    IN  IF Handlers(a.addr) # {} THEN HandlerAction(FindHandler(a.addr).kind, a.write)
        ELSE IF FilterUnmatched THEN "CONSUME" ELSE "FORWARD"

Forwarded(e) == e \in Accesses /\ RegionAction(e) \in {"FORWARD", "FORWARD_MMIO"}

\* slotsNeeded: an MMIO access is not split.
SlotsNeeded(e) == IF RegionAction(e) = "FORWARD_MMIO" THEN 1 ELSE Slots

\* Faulty variant: the limit on outstanding requests is checked once per
\* access and not per request.
BudgetIssueOnly(p) ==
    IF p.pending >= MaxPending THEN 0 ELSE MaxIssue - issued

\* issueMemOp: the requests this access may issue now.
Budget(p) ==
    LET a == MaxIssue - issued
        b == IF p.pending < MaxPending THEN MaxPending - p.pending ELSE 0
    IN  IF a < b THEN a ELSE b

\* Faulty variant: the access is restarted when the budget ran out.
IssuePartRestart(p, k) ==
    [p EXCEPT !.pending = @ + k, !.off = IF p.off + k = SlotsNeeded(Head(p.q).ev) THEN p.off + k ELSE 0]

\* issueReadWindow, issueWriteWindow: issue k requests from the cursor on.
IssuePart(p, k) == [p EXCEPT !.pending = @ + k, !.off = @ + k]

\* issueAvailable: the cursor is reset when the access is complete.
IssueAvailable(p, k) == [IssuePart(p, k) EXCEPT !.off = @ % SlotsNeeded(Head(p.q).ev)]

\* issueMemOp on the access that is being issued.
IssueMemOp(c) ==
    LET p == pipe[c]
        rest == SlotsNeeded(Head(p.q).ev) - p.off
        k == IF Budget(p) < rest THEN Budget(p) ELSE rest
        complete == k = rest
        r == IssueAvailable(p, k)
        n == IF complete THEN Consume([r EXCEPT !.has = FALSE]) ELSE r
    IN  /\ Issuing(c) /\ p.q # << >> /\ p.has
        /\ Set(c, n)
        /\ issued' = issued + k
        /\ IF complete /\ ~n.halted THEN UNCHANGED <<step, cur>> ELSE NextCore(c)
        /\ UNCHANGED <<guest, ring, pid, reaped, alive, polls, posted, result>>

\* PipelineFilter::handle consumes the event.
Filtered(h) == h.ev \in Accesses /\ RegionAction(h.ev) = "CONSUME"

\* PipelineTransform::process
Transform(h) ==
    IF h.ev = "exit" THEN "HALT_EXIT"
    ELSE IF h.ev \in Accesses /\ RegionAction(h.ev) = "END_SIM" THEN "HALT_EXIT"
    ELSE IF h.stall > 0 THEN "STALL"
    ELSE IF h.ev \in Compute THEN "CONSUMED_NOOP"
    ELSE "EMIT_MEMOP"

\* The filter, then the transform, on a new head.
Dispatch(c) ==
    LET p == pipe[c]
        h == Head(p.q)
    IN  /\ Issuing(c) /\ p.q # << >> /\ ~p.has
        /\ \/ /\ Filtered(h) \/ Transform(h) = "CONSUMED_NOOP"
              /\ Set(c, Consume(p))
              /\ IF Consume(p).halted THEN NextCore(c) ELSE UNCHANGED <<step, cur>>
           \/ /\ ~Filtered(h) /\ Transform(h) = "HALT_EXIT"
              /\ Set(c, Halt(p))
              /\ NextCore(c)
           \/ /\ ~Filtered(h) /\ Transform(h) = "STALL"
              /\ Set(c, [p EXCEPT !.q[1].stall = @ - 1])
              /\ NextCore(c)
           \/ /\ ~Filtered(h) /\ Transform(h) = "EMIT_MEMOP"
              /\ Set(c, [p EXCEPT !.has = TRUE])
              /\ UNCHANGED <<step, cur>>
        /\ UNCHANGED <<guest, ring, issued, pid, reaped, alive, polls, posted, result>>

QueueEmpty(c) ==
    /\ Issuing(c) /\ pipe[c].q = << >>
    /\ NextCore(c)
    /\ UNCHANGED <<guest, ring, issued, pipe, pid, reaped, alive, polls, posted, result>>

\* handleMemResponse: SST delivers responses between ticks, in any order.
Response(c) ==
    /\ Live /\ step = "between" /\ pipe[c].pending > 0
    /\ Set(c, [pipe[c] EXCEPT !.pending = @ - 1])
    /\ UNCHANGED <<guest, ring, step, cur, issued, pid, reaped, alive, polls, posted, result>>

-----------------------------------------------------------------------------
(* The rest of QuetzCPU::tick, and the end.                                *)

\* Faulty variant: the cap flag is not looked at.
IsDrainedQueueOnly(p) == p.pending = 0 /\ (p.halted \/ p.q = << >>)

\* QuetzEventPipeline::isDrained
IsDrained(p) == p.pending = 0 /\ (p.halted \/ (p.q = << >> /\ ~p.cap))

AllHalted == \A c \in Cores : pipe[c].halted

\* Faulty variant: the drain state is trusted in the tick that finds the
\* child gone.
GoneAtOnce(now) == ~now

\* The child was gone before this tick's refill.
GoneBefore(now) == ~now /\ ~alive

\* A device still works on a posted operation or on another access.
Holds == posted # {} \/ \E c \in Cores : bell[c] = "direct"

\* After the cores: process() forwards the doorbells of drained vCPUs, some of
\* them as posted operations; then the child is looked at and the end of the
\* simulation decided.
TickEnd ==
    LET look == polls + 1 = PollPeriod \/ AllHalted
        now == IF look THEN child = "running" ELSE alive
    IN  /\ Live /\ step = "after"
        /\ bell' = [c \in Cores |-> IF bell[c] = "armed" /\ IsDrained(pipe[c]) THEN "sent" ELSE bell[c]]
        /\ \E submits \in SUBSET {c \in Cores : bell[c] = "armed" /\ IsDrained(pipe[c])} :
             posted' = posted \cup submits
        /\ polls' = (polls + 1) % PollPeriod
        /\ alive' = now /\ pid' = now /\ reaped' = ~now
        /\ step' = "between"
        /\ result' = IF look /\ alive /\ child = "failed" THEN "child failed"
                     ELSE IF ~AllHalted
                       THEN IF GoneBefore(now) /\ \A c \in Cores : IsDrained(pipe[c])
                              THEN "no EXIT" ELSE "none"
                     ELSE IF (\A c \in Cores : pipe[c].pending = 0) /\ ~Holds'
                       THEN "ending" ELSE "none"
        /\ UNCHANGED <<fixed, at, called, seen, acc, out, leaving, child, ring, cur, issued, pipe>>

\* The access is answered; the guest resumes, and a callback that QEMU runs after
\* the access flushes the open run.
Reply(c) ==
    /\ Live /\ step = "between" /\ bell[c] \in {"sent", "direct"}
    /\ bell' = [bell EXCEPT ![c] = "idle"]
    /\ out' = [out EXCEPT ![c] = FlushRun(c)]
    /\ acc' = [acc EXCEPT ![c].n = 0]
    /\ UNCHANGED <<fixed, at, called, seen, leaving, child, ring, sst>>

\* The posted operations of a core complete.
Retire(c) ==
    /\ Live /\ step = "between" /\ c \in posted
    /\ posted' = posted \ {c}
    /\ UNCHANGED <<guest, ring, step, cur, issued, pipe, pid, reaped, alive, polls, result>>

\* finish: every core saw an EXIT record, so the child is exiting by itself.
ExpectExit == \A c \in Cores : pipe[c].exit

\* QemuLauncher::terminate: wait for an exiting child and report its status;
\* otherwise signal it, and a child that was still running is not a failure
\* unless it answers the signal with one.
Terminate ==
    /\ result = "ending"
    /\ \/ /\ child # "running"
          /\ child' = child /\ pid' = FALSE
          /\ result' = IF child = "failed" THEN "child failed" ELSE "ok"
       \/ /\ child = "running" /\ ExpectExit
          /\ child' = child /\ pid' = pid
          /\ result' = "child stuck"
       \/ /\ child = "running" /\ ~ExpectExit
          /\ child' \in {"killed"} \union (Exits \intersect {"failed"})
          /\ pid' = FALSE
          /\ result' = IF child' = "failed" THEN "child failed" ELSE "ok"
    /\ reaped' = ~pid'
    /\ UNCHANGED <<fixed, at, called, seen, acc, out, bell, leaving, ring, step, cur, issued, pipe, alive, polls, posted>>

Fatal == {"refused", "not attached", "no EXIT", "child failed", "child stuck"}
Over == result \in Fatal \union {"ok"}

\* forceKill, if there is a pid: SIGKILL ends a process that has not ended.
ForceKill ==
    /\ pid /\ pid' = FALSE
    /\ child' = IF child \in {"starting", "running"} THEN "killed" ELSE child

\* Output::fatal runs QuetzCPU::emergencyShutdown.
EmergencyShutdown ==
    /\ result \in Fatal
    /\ ForceKill
    /\ reaped' = TRUE
    /\ UNCHANGED <<fixed, at, called, seen, acc, out, bell, leaving, ring, step, cur, issued, pipe, alive, polls, posted, result>>

-----------------------------------------------------------------------------
Tick(c) ==
    \/ SkipHalted(c) \/ DrainRun(c) \/ ReadCommand(c) \/ RefillStops(c)
    \/ IssueMemOp(c) \/ Dispatch(c) \/ QueueEmpty(c)

Guest(c) == ExecCallback(c) \/ Execute(c) \/ DoorbellFlush(c) \/ DoorbellWrite(c) \/ WriteMessage(c)

Next ==
    \/ \E c \in Cores : Guest(c) \/ Tick(c) \/ Response(c) \/ Reply(c) \/ Retire(c)
    \/ GuestExit \/ AtExit \/ ProcessExit \/ Fail \/ Vanish
    \/ Spawn \/ Attach \/ DieEarly \/ CheckAttached \/ CheckStarting
    \/ TickStart \/ TickEnd \/ Terminate \/ EmergencyShutdown

Spec == Init /\ [][Next]_vars

\* The host runs the guest's threads and SST; memory and accelerator answer.
\* A guest need not exit or vanish.
FairSpec ==
    /\ Spec
    /\ WF_vars(CheckAttached) /\ WF_vars(CheckStarting) /\ WF_vars(EmergencyShutdown)
    /\ WF_vars(TickStart) /\ WF_vars(TickEnd) /\ WF_vars(AtExit) /\ WF_vars(Terminate)
    /\ \A c \in Cores : WF_vars(Tick(c)) /\ SF_vars(Response(c)) /\ SF_vars(Reply(c)) /\ SF_vars(Retire(c))
    /\ \A c \in Cores : WF_vars(ExecCallback(c) \/ Execute(c) \/ DoorbellWrite(c)) /\ WF_vars(WriteMessage(c))

-----------------------------------------------------------------------------
(* Properties.                                                             *)

\* The state stays in its domains; the staging queue respects max_queue_len and
\* the requests outstanding respect max_pending, whatever an access is split
\* into.
TypeOK ==
    /\ prog \in Programs /\ limit \in Limits /\ mode \in Accounting
    /\ \A c \in Cores :
         /\ at[c] \in 0..Len(prog[c])
         /\ acc[c].ev \in Compute /\ acc[c].n \in 0..(RunMax - 1)
         /\ called[c] \in BOOLEAN /\ seen[c] \in BOOLEAN
         /\ Len(ring[c]) \in 0..RingSize
         /\ bell[c] \in {"idle", "req", "armed", "sent", "direct"}
         /\ Len(pipe[c].q) \in 0..MaxQueue
         /\ pipe[c].pending \in 0..MaxPending
         /\ pipe[c].off \in 0..(Slots - 1)
    /\ issued \in 0..MaxIssue /\ polls \in 0..(PollPeriod - 1)
    /\ leaving \in 0..(N + 1) /\ posted \subseteq Cores
    /\ child \in {"none", "starting", "early", "running", "ok", "failed", "vanish", "killed"}
    /\ step \in {"spawn", "attached?", "waitpid", "between", "refill", "issue", "after"} /\ cur \in Cores
    /\ pid \in BOOLEAN /\ reaped \in BOOLEAN /\ alive \in BOOLEAN
    /\ result \in Fatal \union {"none", "ending", "ok"}

\* The concatenation of the sequences ss[1] to ss[n], in order.
Joined(ss, n) ==
    LET joined[i \in Nat] == IF i = 0 THEN << >> ELSE joined[i - 1] \o ss[i]
    IN  joined[n]

Repeat(m) == [i \in 1..m.n |-> m.ev]
Expand(s) == Joined([i \in DOMAIN s |-> Repeat(s[i])], Len(s))
Staging(p) == [i \in DOMAIN p.q |-> p.q[i].ev]

\* What vCPU c has executed that belongs in the trace.  In the delayed mode
\* compute instructions have no class, a doorbell write is one, an instruction
\* is counted when the next one begins, and the first one counts one too many.
Traced(c, n) == Joined([i \in 1..n |-> IF prog[c][i] = "doorbell" THEN << >> ELSE <<prog[c][i]>>], n)
Unclassed(c, n) == [i \in 1..n |-> IF prog[c][i] \in Accesses THEN prog[c][i] ELSE "other"]
Delayed(c) ==
    IF called[c] THEN <<"other">> \o Unclassed(c, at[c])
    ELSE IF at[c] = 0 THEN << >>
    ELSE <<"other">> \o Unclassed(c, IF prog[c][at[c]] \in Accesses THEN at[c] ELSE at[c] - 1)

Executed(c) ==
    (IF mode = "precise" THEN Traced(c, at[c]) ELSE Delayed(c))
      \o (IF leaving > c THEN <<"exit">> ELSE << >>)

\* Coalescing is invisible: what a core has consumed, followed by what is in its
\* queue, in the run being expanded, in the ring, in the callback and in the open
\* run, is at every moment exactly what its vCPU executed, in that order
\* (flush_run, accumulate_compute, refill, drainRun).  Without a decoder it is
\* that without classes and one instruction late (handle_exec_delayed).
Stream ==
    \A c \in Cores :
      pipe[c].done \o Staging(pipe[c]) \o Repeat(pipe[c].run)
        \o Expand(ring[c]) \o Expand(out[c]) \o Repeat(acc[c]) = Executed(c)

\* The events among the first n of s that reach memory, in order.
Mems(s, n) == Joined([i \in 1..n |-> IF Forwarded(s[i]) THEN <<s[i]>> ELSE << >>], n)

\* Every memory access the guest made before ringing has left the pipeline, in
\* program order, and been answered.
Written(c) ==
    /\ pipe[c].pending = 0
    /\ Mems(pipe[c].done, Len(pipe[c].done)) = Mems(prog[c], at[c])

\* The port forwards a doorbell only after every access that precedes it in
\* program order is in memory, although those accesses travel through the ring
\* and the rate-limited queue while the doorbell travels through the mailbox
\* (isDrained, process).  A core that has halted dropped the rest of its trace.
PacketFirst == \A c \in Cores : bell[c] = "sent" => Written(c) \/ pipe[c].halted

\* The same without the exception: what the comment on the doorbell says.
NeverPartial == \A c \in Cores : bell[c] = "sent" => Written(c)

\* The simulation reports what became of the child.  It fails for missing EXIT
\* records only if they were never written: a child that writes them and dies
\* between a refill and waitpid raises no false alarm (QuetzCPU::tick).  A failure
\* is reported only of a child that failed, and never as a success, before its EXIT
\* records or after them; when every core saw its EXIT the child's own status
\* decides, and is not hidden by the simulator's signal (checkChild, terminate).
\* Only a child that has ended is reported not to have attached, although one that
\* attaches and ends between the two looks at it is reported too
\* (waitForChildAttach).  Once SST has let go of the child, at the end or in a
\* fatal error at any stage, the child is not left running (forceKill).  And the
\* process id of a child that was waited for is forgotten, so that no later signal
\* hits another process, but for a child that is said not to have attached.
TrueVerdict ==
    /\ result = "no EXIT" => child = "vanish"
    /\ result = "child failed" => child = "failed"
    /\ result = "ok" => child # "failed" /\ (ExpectExit => child = "ok")
    /\ result = "not attached" => child \notin {"none", "starting", "running"}
    /\ Over /\ ~pid => child \notin {"starting", "running"}
    /\ pid /\ reaped => result = "not attached"

\* The exiting guest is stuck: cb_atexit waits for room in the ring of a core
\* that halted before its EXIT and reads its ring no more.
Wedged ==
    \E c \in Cores : /\ pipe[c].halted /\ ~pipe[c].exit
                     /\ out[c] # << >> /\ Len(ring[c]) = RingSize

\* Once the process has ended in whatever way, or every core has halted, the
\* simulation ends and lets go of the child: init does not wait for a plugin that
\* will not attach, the last messages drain however small the queues are, a missing
\* EXIT is reported, and the devices' work is waited for but not for ever.  The
\* guest's exit is enough too, unless max_insts or a store to the test finisher
\* halted a core before its EXIT: cb_atexit may then wait for that core's ring for
\* ever, and with it the EXIT records of the other cores.
Ends ==
    /\ child \notin {"none", "starting", "running"} \/ AllHalted ~> Over /\ ~pid
    /\ leaving # 0 ~> (Over /\ ~pid) \/ Wedged
=============================================================================
