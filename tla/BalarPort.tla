----------------------------- MODULE BalarPort -----------------------------
(***************************************************************************)
(* The accelerator port: doorbells, the flush that precedes them, and the  *)
(* posted ("async") offload engine that Quetz emulates for balar.          *)
(*                                                                         *)
(* A guest stages a packet, whose stores travel through the vCPU's trace   *)
(* pipeline into its cache, and then rings a doorbell.  The port holds the *)
(* doorbell back until the pipeline is drained and every line of the       *)
(* packet has been flushed, so that the device finds the packet in memory. *)
(* A plain doorbell blocks the guest until the device answers.  A SUBMIT   *)
(* blocks it only until the doorbell is forwarded, or queued behind an     *)
(* earlier one; the guest then polls COMPLETED.                            *)
(*                                                                         *)
(* The n-th command with a packet of vCPU v is the operation <<v, n>>.     *)
(* The mailbox (MmioMailbox) and the pipeline (TracePipeline) appear here  *)
(* only through what the port sees of them: a guest has one command at a   *)
(* time; a core issues what its guest has put in the pipeline, until it    *)
(* halts and drops the rest.  A core halts at its EXIT record, at          *)
(* max_insts or at a store to the test finisher, also while its guest      *)
(* waits for a doorbell; a guest whose core has halted may go on.  balar   *)
(* answers the doorbells it was sent in any order and at any time.         *)
(***************************************************************************)
EXTENDS Naturals, Sequences, FiniteSets

CONSTANTS
    Vcpus,       \* vCPUs with an mmio link
    HasMem,      \* those with a cache (mem) interface
    PacketLines, \* lines of a packet, the cases looked at; 0: flushing is switched off
    Depth,       \* async_completion_depth
    MaxOps,      \* bound on the operations of all vCPUs together
    None

ASSUME VcpusAssumption == IsFiniteSet(Vcpus)
ASSUME HasMemAssumption == HasMem \subseteq Vcpus
ASSUME LinesAssumption == PacketLines \subseteq Nat
ASSUME DepthAssumption == Depth \in Nat \ {0}
ASSUME MaxOpsAssumption == MaxOps \in Nat

VARIABLES
    guest,       \* "run", or "wait" for a response
    mailbox,     \* the command a waiting guest has posted, until the poll
    ops,         \* operations begun by each vCPU
    halted,      \* vCPUs whose core has halted: halted_
    pending,     \* requests of the vCPU are unanswered: pendingCount()
    fed,         \* operations of the vCPU whose packet has left the ring and the
                 \* staging queue
    packets,     \* operations whose packet is in the cache
    visible,     \* lines of each operation's packet that are in memory
    lines,       \* lines of a packet, fixed by the configuration
    armed,       \* armed_doorbells_: the doorbell waiting for the drain
    flushing,    \* doorbell_flushes_: the doorbell waiting for its flushes
    atDevice,    \* pending_: what was sent on the mmio link and not answered
    reading,     \* vCPUs with a doorbell read in pending_
    queue,       \* submit_queue_
    busy,        \* async_busy_
    submitted,   \* submit_id_
    completed,   \* completed_id_
    inFlight,    \* async_in_flight_
    asyncVcpu,   \* async_vcpu_
    posted,      \* operations accepted by SUBMIT (history)
    done,        \* operations the device has answered (history)
    tickets,     \* pairs of an operation and the ticket the guest read for it
    joined,      \* submits the guest has seen completed
    fatal,       \* why the simulation was aborted, or ""
    ended        \* primaryComponentOKToEndSim

client == <<guest, mailbox, ops>>
engine == <<queue, busy, submitted, completed, inFlight, asyncVcpu>>
held   == <<armed, flushing>>
pipe   == <<halted, pending, fed>>
packet == <<pipe, packets, visible, lines>>
view   == <<posted, done, tickets, joined>>
vars   == <<client, packet, held, atDevice, reading, engine, view, fatal, ended>>

Op       == Vcpus \X (1..MaxOps)
Doorbell == [op : 1..MaxOps, async : BOOLEAN]
Flush    == [op : 1..MaxOps, async : BOOLEAN, remaining : Nat \ {0}]

\* The registers of the async aperture, by their offsets.
STATUS    == 8
COMPLETED == 16
TICKET    == 32
RESULT    == 40
Registers == {STATUS, COMPLETED, TICKET, RESULT}

\* What a guest may send to the port: a write to or a read from the doorbell
\* aperture, and a SUBMIT, another write or a read in the async aperture.
Ringing == {"doorbell", "submit"}
Command ==
    [kind : {"doorbell", "read", "submit", "ignored"}, off : {0}]
        \cup [kind : {"register"}, off : Registers]

ASSUME NoneAssumption ==
    /\ None \notin Vcpus /\ None \notin Command
    /\ None \notin Doorbell /\ None \notin Flush

Alive == fatal = "" /\ ~ended

Init ==
    /\ guest     = [v \in Vcpus |-> "run"]
    /\ mailbox   = [v \in Vcpus |-> None]
    /\ ops       = [v \in Vcpus |-> 0]
    /\ halted    = {}
    /\ pending   = [v \in Vcpus |-> FALSE]
    /\ fed       = [v \in Vcpus |-> 0]
    /\ packets   = {}
    /\ visible   = [o \in Op |-> 0]
    /\ lines     \in PacketLines
    /\ armed     = [v \in Vcpus |-> None]
    /\ flushing  = [v \in Vcpus |-> None]
    /\ atDevice  = [v \in Vcpus |-> {}]
    /\ reading   = {}
    /\ queue     = [v \in Vcpus |-> <<>>]
    /\ busy      = [v \in Vcpus |-> FALSE]
    /\ submitted = [v \in Vcpus |-> 0]
    /\ completed = [v \in Vcpus |-> 0]
    /\ inFlight  = 0
    /\ asyncVcpu = None
    /\ posted    = {}
    /\ done      = {}
    /\ tickets   = {}
    /\ joined    = {}
    /\ fatal     = ""
    /\ ended     = FALSE

-----------------------------------------------------------------------------
(* The guest and its vCPU, as far as the port can tell.                    *)

\* A guest stages a packet and rings, or reads a register: it blocks until
\* the response.  The packet's stores are in the vCPU's pipeline by then, behind
\* the guest's other traffic.
Issue(v, c) ==
    /\ Alive /\ guest[v] = "run"
    /\ c.kind \in Ringing => Cardinality({o \in Op : o[2] <= ops[o[1]]}) < MaxOps
    /\ guest' = [guest EXCEPT ![v] = "wait"]
    /\ mailbox' = [mailbox EXCEPT ![v] = c]
    /\ ops' = IF c.kind \in Ringing THEN [ops EXCEPT ![v] = @ + 1] ELSE ops
    /\ UNCHANGED <<packet, held, atDevice, reading, engine, view, fatal, ended>>

\* The core's tick issues some of what is in the pipeline, in order: a part of a
\* packet, or the packets up to the k-th.  Without a cache interface there is
\* nowhere to store a packet.
Feed(v) ==
    /\ Alive /\ v \in HasMem \ halted /\ fed[v] < ops[v]
    /\ pending' = [pending EXCEPT ![v] = TRUE]
    /\ \E k \in fed[v]..ops[v] : fed' = [fed EXCEPT ![v] = k]
    /\ UNCHANGED <<client, halted, packets, visible, lines, held, atDevice, reading, engine, view,
                   fatal, ended>>

\* handleMemResponse: all that was issued has been answered.
Settle(v) ==
    /\ Alive /\ pending[v]
    /\ pending' = [pending EXCEPT ![v] = FALSE]
    /\ packets' = packets \cup {<<v, n>> : n \in 1..fed[v]}
    /\ UNCHANGED <<client, halted, fed, visible, lines, held, atDevice, reading, engine, view,
                   fatal, ended>>

\* An event halts the core; what is behind it in the pipeline is not issued.
Halt(v) ==
    /\ Alive /\ v \notin halted
    /\ halted' = halted \cup {v}
    /\ UNCHANGED <<client, pending, fed, packets, visible, lines, held, atDevice, reading, engine,
                   view, fatal, ended>>

-----------------------------------------------------------------------------
(* The port.                                                               *)

PostResponse(v) == guest' = [guest EXCEPT ![v] = "run"]

Abort(why) ==
    /\ fatal' = why
    /\ UNCHANGED <<client, packet, held, atDevice, reading, engine, view, ended>>

Take(v) == mailbox' = [mailbox EXCEPT ![v] = None]

\* Faulty variants of definitions below, each a slip the code could have made.

\* A queued submit is not acknowledged when it is queued.
ForwardAcksSent(v, d, preAcked, waiting, running, sent) ==
    IF d.async /\ running[v]
    THEN /\ queue' = [waiting EXCEPT ![v] = Append(@, d.op)]
         /\ UNCHANGED <<busy, atDevice, guest>>
    ELSE /\ queue' = waiting
         /\ busy' = [running EXCEPT ![v] = @ \/ d.async]
         /\ atDevice' = [sent EXCEPT ![v] = @ \cup {d}]
         /\ IF d.async /\ ~preAcked THEN PostResponse(v) ELSE UNCHANGED guest

\* Doorbells are forwarded without waiting for the drain.
DrainedAlways(v) == TRUE

\* The newest queued submit is dispatched first.
DequeueNewest(v) ==
    [op   |-> queue[v][Len(queue[v])],
     rest |-> SubSeq(queue[v], 1, Len(queue[v]) - 1)]

\* The last operation is not waited for.
HasOutstandingQueued == inFlight > 1

\* Only a completion that leaves the queue empty is counted.
RetireCountLast(v) ==
    /\ completed' = [completed EXCEPT ![v] = @ + 1]
    /\ inFlight' = IF queue[v] = <<>> /\ inFlight > 0 THEN inFlight - 1 ELSE inFlight

\* host_->isDrained: a halted core has nothing more to issue.
Drained(v) == ~pending[v] /\ (v \in halted \/ fed[v] = ops[v])

\* forwardDoorbell, on the current submit_queue_, async_busy_ and pending_: an
\* async doorbell behind a running one is queued, any other is sent; either
\* way the submit is acknowledged unless it was before.
ForwardDoorbell(v, d, preAcked, waiting, running, sent) ==
    /\ IF d.async /\ running[v]
       THEN /\ queue' = [waiting EXCEPT ![v] = Append(@, d.op)]
            /\ UNCHANGED <<busy, atDevice>>
       ELSE /\ queue' = waiting
            /\ busy' = [running EXCEPT ![v] = @ \/ d.async]
            /\ atDevice' = [sent EXCEPT ![v] = @ \cup {d}]
    /\ IF d.async /\ ~preAcked THEN PostResponse(v) ELSE UNCHANGED guest

\* handleCommand, a doorbell read: forwarded as it is.
HandleRead(v) ==
    /\ Alive /\ mailbox[v] # None /\ mailbox[v].kind = "read"
    /\ Take(v)
    /\ reading' = reading \cup {v}
    /\ UNCHANGED <<guest, ops, packet, held, atDevice, engine, view, fatal, ended>>

\* handleCommand, a doorbell write: forwarded at once when there is nothing to
\* flush or no way to, and otherwise armed.
HandleDoorbell(v) ==
    LET d == [op |-> ops[v], async |-> FALSE]
    IN  /\ Alive /\ mailbox[v] # None /\ mailbox[v].kind = "doorbell"
        /\ IF (v \in HasMem /\ lines > 0) /\ armed[v] # None
           THEN Abort("nested")
           ELSE /\ Take(v)
                /\ IF v \notin HasMem \/ lines = 0
                   THEN /\ ForwardDoorbell(v, d, FALSE, queue, busy, atDevice)
                        /\ UNCHANGED armed
                   ELSE /\ armed' = [armed EXCEPT ![v] = d]
                        /\ UNCHANGED <<guest, atDevice, queue, busy>>
                /\ UNCHANGED <<ops, packet, flushing, reading, submitted, completed, inFlight,
                               asyncVcpu, view, fatal, ended>>

\* Why handleAsyncAperture aborts the simulation, or "".
Refusal(v) ==
    IF asyncVcpu \notin {None, v} THEN "vcpus"
    ELSE IF mailbox[v].kind # "submit" THEN ""
    ELSE IF v \notin HasMem THEN "config"
    ELSE IF inFlight + 1 > Depth THEN "depth"
    ELSE IF armed[v] # None \/ flushing[v] # None THEN "nested"
    ELSE ""

InAperture(v) == mailbox[v] # None /\ mailbox[v].kind \in {"register", "ignored", "submit"}

RefuseAsync(v) ==
    /\ Alive /\ InAperture(v) /\ Refusal(v) # ""
    /\ Abort(Refusal(v))

RegValue(v, off) ==
    CASE off = STATUS    -> inFlight
      [] off = COMPLETED -> completed[v]
      [] off = TICKET    -> submitted[v]
      [] off = RESULT    -> 0

\* The guest's most recent submit that has no ticket yet takes the value as
\* its ticket.
NewTicket(v, value) ==
    {<<o, value>> : o \in {<<v, n>> : n \in {m \in 1..MaxOps :
        /\ <<v, m>> \in posted
        /\ \A k \in m + 1..MaxOps : <<v, k>> \notin posted
        /\ \A t \in tickets : t[1] # <<v, m>>}}}

\* handleAsyncAperture, a read: answered from the port's state.  The guest
\* takes its ticket from TICKET and compares COMPLETED with its tickets.
ReadRegister(v) ==
    /\ Alive /\ InAperture(v) /\ mailbox[v].kind = "register" /\ Refusal(v) = ""
    /\ Take(v) /\ PostResponse(v)
    /\ asyncVcpu' = v
    /\ LET off   == mailbox[v].off
           value == RegValue(v, off)
       IN  /\ tickets' = IF off = TICKET THEN tickets \cup NewTicket(v, value) ELSE tickets
           /\ joined' = IF off = COMPLETED
                        THEN joined \cup {t[1] : t \in {u \in tickets : u[1][1] = v /\ u[2] <= value}}
                        ELSE joined
    /\ UNCHANGED <<ops, packet, held, atDevice, reading, queue, busy, submitted, completed,
                   inFlight, posted, done, fatal, ended>>

\* handleAsyncAperture, a write to any other register: acknowledged.
IgnoreWrite(v) ==
    /\ Alive /\ InAperture(v) /\ mailbox[v].kind = "ignored" /\ Refusal(v) = ""
    /\ Take(v) /\ PostResponse(v)
    /\ asyncVcpu' = v
    /\ UNCHANGED <<ops, packet, held, atDevice, reading, queue, busy, submitted, completed,
                   inFlight, view, fatal, ended>>

\* handleAsyncAperture, SUBMIT: counted and armed; the guest stays blocked.
ArmSubmit(v) ==
    /\ submitted' = [submitted EXCEPT ![v] = @ + 1]
    /\ inFlight' = inFlight + 1
    /\ armed' = [armed EXCEPT ![v] = [op |-> ops[v], async |-> TRUE]]
    /\ UNCHANGED guest

Submit(v) ==
    /\ Alive /\ InAperture(v) /\ mailbox[v].kind = "submit" /\ Refusal(v) = ""
    /\ Take(v)
    /\ ArmSubmit(v)
    /\ asyncVcpu' = v
    /\ posted' = posted \cup {<<v, ops[v]>>}
    /\ UNCHANGED <<ops, packet, flushing, atDevice, reading, queue, busy, completed, done,
                   tickets, joined, fatal, ended>>

\* process and issueDoorbellFlushes: once the vCPU is drained, one FlushAddr
\* per line, or straight on when there is nothing to flush.
Process(v) ==
    /\ Alive /\ armed[v] # None /\ Drained(v)
    /\ IF flushing[v] # None
       THEN Abort("nested")
       ELSE /\ armed' = [armed EXCEPT ![v] = None]
            /\ IF lines = 0
               THEN /\ ForwardDoorbell(v, armed[v], FALSE, queue, busy, atDevice)
                    /\ UNCHANGED flushing
               ELSE /\ flushing' = [flushing EXCEPT ![v] = [op        |-> armed[v].op,
                                                           async     |-> armed[v].async,
                                                           remaining |-> lines]]
                    /\ UNCHANGED <<guest, atDevice, queue, busy>>
            /\ UNCHANGED <<mailbox, ops, packet, reading, submitted, completed, inFlight,
                           asyncVcpu, view, fatal, ended>>

\* issueDoorbellFlushes: the packet's address makes the range overflow, or its
\* lines are more than a counter holds.
RefuseFlush(v) ==
    /\ Alive /\ armed[v] # None /\ Drained(v) /\ flushing[v] = None /\ lines > 0
    /\ Abort("range")

\* The memory system flushes a line, which reaches memory if the packet's
\* stores are in the cache, and handleResponse counts it; the last one
\* forwards the doorbell.
FlushResponse(v) ==
    LET f == flushing[v]
        d == [op |-> f.op, async |-> f.async]
    IN  /\ Alive /\ f # None
        /\ visible' = IF <<v, f.op>> \in packets
                      THEN [visible EXCEPT ![<<v, f.op>>] = @ + 1] ELSE visible
        /\ IF f.remaining = 1
           THEN /\ flushing' = [flushing EXCEPT ![v] = None]
                /\ ForwardDoorbell(v, d, FALSE, queue, busy, atDevice)
           ELSE /\ flushing' = [flushing EXCEPT ![v].remaining = @ - 1]
                /\ UNCHANGED <<guest, atDevice, queue, busy>>
        /\ UNCHANGED <<mailbox, ops, pipe, packets, lines, armed, reading, submitted, completed,
                       inFlight, asyncVcpu, view, fatal, ended>>

\* handleResponse: the memory system answers a flush with something else.
FlushFails(v) == Alive /\ flushing[v] # None /\ Abort("response")

\* handleResponse, a posted operation: the counters the guest polls.
Retire(v) ==
    /\ completed' = [completed EXCEPT ![v] = @ + 1]
    /\ inFlight' = IF inFlight > 0 THEN inFlight - 1 ELSE inFlight

Dequeue(v) == [op |-> Head(queue[v]), rest |-> Tail(queue[v])]

\* handleResponse: a plain doorbell unblocks the guest; a posted one retires
\* and hands the device to the oldest queued submit.
Respond(v, d) ==
    LET sent == [atDevice EXCEPT ![v] = @ \ {d}]
        free == [busy EXCEPT ![v] = FALSE]
        next == Dequeue(v)
    IN  /\ Alive /\ d \in atDevice[v]
        /\ done' = done \cup {<<v, d.op>>}
        /\ IF ~d.async
           THEN /\ PostResponse(v)
                /\ atDevice' = sent
                /\ UNCHANGED <<queue, busy, completed, inFlight>>
           ELSE /\ Retire(v)
                /\ IF queue[v] = <<>>
                   THEN /\ atDevice' = sent /\ busy' = free
                        /\ UNCHANGED <<queue, guest>>
                   ELSE ForwardDoorbell(v, [op |-> next.op, async |-> TRUE], TRUE,
                                        [queue EXCEPT ![v] = next.rest], free, sent)
        /\ UNCHANGED <<mailbox, ops, packet, held, reading, submitted, asyncVcpu, posted,
                       tickets, joined, fatal, ended>>

RespondRead(v) ==
    /\ Alive /\ v \in reading
    /\ reading' = reading \ {v}
    /\ PostResponse(v)
    /\ UNCHANGED <<mailbox, ops, packet, held, atDevice, engine, view, fatal, ended>>

HasOutstanding == inFlight > 0

\* QuetzCPU::tick: every core has halted, its requests are answered, and no
\* port holds on.
EndSim ==
    /\ Alive
    /\ \A v \in Vcpus : v \in halted /\ ~pending[v]
    /\ ~HasOutstanding
    /\ ended' = TRUE
    /\ UNCHANGED <<client, packet, held, atDevice, reading, engine, view, fatal>>

-----------------------------------------------------------------------------
Core(v) == Feed(v) \/ Settle(v) \/ Halt(v)

Port(v) ==
    \/ HandleRead(v) \/ HandleDoorbell(v) \/ RefuseAsync(v) \/ ReadRegister(v)
    \/ IgnoreWrite(v) \/ Submit(v) \/ Process(v) \/ RefuseFlush(v)
    \/ FlushResponse(v) \/ FlushFails(v) \/ RespondRead(v)

Next ==
    \/ \E v \in Vcpus : (\E c \in Command : Issue(v, c)) \/ Core(v) \/ Port(v)
    \/ \E v \in Vcpus : \E d \in Doorbell : Respond(v, d)
    \/ EndSim

Spec == Init /\ [][Next]_vars

-----------------------------------------------------------------------------
\* The packet of an operation is in memory; or its core halted before the last
\* of its stores was issued, and nothing issues them any more.
Whole(v, n)   == <<v, n>> \in packets /\ visible[<<v, n>>] = lines
CutOff(v, n)  == v \in halted /\ n > fed[v]

\* The device finds the packet in memory: a doorbell whose packet is to be
\* flushed is forwarded or queued only after every store of the packet has been
\* issued and answered and every line flushed (process, issueDoorbellFlushes).
\* The one exception is a core that halted in the middle of the packet: its
\* doorbell is not held back (isDrained), and the packet stays incomplete.
PacketInMemory ==
    \A v \in HasMem : \A n \in 1..MaxOps :
        /\ lines > 0 \/ <<v, n>> \in posted
        /\ (\E d \in atDevice[v] : d.op = n) \/ (\E i \in DOMAIN queue[v] : queue[v][i] = n)
        => Whole(v, n) \/ CutOff(v, n)

Held(v) == IF \/ armed[v] # None /\ armed[v].async
              \/ flushing[v] # None /\ flushing[v].async
           THEN 1 ELSE 0

\* Every operation in flight is in exactly one place: armed, flushing, queued
\* or at the device; there is one at the device whenever one is queued.  So
\* STATUS, TICKET and COMPLETED agree with each other and with the queue, and
\* async_completion_depth bounds what is in flight.
Accounting ==
    /\ inFlight <= Depth
    /\ \A v \in Vcpus :
          /\ submitted[v] - completed[v] = Held(v) + Len(queue[v]) + (IF busy[v] THEN 1 ELSE 0)
          /\ v = asyncVcpu => inFlight = submitted[v] - completed[v]
          /\ v # asyncVcpu => submitted[v] = 0
          /\ queue[v] # <<>> => busy[v]
          /\ busy[v] <=> \E d \in atDevice[v] : d.async

\* Where the response that vCPU v waits for will come from.
Places(v) ==
    {p \in {"mailbox", "armed", "flushing", "device", "reading"} :
        CASE p = "mailbox"  -> mailbox[v] # None
          [] p = "armed"    -> armed[v] # None
          [] p = "flushing" -> flushing[v] # None
          [] p = "device"   -> \E d \in atDevice[v] : ~d.async
          [] p = "reading"  -> v \in reading}

\* A blocked guest is blocked on exactly one thing, which the poll, the drain, the
\* flushes or the device will finish, also when its core has halted, and a guest
\* that runs is owed nothing: no response is lost or sent twice.  In particular a submit is
\* acknowledged once, not before its packet is flushed, and not again when it
\* leaves the queue; and none of the "nested doorbell" aborts can happen.
Awaited ==
    /\ \A v \in Vcpus : Cardinality(Places(v)) = IF guest[v] = "wait" THEN 1 ELSE 0
    /\ fatal # "nested"

\* A guest that reads its ticket after SUBMIT and then polls COMPLETED until
\* it reaches the ticket knows that its operation has finished.
JoinMeansDone == joined \subseteq done

\* The simulation does not end while a submitted operation is unfinished, even
\* if every core has halted, whether the operation is armed, being flushed, queued
\* or at the device (hasOutstanding in QuetzCPU::tick).
HeldOpen == ended => posted \subseteq done
=============================================================================
