----------------------------- MODULE IrqMailbox -----------------------------
(***************************************************************************)
(* The interrupt level mailbox from SST to the guest's interrupt           *)
(* controller.                                                             *)
(*                                                                         *)
(* SST posts a level change with three stores: the slot's level, the       *)
(* slot's sequence number, the global generation (postIrq).  QEMU's timer  *)
(* callback (sst_mmio_bridge_irq_poll) drains the mailbox: it loads the    *)
(* generation, scans the slots whose sequence number moved since its       *)
(* shadow, and applies the levels it read; a full output array ends the    *)
(* scan early and makes the callback drain again.  Neither side locks.     *)
(*                                                                         *)
(* Slots are numbered in scan order, so the slots of vCPU 0 come first.    *)
(* Sequence numbers and the generation are unsigned and wrap at SeqMod     *)
(* (2^32 in the code); SST is assumed to post fewer than SeqMod changes    *)
(* between two complete scans.                                             *)
(***************************************************************************)
EXTENDS Naturals, Sequences

CONSTANTS
    NumSlots,    \* numCores * irq_count, the slots one scan visits
    NumLines,    \* irq_count: the slots of vCPU 0 are 0..NumLines-1
    MaxOut,      \* size of the output array (QUETZ_MAX_IRQ_LINES)
    SeqMod       \* modulus of seq and irq_generation

ASSUME SlotsAssumption ==
    /\ NumSlots \in Nat /\ NumLines \in Nat
    /\ 0 < NumLines /\ NumLines <= NumSlots
ASSUME MaxOutAssumption == MaxOut \in Nat /\ MaxOut > 0
ASSUME SeqModAssumption == SeqMod \in Nat /\ SeqMod > 1

Slot == 0..(NumSlots - 1)
Line == 0..(NumLines - 1)
Seq32 == 0..(SeqMod - 1)

VARIABLES
    level,       \* irq_slot[].level
    seq,         \* irq_slot[].seq
    gen,         \* irq_generation
    post,        \* SST inside postIrq: the next store, and for which slot
    shadow,      \* client->irq_seq[]
    irqGen,      \* client->irq_gen
    bridge,      \* QEMU main loop inside the poll callback
    at,          \* slot the scan is at
    loaded,      \* generation loaded at the start of the drain
    out,         \* changes drained and not applied yet
    count,       \* n, the result of the drain
    guest        \* level of each line at the interrupt controller

sstVars    == <<level, seq, gen, post>>
clientVars == <<shadow, irqGen, at, loaded, out, count>>
vars       == <<sstVars, clientVars, bridge, guest>>

\* x + 1 in the counters' width.
Bump(x) == IF x = SeqMod - 1 THEN 0 ELSE x + 1

\* How many bumps lead from a to b.
Ahead(a, b) == IF a <= b THEN b - a ELSE b + SeqMod - a

Quiet == [store |-> "none", slot |-> 0]

Init ==
    /\ level  = [i \in Slot |-> 0]
    /\ seq    = [i \in Slot |-> 0]
    /\ gen    = 0
    /\ post   = Quiet
    /\ shadow = [i \in Slot |-> 0]
    /\ irqGen = 0
    /\ bridge = "idle"
    /\ at     = 0
    /\ loaded = 0
    /\ out    = << >>
    /\ count  = 0
    /\ guest  = [i \in Line |-> 0]

-----------------------------------------------------------------------------
(* Faulty variants of steps below, each a slip the code could have made.   *)

\* The drain trusts the generation it sees at the end of the scan.
ScanDoneReload ==
    /\ bridge = "scan"
    /\ at = NumSlots
    /\ irqGen' = gen
    /\ count' = Len(out)
    /\ bridge' = "apply"
    /\ UNCHANGED <<sstVars, shadow, at, loaded, out, guest>>

\* A drain whose output is full counts as complete.
ScanReadComplete ==
    /\ bridge = "read"
    /\ out' = Append(out, <<at, level[at]>>)
    /\ IF Len(out) + 1 = MaxOut
         THEN /\ bridge' = "apply"
              /\ count' = MaxOut
              /\ irqGen' = loaded
              /\ UNCHANGED at
         ELSE /\ bridge' = "scan"
              /\ at' = at + 1
              /\ UNCHANGED <<count, irqGen>>
    /\ UNCHANGED <<sstVars, shadow, loaded, guest>>

\* Only a rising level is passed on.
ApplyRising ==
    /\ bridge = "apply"
    /\ out # << >>
    /\ guest' = [guest EXCEPT ![Head(out)[1]] = IF Head(out)[2] = 1 THEN 1 ELSE @]
    /\ out' = Tail(out)
    /\ UNCHANGED <<sstVars, shadow, irqGen, at, loaded, count, bridge>>

\* The counters are compared as an order instead of for equality.
ScanSlotOrdered ==
    /\ bridge = "scan"
    /\ at < NumSlots
    /\ IF seq[at] <= shadow[at]
         THEN /\ at' = at + 1
              /\ UNCHANGED <<shadow, bridge>>
         ELSE /\ shadow' = [shadow EXCEPT ![at] = seq[at]]
              /\ bridge' = "read"
              /\ UNCHANGED at
    /\ UNCHANGED <<sstVars, irqGen, loaded, out, count, guest>>

-----------------------------------------------------------------------------
(* SST: handleIrqEvent and postIrq.                                        *)

\* A device event for vCPU 0 stores the level; an event for another vCPU is
\* fatal in system mode and never reaches the mailbox.
PostLevel(i, l) ==
    /\ post = Quiet
    /\ i \in Line
    /\ Ahead(irqGen, gen) < SeqMod - 1
    /\ level' = [level EXCEPT ![i] = l]
    /\ post' = [store |-> "seq", slot |-> i]
    /\ UNCHANGED <<seq, gen, clientVars, bridge, guest>>

PostSeq ==
    /\ post.store = "seq"
    /\ seq' = [seq EXCEPT ![post.slot] = Bump(@)]
    /\ post' = [post EXCEPT !.store = "gen"]
    /\ UNCHANGED <<level, gen, clientVars, bridge, guest>>

PostGen ==
    /\ post.store = "gen"
    /\ gen' = Bump(gen)
    /\ post' = Quiet
    /\ UNCHANGED <<level, seq, clientVars, bridge, guest>>

-----------------------------------------------------------------------------
(* QEMU: sst_mmio_bridge_irq_poll and quetz_ipc_irq_drain.                 *)

\* The timer fires, or the last drain filled its output: load the generation.
Drain ==
    /\ bridge \in {"idle", "again"}
    /\ IF gen = irqGen
         THEN /\ count' = 0
              /\ bridge' = "apply"
              /\ UNCHANGED <<loaded, at>>
         ELSE /\ loaded' = gen
              /\ at' = 0
              /\ bridge' = "scan"
              /\ UNCHANGED count
    /\ out' = << >>
    /\ UNCHANGED <<sstVars, shadow, irqGen, guest>>

ScanSlot ==
    /\ bridge = "scan"
    /\ at < NumSlots
    /\ IF seq[at] = shadow[at]
         THEN /\ at' = at + 1
              /\ UNCHANGED <<shadow, bridge>>
         ELSE /\ shadow' = [shadow EXCEPT ![at] = seq[at]]
              /\ bridge' = "read"
              /\ UNCHANGED at
    /\ UNCHANGED <<sstVars, irqGen, loaded, out, count, guest>>

\* The level is read after the sequence number; a full output ends the scan
\* and leaves irq_gen stale.
ScanRead ==
    /\ bridge = "read"
    /\ out' = Append(out, <<at, level[at]>>)
    /\ IF Len(out) + 1 = MaxOut
         THEN /\ bridge' = "apply"
              /\ count' = MaxOut
              /\ UNCHANGED at
         ELSE /\ bridge' = "scan"
              /\ at' = at + 1
              /\ UNCHANGED count
    /\ UNCHANGED <<sstVars, shadow, irqGen, loaded, guest>>

ScanDone ==
    /\ bridge = "scan"
    /\ at = NumSlots
    /\ irqGen' = loaded
    /\ count' = Len(out)
    /\ bridge' = "apply"
    /\ UNCHANGED <<sstVars, shadow, at, loaded, out, guest>>

\* qemu_set_irq for one change; a change posted for another vCPU, to which no
\* controller is wired, ends QEMU.
Apply ==
    /\ bridge = "apply"
    /\ out # << >>
    /\ IF Head(out)[1] \in Line
         THEN /\ guest' = [guest EXCEPT ![Head(out)[1]] = Head(out)[2]]
              /\ UNCHANGED bridge
         ELSE /\ bridge' = "exited"
              /\ UNCHANGED guest
    /\ out' = Tail(out)
    /\ UNCHANGED <<sstVars, shadow, irqGen, at, loaded, count>>

\* Drain again after a full output, otherwise re-arm the timer.
ApplyDone ==
    /\ bridge = "apply"
    /\ out = << >>
    /\ bridge' = IF count = MaxOut THEN "again" ELSE "idle"
    /\ UNCHANGED <<sstVars, clientVars, guest>>

-----------------------------------------------------------------------------
Post   == (\E i \in Slot, l \in {0, 1} : PostLevel(i, l)) \/ PostSeq \/ PostGen
Bridge == Drain \/ ScanSlot \/ ScanRead \/ ScanDone \/ Apply \/ ApplyDone

Next == Post \/ Bridge

Spec == Init /\ [][Next]_vars

\* A started postIrq finishes, and QEMU's virtual-time timer keeps firing.
FairSpec == Spec /\ WF_vars(PostSeq \/ PostGen) /\ WF_vars(Bridge)

-----------------------------------------------------------------------------
\* Levels are 0 or 1, the counters stay within their width, and the drain
\* returns levels of existing slots.
TypeOK ==
    /\ level  \in [Slot -> {0, 1}]
    /\ seq    \in [Slot -> Seq32]
    /\ gen    \in Seq32
    /\ post   \in [store : {"none", "seq", "gen"}, slot : Slot]
    /\ shadow \in [Slot -> Seq32]
    /\ irqGen \in Seq32
    /\ bridge \in {"idle", "again", "scan", "read", "apply", "exited"}
    /\ at     \in 0..NumSlots
    /\ loaded \in Seq32
    /\ out    \in Seq(Slot \X {0, 1})
    /\ count  \in 0..MaxOut
    /\ guest  \in [Line -> {0, 1}]

\* No level change is lost between the unlocked sides: once a poll has nothing
\* left to do (no post in progress, the generation is the shadow's), every line
\* of the interrupt controller has the level SST posted last.
NoLostChange ==
    bridge \in {"idle", "again"} /\ post.store = "none" /\ gen = irqGen
        => \A i \in Line : guest[i] = level[i]

\* The bridge never meets a change for a vCPU it has no wires for, so it never
\* exits: handleIrqEvent refuses such events before the mailbox.
NeverExits == bridge # "exited"

\* A wrapped counter never makes a moved slot look unmoved: as long as SST
\* stays less than SeqMod changes ahead, a slot is no further ahead of its
\* shadow than the generation is of the client's.
WrapSafe ==
    \A i \in Slot :
        Ahead(shadow[i], seq[i])
            <= Ahead(irqGen, gen) + (IF post.store = "gen" /\ post.slot = i THEN 1 ELSE 0)

\* A level that SST leaves in place reaches the interrupt controller and stays.
EventuallyApplied ==
    \A i \in Line, l \in {0, 1} : <>[](level[i] = l) => <>[](guest[i] = l)
=============================================================================
