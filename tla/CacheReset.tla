----------------------------- MODULE CacheReset -----------------------------
(***************************************************************************)
(* CPU resets meeting cached mailbox requests.                             *)
(*                                                                         *)
(* A board reset bumps the vCPU's reset epoch (quetz_ipc_cpu_reset) before *)
(* the CPU runs again.  SST's poll loads the epoch, resets the vCPU's      *)
(* window cache if it moved, then loads `pending' and serves a request:    *)
(* two loads, with the guest running in between.  A transaction issues     *)
(* backing requests one at a time; the responses of different vCPUs come   *)
(* back in any order (WindowCacheBank).                                    *)
(*                                                                         *)
(* The cache itself is WindowCache; here it is its control state ("on"     *)
(* after an enabling movec, "off" after reset), whether a transaction is   *)
(* active and how many backing requests it still needs.                    *)
(***************************************************************************)
EXTENDS Naturals

CONSTANTS
    NumCpus,     \* vCPUs, polled in order (one or two in the code)
    MaxResets,   \* bound on the resets of one vCPU
    MaxBacking   \* bound on the backing requests of one transaction

ASSUME CpuAssumption == NumCpus \in Nat \ {0} /\ MaxResets \in Nat /\ MaxBacking \in Nat

Cpu == 0..(NumCpus - 1)

VARIABLES
    resets,      \* reset_epochs[]: kept by QEMU, also before it attaches
    attached,    \* QEMU's client is attached
    epoch,       \* shared cpu_reset_epoch[]
    vcpu,        \* "run" or "wait" (blocked in a mailbox call)
    op,          \* the call's operation: enabling movec, or an access
    gctl,        \* cache control as the program must see it (history)
    asked,       \* mmio_req[].pending
    ready,       \* mmio_slot[].ready
    sst,         \* poll position: [pc, v]
    seen,        \* cache_reset_epochs_[]
    ctl,         \* cacr_ of each cache
    busy,        \* active_ of each cache
    outstanding, \* State::outstanding of each vCPU
    need,        \* backing requests the transaction still needs
    fatal,       \* why SST stopped, or "no"
    used,        \* control state the last access was served with (history)
    late         \* a request was served with a reset still unseen (history)

cpuVars   == <<resets, attached, epoch, vcpu, op, gctl>>
bankVars  == <<ctl, busy, outstanding, need, used, late>>
resetVars == <<cpuVars, asked, ready, sst, seen, bankVars, fatal>>

Between == [pc |-> "idle", v |-> 0]

ResetInit ==
    /\ resets = [v \in Cpu |-> 0]
    /\ attached = FALSE
    /\ epoch = [v \in Cpu |-> 0]
    /\ vcpu = [v \in Cpu |-> "run"]
    /\ op = [v \in Cpu |-> "access"]
    /\ gctl = [v \in Cpu |-> "off"]
    /\ asked = [v \in Cpu |-> 0]
    /\ ready = [v \in Cpu |-> 0]
    /\ sst = Between
    /\ seen = [v \in Cpu |-> 0]
    /\ ctl = [v \in Cpu |-> "off"]
    /\ busy = [v \in Cpu |-> FALSE]
    /\ outstanding = [v \in Cpu |-> FALSE]
    /\ need = [v \in Cpu |-> 0]
    /\ fatal = "no"
    /\ used = [v \in Cpu |-> "off"]
    /\ late = [v \in Cpu |-> FALSE]

-----------------------------------------------------------------------------
(* QEMU.                                                                   *)

\* quetz_ipc_attach publishes the resets that happened before it.
Attach ==
    /\ ~attached
    /\ attached' = TRUE
    /\ epoch' = resets
    /\ UNCHANGED <<resets, vcpu, op, gctl, asked, ready, sst, seen, bankVars, fatal>>

\* quetz_ipc_cpu_reset, before the CPU executes: it is in no call.
CpuReset(v) ==
    /\ vcpu[v] = "run"
    /\ resets[v] < MaxResets
    /\ resets' = [resets EXCEPT ![v] = @ + 1]
    /\ epoch' = IF attached THEN [epoch EXCEPT ![v] = resets[v] + 1] ELSE epoch
    /\ gctl' = [gctl EXCEPT ![v] = "off"]
    /\ UNCHANGED <<attached, vcpu, op, asked, ready, sst, seen, bankVars, fatal>>

Request(v, o) ==
    /\ attached
    /\ vcpu[v] = "run"
    /\ vcpu' = [vcpu EXCEPT ![v] = "wait"]
    /\ op' = [op EXCEPT ![v] = o]
    /\ asked' = [asked EXCEPT ![v] = 1]
    /\ UNCHANGED <<resets, attached, epoch, gctl, ready, sst, seen, bankVars, fatal>>

Return(v) ==
    /\ vcpu[v] = "wait"
    /\ ready[v] = 1
    /\ ready' = [ready EXCEPT ![v] = 0]
    /\ vcpu' = [vcpu EXCEPT ![v] = "run"]
    /\ gctl' = [gctl EXCEPT ![v] = IF op[v] = "enable" THEN "on" ELSE @]
    /\ UNCHANGED <<resets, attached, epoch, op, asked, sst, seen, bankVars, fatal>>

-----------------------------------------------------------------------------
(* SST.                                                                    *)

Tick ==
    /\ fatal = "no" /\ sst = Between
    /\ sst' = [pc |-> "epoch", v |-> 0]
    /\ UNCHANGED <<cpuVars, asked, ready, seen, bankVars, fatal>>

\* Faulty variant of PollEpoch: the epoch is remembered but the cache is not
\* reset.
PollEpochForgets ==
    /\ fatal = "no" /\ sst.pc = "epoch"
    /\ seen' = [seen EXCEPT ![sst.v] = epoch[sst.v]]
    /\ sst' = [sst EXCEPT !.pc = "pending"]
    /\ UNCHANGED <<cpuVars, asked, ready, bankVars, fatal>>

\* resetCore refuses while a transaction is active; that is fatal.
PollEpoch ==
    /\ fatal = "no" /\ sst.pc = "epoch"
    /\ IF epoch[sst.v] = seen[sst.v]
         THEN /\ sst' = [sst EXCEPT !.pc = "pending"]
              /\ UNCHANGED <<seen, ctl, fatal>>
         ELSE IF outstanding[sst.v] \/ busy[sst.v]
         THEN /\ fatal' = "reset"
              /\ UNCHANGED <<seen, ctl, sst>>
         ELSE /\ ctl' = [ctl EXCEPT ![sst.v] = "off"]
              /\ seen' = [seen EXCEPT ![sst.v] = epoch[sst.v]]
              /\ sst' = [sst EXCEPT !.pc = "pending"]
              /\ UNCHANGED fatal
    /\ UNCHANGED <<cpuVars, asked, ready, busy, outstanding, need, used, late>>

Advance(v) == IF v = NumCpus - 1 THEN Between ELSE [pc |-> "epoch", v |-> v + 1]

PollNothing ==
    /\ fatal = "no" /\ sst.pc = "pending"
    /\ asked[sst.v] = 0
    /\ sst' = Advance(sst.v)
    /\ UNCHANGED <<cpuVars, asked, ready, seen, bankVars, fatal>>

\* Faulty variant: a transaction without backing requests is not answered.
PollServeSilent(k) ==
    /\ fatal = "no" /\ sst.pc = "pending"
    /\ asked[sst.v] = 1
    /\ op[sst.v] = "enable" => k = 0
    /\ asked' = [asked EXCEPT ![sst.v] = 0]
    /\ need' = [need EXCEPT ![sst.v] = k]
    /\ busy' = [busy EXCEPT ![sst.v] = k > 0]
    /\ outstanding' = [outstanding EXCEPT ![sst.v] = k > 0]
    /\ sst' = Advance(sst.v)
    /\ UNCHANGED <<cpuVars, seen, ready, ctl, used, late, fatal>>

\* The request starts a transaction; next asks for k backing requests or none.
PollServe(k) ==
    /\ fatal = "no" /\ sst.pc = "pending"
    /\ asked[sst.v] = 1
    /\ op[sst.v] = "enable" => k = 0
    /\ asked' = [asked EXCEPT ![sst.v] = 0]
    /\ IF busy[sst.v]
         THEN /\ fatal' = "overlap"
              /\ UNCHANGED <<ready, sst, bankVars>>
         ELSE /\ late' = [late EXCEPT ![sst.v] = @ \/ epoch[sst.v] # seen[sst.v]]
              /\ need' = [need EXCEPT ![sst.v] = k]
              /\ busy' = [busy EXCEPT ![sst.v] = k > 0]
              /\ outstanding' = [outstanding EXCEPT ![sst.v] = k > 0]
              /\ ready' = IF k = 0 THEN [ready EXCEPT ![sst.v] = 1] ELSE ready
              /\ IF op[sst.v] = "enable"
                   THEN ctl' = [ctl EXCEPT ![sst.v] = "on"] /\ UNCHANGED used
                   ELSE used' = [used EXCEPT ![sst.v] = ctl[sst.v]] /\ UNCHANGED ctl
              /\ sst' = Advance(sst.v)
              /\ UNCHANGED fatal
    /\ UNCHANGED <<cpuVars, seen>>

\* A memory response: complete, then the next backing request or the answer.
Response(v) ==
    /\ fatal = "no" /\ sst = Between
    /\ outstanding[v]
    /\ need' = [need EXCEPT ![v] = @ - 1]
    /\ outstanding' = [outstanding EXCEPT ![v] = need[v] > 1]
    /\ busy' = [busy EXCEPT ![v] = need[v] > 1]
    /\ ready' = IF need[v] = 1 THEN [ready EXCEPT ![v] = 1] ELSE ready
    /\ UNCHANGED <<cpuVars, asked, sst, seen, ctl, used, late, fatal>>

-----------------------------------------------------------------------------
Guest(v) == CpuReset(v) \/ (\E o \in {"enable", "access"} : Request(v, o)) \/ Return(v)

Poll == Tick \/ PollEpoch \/ PollNothing \/ (\E k \in 0..MaxBacking : PollServe(k))

ResetNext ==
    \/ Attach
    \/ \E v \in Cpu : Guest(v) \/ Response(v)
    \/ Poll

ResetSpec == ResetInit /\ [][ResetNext]_resetVars

\* SST keeps ticking, and the memory system answers every backing request even
\* though the ticks go on.
FairResetSpec ==
    /\ ResetSpec
    /\ WF_resetVars(Poll)
    /\ \A v \in Cpu : SF_resetVars(Response(v)) /\ WF_resetVars(Return(v))

-----------------------------------------------------------------------------
\* The window between the poll's two loads is the only way a reset goes wrong.
\* Unless a request was served in it, the caches follow the resets exactly (also
\* the ones from before the attach, and several between two polls): accesses
\* are served under the program's control state, a vCPU in no call whose resets
\* were all seen has that state in its cache, and no reset stops the simulation.
\* And transactions never overlap: a cache that waits for its backing response
\* belongs to a vCPU in its call, whose request was taken and is not answered.
OnlyTheWindow ==
    /\ \A v \in Cpu : /\ outstanding[v] <=> busy[v]
                      /\ busy[v] => vcpu[v] = "wait" /\ asked[v] = 0 /\ ready[v] = 0
    /\ fatal = "reset" => \E v \in Cpu : late[v]
    /\ \A v \in Cpu : ~late[v] =>
         /\ op[v] = "access" /\ (busy[v] \/ ready[v] = 1) => used[v] = gctl[v]
         /\ attached /\ seen[v] = resets[v] /\ vcpu[v] = "run" => ctl[v] = gctl[v]

\* Every reset reaches the cache and every vCPU blocked in a call gets its
\* response, unless SST has stopped.
Progress ==
    \A v \in Cpu :
        /\ attached /\ seen[v] # resets[v] ~> (seen[v] = resets[v] \/ fatal # "no")
        /\ vcpu[v] = "wait" ~> (vcpu[v] = "run" \/ fatal # "no")

\* "architectural cache control state resets normally": an access is served
\* under the control state the program has at that point, so after a reset it
\* is served with the cache off.
ControlsMatch ==
    \A v \in Cpu :
        op[v] = "access" /\ (busy[v] \/ ready[v] = 1) => used[v] = gctl[v]
=============================================================================
