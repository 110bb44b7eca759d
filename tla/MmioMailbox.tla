---------------------------- MODULE MmioMailbox ----------------------------
(***************************************************************************)
(* The synchronous MMIO mailbox between QEMU and SST.                      *)
(*                                                                         *)
(* Every vCPU has one slot in shared memory.  A QEMU thread that faults on *)
(* an aperture (quetz_ipc_mmio_read / quetz_ipc_mmio_write), or that       *)
(* executes a cache-maintenance instruction (cb_cache_op in the plugin),   *)
(* takes the slot's `busy' lock, stores the request fields, publishes      *)
(* `pending', waits for `ready', consumes `value' and releases the lock.   *)
(* SST is one thread: its clock handler polls `pending', copies the        *)
(* request, and answers it now or when the memory system responds.         *)
(*                                                                         *)
(* One action is one access to shared memory, except that SST's four loads *)
(* of the request fields are one step.  Release/acquire pairs of the code  *)
(* order the plain accesses around them, so interleaving the accesses is   *)
(* exact as long as RaceFree holds.  Futex sleeps are explicit: a sleeper  *)
(* leaves by a wake or by its 1 ms timeout.                                *)
(*                                                                         *)
(* A call is the pair of its producer and its number, so two calls never   *)
(* look alike; the answer SST computes for a call is the call itself.      *)
(***************************************************************************)
EXTENDS Naturals

CONSTANTS
    Producers,   \* QEMU threads that may issue mailbox calls
    Slots,       \* vCPU indices below numCores
    MaxCalls,    \* bound on the calls of one producer
    None         \* "no call": the zero stored by clear_slot, an empty field

ASSUME MaxCallsAssumption == MaxCalls \in Nat

Call == Producers \X (1..MaxCalls)

ASSUME NoneAssumption == None \notin Call \cup (Call \X Call) \cup Slots

VARIABLES
    busy,        \* mmio_req[v].busy: the slot lock
    pending,     \* mmio_req[v].pending
    addr,        \* mmio_req[v].addr and size
    body,        \* mmio_req[v].write_val and cmd
    ready,       \* mmio_slot[v].ready
    value,       \* mmio_slot[v].value
    pc,          \* program counter of each producer
    slot,        \* the vCPU argument of the producer's current call
    kind,        \* "mmio" for a read or write, "cache" for cb_cache_op
    calls,       \* number of calls the producer has begun
    result,      \* what the producer's last call returned
    sst,         \* SST thread: program counter and slot it works on
    job,         \* request SST has taken from the slot and not answered yet
    served       \* how often SST dispatched each call (history)

shared == <<busy, pending, addr, body, ready, value>>
local  == <<pc, slot, kind, calls, result>>
vars   == <<shared, local, sst, job, served>>

Cur(p) == <<p, calls[p]>>

Idle == [pc |-> "idle", v |-> None]

\* The program counters between taking the lock and releasing it.
Publishing == {"check", "clearReady", "clearValue", "addr", "body", "publish"}
Waiting    == {"wait", "waitSleep"}
Consuming  == {"read", "clear"}
InSection  == Publishing \cup Waiting \cup Consuming \cup {"unlock"}
PC         == {"idle", "lock", "lockSleep", "wake", "fatal"} \cup InSection

Init ==
    /\ busy    = [v \in Slots |-> 0]
    /\ pending = [v \in Slots |-> 0]
    /\ addr    = [v \in Slots |-> None]
    /\ body    = [v \in Slots |-> None]
    /\ ready   = [v \in Slots |-> 0]
    /\ value   = [v \in Slots |-> None]
    /\ pc      = [p \in Producers |-> "idle"]
    /\ slot    = [p \in Producers |-> None]
    /\ kind    = [p \in Producers |-> "mmio"]
    /\ calls   = [p \in Producers |-> 0]
    /\ result  = [p \in Producers |-> None]
    /\ sst     = Idle
    /\ job     = [v \in Slots |-> None]
    /\ served  = [c \in Call |-> 0]

-----------------------------------------------------------------------------
Goto(p, from, to) ==
    /\ pc[p] = from
    /\ pc' = [pc EXCEPT ![p] = to]

(* Faulty variants of steps below, each a slip the code could have made.   *)

\* The lock is taken without looking at its old value.
LockTakeBlind(p) ==
    /\ pc[p] = "lock"
    /\ busy' = [busy EXCEPT ![slot[p]] = 1]
    /\ pc' = [pc EXCEPT ![p] = IF kind[p] = "cache" THEN "check" ELSE "clearReady"]
    /\ UNCHANGED <<pending, addr, body, ready, value, slot, kind, calls, result,
                   sst, job, served>>

\* The lock is released as soon as the request is published.
PublishAndRelease(p) ==
    /\ Goto(p, "publish", "wait")
    /\ pending' = [pending EXCEPT ![slot[p]] = 1]
    /\ busy' = [busy EXCEPT ![slot[p]] = 0]
    /\ UNCHANGED <<addr, body, ready, value, slot, kind, calls, result,
                   sst, job, served>>

\* pending is raised before the last field is stored.
StoreAddrAndPublish(p) ==
    /\ Goto(p, "addr", "body")
    /\ addr' = [addr EXCEPT ![slot[p]] = Cur(p)]
    /\ pending' = [pending EXCEPT ![slot[p]] = 1]
    /\ UNCHANGED <<busy, body, ready, value, slot, kind, calls, result,
                   sst, job, served>>

\* The response flag is left for the next call to clear.
ConsumeReadyLeft(p) ==
    /\ Goto(p, "clear", "unlock")
    /\ UNCHANGED <<shared, slot, kind, calls, result, sst, job, served>>

\* pending survives the dispatch.
SstDispatchTwice(v) ==
    /\ sst = [pc |-> "dispatch", v |-> v]
    /\ served' = [served EXCEPT ![job[v][1]] = @ + 1]
    /\ sst' = Idle
    /\ UNCHANGED <<shared, local, job>>

\* The response is posted without its wake.
SstWakeNobody(v) ==
    /\ sst = [pc |-> "wakeup", v |-> v]
    /\ sst' = Idle
    /\ UNCHANGED <<shared, local, job, served>>

-----------------------------------------------------------------------------
(* The producer: quetz_ipc_mmio_read, quetz_ipc_mmio_write, cb_cache_op.   *)

\* A call on a vCPU that has a mailbox goes for the lock.
Begin(p, v, k) ==
    /\ calls[p] < MaxCalls
    /\ Goto(p, "idle", "lock")
    /\ slot'  = [slot EXCEPT ![p] = v]
    /\ kind'  = [kind EXCEPT ![p] = k]
    /\ calls' = [calls EXCEPT ![p] = @ + 1]
    /\ UNCHANGED <<shared, result, sst, job, served>>

\* vcpu >= numCores: the read returns 0 and the write returns at once.
Reject(p) ==
    /\ pc[p] = "idle"
    /\ result' = [result EXCEPT ![p] = None]
    /\ UNCHANGED <<shared, pc, slot, kind, calls, sst, job, served>>

\* quetz_ipc_lock: compare-and-swap of busy from 0 to 1.
LockTake(p) ==
    /\ pc[p] = "lock"
    /\ busy[slot[p]] = 0
    /\ busy' = [busy EXCEPT ![slot[p]] = 1]
    /\ pc' = [pc EXCEPT ![p] = IF kind[p] = "cache" THEN "check" ELSE "clearReady"]
    /\ UNCHANGED <<pending, addr, body, ready, value, slot, kind, calls, result,
                   sst, job, served>>

\* quetz_ipc_lock: FUTEX_WAIT(busy, 1) sleeps only while busy is still 1.
LockSleep(p) ==
    /\ Goto(p, "lock", "lockSleep")
    /\ busy[slot[p]] = 1
    /\ UNCHANGED <<shared, slot, kind, calls, result, sst, job, served>>

LockTimeout(p) ==
    /\ Goto(p, "lockSleep", "lock")
    /\ UNCHANGED <<shared, slot, kind, calls, result, sst, job, served>>

\* cb_cache_op refuses a slot whose flags are not both clear.
CacheCheck(p) ==
    /\ pc[p] = "check"
    /\ pc' = [pc EXCEPT ![p] =
                 IF pending[slot[p]] = 0 /\ ready[slot[p]] = 0 THEN "addr" ELSE "fatal"]
    /\ UNCHANGED <<shared, slot, kind, calls, result, sst, job, served>>

\* clear_slot: ready, then value.
ClearReady(p) ==
    /\ Goto(p, "clearReady", "clearValue")
    /\ ready' = [ready EXCEPT ![slot[p]] = 0]
    /\ UNCHANGED <<busy, pending, addr, body, value, slot, kind, calls, result,
                   sst, job, served>>

ClearValue(p) ==
    /\ Goto(p, "clearValue", "addr")
    /\ value' = [value EXCEPT ![slot[p]] = None]
    /\ UNCHANGED <<busy, pending, addr, body, ready, slot, kind, calls, result,
                   sst, job, served>>

StoreAddr(p) ==
    /\ Goto(p, "addr", "body")
    /\ addr' = [addr EXCEPT ![slot[p]] = Cur(p)]
    /\ UNCHANGED <<busy, pending, body, ready, value, slot, kind, calls, result,
                   sst, job, served>>

StoreBody(p) ==
    /\ Goto(p, "body", "publish")
    /\ body' = [body EXCEPT ![slot[p]] = Cur(p)]
    /\ UNCHANGED <<busy, pending, addr, ready, value, slot, kind, calls, result,
                   sst, job, served>>

Publish(p) ==
    /\ Goto(p, "publish", "wait")
    /\ pending' = [pending EXCEPT ![slot[p]] = 1]
    /\ UNCHANGED <<busy, addr, body, ready, value, slot, kind, calls, result,
                   sst, job, served>>

\* wait_slot: leave the loop once ready is set.
SeeReady(p) ==
    /\ Goto(p, "wait", "read")
    /\ ready[slot[p]] # 0
    /\ UNCHANGED <<shared, slot, kind, calls, result, sst, job, served>>

\* wait_slot: FUTEX_WAIT(ready, 0) sleeps only while ready is still 0.
WaitSleep(p) ==
    /\ Goto(p, "wait", "waitSleep")
    /\ ready[slot[p]] = 0
    /\ UNCHANGED <<shared, slot, kind, calls, result, sst, job, served>>

WaitTimeout(p) ==
    /\ Goto(p, "waitSleep", "wait")
    /\ UNCHANGED <<shared, slot, kind, calls, result, sst, job, served>>

\* The value is read while ready is still set; cb_cache_op ignores it.
ReadValue(p) ==
    /\ Goto(p, "read", "clear")
    /\ result' = [result EXCEPT ![p] = value[slot[p]]]
    /\ UNCHANGED <<shared, slot, kind, calls, sst, job, served>>

ConsumeReady(p) ==
    /\ Goto(p, "clear", "unlock")
    /\ ready' = [ready EXCEPT ![slot[p]] = 0]
    /\ UNCHANGED <<busy, pending, addr, body, value, slot, kind, calls, result,
                   sst, job, served>>

\* quetz_ipc_unlock: store 0, then FUTEX_WAKE one sleeper.
Unlock(p) ==
    /\ Goto(p, "unlock", "wake")
    /\ busy' = [busy EXCEPT ![slot[p]] = 0]
    /\ UNCHANGED <<pending, addr, body, ready, value, slot, kind, calls, result,
                   sst, job, served>>

UnlockWake(p) ==
    /\ pc[p] = "wake"
    /\ LET sleepers == {q \in Producers : pc[q] = "lockSleep" /\ slot[q] = slot[p]}
       IN  IF sleepers = {}
           THEN pc' = [pc EXCEPT ![p] = "idle"]
           ELSE \E q \in sleepers : pc' = [pc EXCEPT ![p] = "idle", ![q] = "lock"]
    /\ UNCHANGED <<shared, slot, kind, calls, result, sst, job, served>>

-----------------------------------------------------------------------------
(* SST: pollMmioSyncMailbox, the answer to a taken request, postResponse.  *)

\* The acquire-load of pending finds a request.
SstPoll(v) ==
    /\ sst = Idle
    /\ pending[v] = 1
    /\ sst' = [pc |-> "copy", v |-> v]
    /\ UNCHANGED <<shared, local, job, served>>

\* cmd, addr, size and write_val are copied.
SstCopy(v) ==
    /\ sst = [pc |-> "copy", v |-> v]
    /\ job' = [job EXCEPT ![v] = <<addr[v], body[v]>>]
    /\ sst' = [sst EXCEPT !.pc = "dispatch"]
    /\ UNCHANGED <<shared, local, served>>

\* pending is cleared and handleMmioSyncCommand starts the request.
SstDispatch(v) ==
    /\ sst = [pc |-> "dispatch", v |-> v]
    /\ pending' = [pending EXCEPT ![v] = 0]
    /\ served' = [served EXCEPT ![job[v][1]] = @ + 1]
    /\ sst' = Idle
    /\ UNCHANGED <<busy, addr, body, ready, value, local, job>>

\* The request is answered at once or after its memory response; the answer
\* is computed from the copied fields.
SstAnswer(v) ==
    /\ sst = Idle
    /\ job[v] # None
    /\ value' = [value EXCEPT ![v] = job[v][2]]
    /\ sst' = [pc |-> "post", v |-> v]
    /\ UNCHANGED <<busy, pending, addr, body, ready, local, job, served>>

SstPostReady(v) ==
    /\ sst = [pc |-> "post", v |-> v]
    /\ ready' = [ready EXCEPT ![v] = 1]
    /\ job' = [job EXCEPT ![v] = None]
    /\ sst' = [sst EXCEPT !.pc = "wakeup"]
    /\ UNCHANGED <<busy, pending, addr, body, value, local, served>>

\* FUTEX_WAKE of one thread asleep on ready.
SstWake(v) ==
    /\ sst = [pc |-> "wakeup", v |-> v]
    /\ LET sleepers == {q \in Producers : pc[q] = "waitSleep" /\ slot[q] = v}
       IN  IF sleepers = {}
           THEN pc' = pc
           ELSE \E q \in sleepers : pc' = [pc EXCEPT ![q] = "wait"]
    /\ sst' = Idle
    /\ UNCHANGED <<shared, slot, kind, calls, result, job, served>>

-----------------------------------------------------------------------------
Producer(p) ==
    \/ \E v \in Slots, k \in {"mmio", "cache"} : Begin(p, v, k)
    \/ Reject(p)
    \/ LockTake(p) \/ LockSleep(p) \/ LockTimeout(p)
    \/ CacheCheck(p) \/ ClearReady(p) \/ ClearValue(p)
    \/ StoreAddr(p) \/ StoreBody(p) \/ Publish(p)
    \/ SeeReady(p) \/ WaitSleep(p) \/ WaitTimeout(p)
    \/ ReadValue(p) \/ ConsumeReady(p) \/ Unlock(p) \/ UnlockWake(p)

Sst(v) ==
    \/ SstPoll(v) \/ SstCopy(v) \/ SstDispatch(v)
    \/ SstAnswer(v) \/ SstPostReady(v) \/ SstWake(v)

Next ==
    \/ \E p \in Producers : Producer(p)
    \/ \E v \in Slots : Sst(v)

Spec == Init /\ [][Next]_vars

\* A QEMU thread inside a call keeps running.  It is not assumed to win the
\* lock against competitors, and no futex timeout is assumed to fire.  SST
\* polls every slot in every tick, and the memory system answers every
\* request, so what stays possible for a slot is not put off forever.
Steps(p) ==
    \/ LockTake(p) \/ LockSleep(p)
    \/ CacheCheck(p) \/ ClearReady(p) \/ ClearValue(p)
    \/ StoreAddr(p) \/ StoreBody(p) \/ Publish(p)
    \/ SeeReady(p) \/ WaitSleep(p)
    \/ ReadValue(p) \/ ConsumeReady(p) \/ Unlock(p) \/ UnlockWake(p)

Fairness ==
    /\ \A p \in Producers : WF_vars(Steps(p))
    /\ \A v \in Slots :
           /\ SF_vars(SstPoll(v))
           /\ SF_vars(SstAnswer(v))
           /\ WF_vars(SstCopy(v) \/ SstDispatch(v) \/ SstPostReady(v) \/ SstWake(v))

FairSpec == Spec /\ Fairness

-----------------------------------------------------------------------------
\* Flags are 0 or 1, every field holds a call that was really made, and every
\* thread is at a point of its program.
TypeOK ==
    /\ busy    \in [Slots -> {0, 1}]
    /\ pending \in [Slots -> {0, 1}]
    /\ addr    \in [Slots -> Call \cup {None}]
    /\ body    \in [Slots -> Call \cup {None}]
    /\ ready   \in [Slots -> {0, 1}]
    /\ value   \in [Slots -> Call \cup {None}]
    /\ pc      \in [Producers -> PC]
    /\ slot    \in [Producers -> Slots \cup {None}]
    /\ kind    \in [Producers -> {"mmio", "cache"}]
    /\ calls   \in [Producers -> 0..MaxCalls]
    /\ result  \in [Producers -> Call \cup {None}]
    /\ sst     \in {Idle} \cup [pc : {"copy", "dispatch", "post", "wakeup"}, v : Slots]
    /\ job     \in [Slots -> (Call \X Call) \cup {None}]
    /\ served  \in [Call -> Nat]

\* A producer past its lock call has the slot to itself until it unlocks, and
\* the lock word says so: quetz_ipc_lock arbitrates the client threads and the
\* plugin's cache operations alike.
ExclusiveSlot ==
    /\ \A p, q \in Producers :
          pc[p] \in InSection /\ pc[q] \in InSection /\ slot[p] = slot[q] => p = q
    /\ \A v \in Slots :
          busy[v] = 1 <=> \E p \in Producers : slot[p] = v /\ pc[p] \in InSection

\* A call that has read its response holds the answer to that very call, not
\* to a competitor's, an earlier one's, or the zero of clear_slot: wait_slot
\* reads `value' only after the matching postResponse.
OwnAnswer ==
    \A p \in Producers : pc[p] \in {"clear", "unlock", "wake"} => result[p] = Cur(p)

\* SST dispatches a published call exactly once before the call returns, and
\* never dispatches one that was not made: a store to a device register has
\* one effect (pollMmioSyncMailbox clears pending before it dispatches).
ExactlyOnce ==
    \A p \in Producers : \A n \in 1..MaxCalls :
        /\ served[<<p, n>>] <= 1
        /\ n > calls[p] => served[<<p, n>>] = 0
        /\ n < calls[p] \/ (n = calls[p] /\ pc[p] \in {"read", "clear", "unlock", "wake", "idle"})
              => served[<<p, n>>] = 1

\* "synchronous cache mailbox already in use" is unreachable: whoever gets the
\* lock finds both flags clear, so cb_cache_op never ends the simulation here.
MailboxFree == \A p \in Producers : pc[p] # "fatal"

\* The plain (non-atomic) fields are never accessed by both sides at once: SST
\* copies the request only while the owner waits, and stores the value only
\* then, so neither a torn request nor a torn response exists.
RaceFree ==
    \A p \in Producers :
        /\ sst.v = slot[p] /\ sst.pc \in {"copy", "dispatch", "post"} /\ pc[p] \in InSection
              => pc[p] \in Waiting
        /\ pc[p] \in InSection /\ job[slot[p]] # None
              => /\ pc[p] \in Waiting
                 /\ job[slot[p]] = <<Cur(p), Cur(p)>>

\* Every call that holds its slot returns, with no help from the 1 ms futex
\* timeouts: the wake of postResponse is never missed.  And while somebody waits
\* for a slot's lock, somebody eventually owns it: the wake of quetz_ipc_unlock
\* cannot be lost, even though it follows the store and a newcomer may take the
\* lock in between.
CallReturns ==
    /\ \A p \in Producers : pc[p] \in InSection ~> pc[p] = "idle"
    /\ \A v \in Slots :
          (\E p \in Producers : slot[p] = v /\ pc[p] \in {"lock", "lockSleep"})
              ~> (\E p \in Producers : slot[p] = v /\ pc[p] \in InSection)

-----------------------------------------------------------------------------
(* The mailbox implements MmioService.  A call executes when SST takes it  *)
(* out of the slot, completes when ready is set and returns when its value *)
(* is read.                                                                *)

\* The stage of a call whose producer is at c, from its slot's pending flag and
\* the request SST holds for the slot.
StageOf(c, pend, taken) ==
    CASE c \in {"idle", "clear", "unlock", "wake"} -> "idle"
      [] c = "read" -> "answered"
      [] c \in Waiting /\ pend = 0 -> IF taken = None THEN "answered" ELSE "executing"
      [] OTHER -> "asked"

stageBar == [p \in Producers |-> StageOf(pc[p], pending[slot[p]], job[slot[p]])]

inServiceBar ==
    [v \in Slots |-> IF pending[v] = 0 /\ job[v] # None THEN job[v][1] ELSE None]

Service == INSTANCE MmioService
    WITH stage <- stageBar, target <- slot, number <- calls, reply <- result,
         inService <- inServiceBar

\* The lock, the flags and the wakes together behave like a service that runs
\* one call per vCPU at a time and gives each call its own answer.
ImplementsService == Service!Spec
=============================================================================
