------------------------- MODULE MmioMailboxProofs -------------------------
(***************************************************************************)
(* Proofs that the mailbox keeps its promises for any number of producers, *)
(* vCPUs and calls: the inductive invariant IInv, type correctness, what a *)
(* step may change without disturbing anyone else, the steps of SST and    *)
(* those of the producers, the refinement of MmioService, and the          *)
(* conclusions.                                                            *)
(*                                                                         *)
(* At the end, the segment the mailbox lies in (SharedSegment): which      *)
(* setups its creator and its reader agree on, and that every byte of      *)
(* native RAM is one byte of the segment for both.                         *)
(***************************************************************************)
EXTENDS MmioMailbox, SharedSegment, FiniteSetTheorems, TLAPS

-----------------------------------------------------------------------------
(* The inductive invariant: who owns a slot, and what the owner's program  *)
(* counter says about the slot's flags, the SST thread and the history.    *)

\* SST is between loading pending and storing ready for slot v.
Engaged(v) == sst.v = v /\ sst.pc \in {"copy", "dispatch", "post"}

\* Nothing is in flight in slot v.
Quiet(v) ==
    /\ pending[v] = 0
    /\ ready[v] = 0
    /\ job[v] = None
    /\ ~Engaged(v)

\* The owner's request is published and SST has not dispatched it.
Asked(p) ==
    /\ pending[slot[p]] = 1
    /\ ready[slot[p]] = 0
    /\ addr[slot[p]] = Cur(p)
    /\ body[slot[p]] = Cur(p)
    /\ served[Cur(p)] = 0
    /\ \/ sst = [pc |-> "dispatch", v |-> slot[p]] /\ job[slot[p]] = <<Cur(p), Cur(p)>>
       \/ /\ job[slot[p]] = None
          /\ Engaged(slot[p]) => sst.pc = "copy"

\* SST has dispatched it and not yet set ready.
Working(p) ==
    /\ pending[slot[p]] = 0
    /\ ready[slot[p]] = 0
    /\ job[slot[p]] = <<Cur(p), Cur(p)>>
    /\ served[Cur(p)] = 1
    /\ Engaged(slot[p]) => sst.pc = "post" /\ value[slot[p]] = Cur(p)

\* The response is in the slot.
Answered(p) ==
    /\ pending[slot[p]] = 0
    /\ ready[slot[p]] = 1
    /\ job[slot[p]] = None
    /\ value[slot[p]] = Cur(p)
    /\ served[Cur(p)] = 1
    /\ ~Engaged(slot[p])

Stage(p) ==
    /\ pc[p] # "fatal"
    /\ pc[p] # "idle" => slot[p] \in Slots /\ calls[p] \in 1..MaxCalls
    /\ pc[p] \in {"lock", "lockSleep"} \cup Publishing => served[Cur(p)] = 0
    /\ pc[p] \in Publishing \cup {"unlock"} => Quiet(slot[p])
    /\ pc[p] \in {"body", "publish"} => addr[slot[p]] = Cur(p)
    /\ pc[p] = "publish" => body[slot[p]] = Cur(p)
    /\ pc[p] \in Waiting => Asked(p) \/ Working(p) \/ Answered(p)
    /\ pc[p] \in Consuming => Answered(p)
    /\ pc[p] \in {"clear", "unlock", "wake"} => result[p] = Cur(p)
    /\ pc[p] \in {"unlock", "wake", "idle"} /\ calls[p] > 0 => served[Cur(p)] = 1

\* A free slot is quiet.
FreeQuiet == \A v \in Slots : busy[v] = 0 => Quiet(v)

\* Calls before the current one were dispatched once, later ones never.
History ==
    \A p \in Producers : \A n \in 1..MaxCalls :
        /\ n < calls[p] => served[<<p, n>>] = 1
        /\ n > calls[p] => served[<<p, n>>] = 0

IInv ==
    /\ TypeOK
    /\ ExclusiveSlot
    /\ \A p \in Producers : Stage(p)
    /\ FreeQuiet
    /\ History
-----------------------------------------------------------------------------
(* Type correctness.  The dispatch indexes the history by the copied call, *)
(* so it needs the part of the invariant that says what was copied.        *)

LEMMA CurIsCall ==
    ASSUME IInv, NEW p \in Producers, pc[p] # "idle"
    PROVE  Cur(p) \in Call /\ slot[p] \in Slots
BY Zenon DEF IInv, Stage, Cur, Call

\* Whatever SST has in hand belongs to a producer waiting for it.
LEMMA OwnerWaits ==
    ASSUME IInv, NEW v \in Slots, pending[v] = 1 \/ job[v] # None \/ Engaged(v)
    PROVE  \E p \in Producers : slot[p] = v /\ pc[p] \in Waiting /\ (Asked(p) \/ Working(p))
<1>1. busy[v] = 1
  BY Zenon DEF IInv, FreeQuiet, Quiet, TypeOK
<1>2. PICK p \in Producers : slot[p] = v /\ pc[p] \in InSection
  BY <1>1, Zenon DEF IInv, ExclusiveSlot
<1>3. pc[p] \notin Publishing \cup {"unlock"}
  BY <1>2 DEF IInv, Stage, Quiet
<1>4. ~Answered(p)
  BY <1>2 DEF Answered
<1>5. pc[p] \in Waiting
  BY <1>2, <1>3, <1>4, Zenon DEF IInv, Stage, InSection
<1> QED
  BY <1>2, <1>4, <1>5, Zenon DEF IInv, Stage

LEMMA TypeStep ==
    ASSUME IInv, [Next]_vars
    PROVE  TypeOK'
<1> TypeOK
  BY Zenon DEF IInv
<1> USE DEF TypeOK
<1>1. CASE \E p \in Producers : Producer(p)
  <2> PICK p \in Producers : Producer(p)
    BY <1>1, Zenon
  <2>1. CASE \E v \in Slots, k \in {"mmio", "cache"} : Begin(p, v, k)
    BY <2>1, MaxCallsAssumption DEF Begin, Goto, shared, PC
  <2>2. CASE Reject(p)
    BY <2>2, Zenon DEF Reject, shared
  <2>3. CASE LockTake(p)
    BY <2>3, CurIsCall, Zenon DEF LockTake, Goto, shared, PC, InSection, Publishing, Waiting, Consuming
  <2>4. CASE LockSleep(p)
    BY <2>4, CurIsCall, Zenon DEF LockSleep, Goto, shared, PC, InSection, Publishing, Waiting, Consuming
  <2>5. CASE LockTimeout(p)
    BY <2>5, CurIsCall, Zenon DEF LockTimeout, Goto, shared, PC, InSection, Publishing, Waiting, Consuming
  <2>6. CASE CacheCheck(p)
    BY <2>6, CurIsCall, Zenon DEF CacheCheck, Goto, shared, PC, InSection, Publishing, Waiting, Consuming
  <2>7. CASE ClearReady(p)
    BY <2>7, CurIsCall, Zenon DEF ClearReady, Goto, shared, PC, InSection, Publishing, Waiting, Consuming
  <2>8. CASE ClearValue(p)
    BY <2>8, CurIsCall, Zenon DEF ClearValue, Goto, shared, PC, InSection, Publishing, Waiting, Consuming
  <2>9. CASE StoreAddr(p)
    BY <2>9, CurIsCall, Zenon DEF StoreAddr, Goto, shared, PC, InSection, Publishing, Waiting, Consuming
  <2>10. CASE StoreBody(p)
    BY <2>10, CurIsCall, Zenon DEF StoreBody, Goto, shared, PC, InSection, Publishing, Waiting, Consuming
  <2>11. CASE Publish(p)
    BY <2>11, CurIsCall, Zenon DEF Publish, Goto, shared, PC, InSection, Publishing, Waiting, Consuming
  <2>12. CASE SeeReady(p)
    BY <2>12, CurIsCall, Zenon DEF SeeReady, Goto, shared, PC, InSection, Publishing, Waiting, Consuming
  <2>13. CASE WaitSleep(p)
    BY <2>13, CurIsCall, Zenon DEF WaitSleep, Goto, shared, PC, InSection, Publishing, Waiting, Consuming
  <2>14. CASE WaitTimeout(p)
    BY <2>14, CurIsCall, Zenon DEF WaitTimeout, Goto, shared, PC, InSection, Publishing, Waiting, Consuming
  <2>15. CASE ReadValue(p)
    BY <2>15, CurIsCall, Zenon DEF ReadValue, Goto, shared, PC, InSection, Publishing, Waiting, Consuming
  <2>16. CASE ConsumeReady(p)
    BY <2>16, CurIsCall, Zenon DEF ConsumeReady, Goto, shared, PC, InSection, Publishing, Waiting, Consuming
  <2>17. CASE Unlock(p)
    BY <2>17, CurIsCall, Zenon DEF Unlock, Goto, shared, PC, InSection, Publishing, Waiting, Consuming
  <2>18. CASE UnlockWake(p)
    BY <2>18, CurIsCall, Zenon DEF UnlockWake, Goto, shared, PC, InSection, Publishing, Waiting, Consuming
  <2> QED
    BY <2>1, <2>2, <2>3, <2>4, <2>5, <2>6, <2>7, <2>8, <2>9, <2>10, <2>11, <2>12, <2>13,
       <2>14, <2>15, <2>16, <2>17, <2>18, ZenonT(20) DEF Producer
<1>2. CASE \E v \in Slots : Sst(v)
  <2> PICK v \in Slots : Sst(v)
    BY <1>2, Zenon
  <2>1. CASE SstPoll(v)
    BY <2>1, Zenon DEF SstPoll, Idle, shared, local
  <2>2. CASE SstCopy(v)
    <3>1. PICK p \in Producers : slot[p] = v /\ pc[p] \in Waiting /\ (Asked(p) \/ Working(p))
      BY <2>2, OwnerWaits, Zenon DEF SstCopy, Engaged
    <3>2. Asked(p) /\ Cur(p) \in Call
      BY <2>2, <3>1, CurIsCall, Zenon DEF SstCopy, Engaged, Working, Waiting
    <3> QED
      BY <2>2, <3>1, <3>2 DEF SstCopy, Idle, shared, local, Asked
  <2>3. CASE SstDispatch(v)
    <3>1. PICK p \in Producers : slot[p] = v /\ pc[p] \in Waiting /\ (Asked(p) \/ Working(p))
      BY <2>3, OwnerWaits, Zenon DEF SstDispatch, Engaged
    <3>2. job[v] = <<Cur(p), Cur(p)>> /\ Cur(p) \in Call
      BY <2>3, <3>1, CurIsCall, Zenon DEF SstDispatch, Engaged, Asked, Working, Waiting
    <3> QED
      BY <2>3, <3>2 DEF SstDispatch, Idle, shared, local
  <2>4. CASE SstAnswer(v)
    BY <2>4, Zenon DEF SstAnswer, Idle, shared, local
  <2>5. CASE SstPostReady(v)
    BY <2>5, Zenon DEF SstPostReady, Idle, shared, local
  <2>6. CASE SstWake(v)
    BY <2>6, Zenon DEF SstWake, Idle, shared, PC, InSection, Waiting
  <2> QED
    BY <2>1, <2>2, <2>3, <2>4, <2>5, <2>6, Zenon DEF Sst
<1>3. CASE UNCHANGED vars
  BY <1>3, Zenon DEF vars, shared, local
<1> QED
  BY <1>1, <1>2, <1>3, Zenon DEF Next
-----------------------------------------------------------------------------
(* The frame.  A producer changes only the slot it owns; SST changes only  *)
(* the slot whose owner waits.                                             *)

\* The parts of the invariant, and the types of the variables most steps need.
LEMMA Parts ==
    ASSUME IInv
    PROVE  /\ TypeOK /\ ExclusiveSlot /\ FreeQuiet /\ History
           /\ \A q \in Producers : Stage(q)
           /\ pc \in [Producers -> PC] /\ slot \in [Producers -> Slots \cup {None}]
           /\ calls \in [Producers -> 0..MaxCalls] /\ busy \in [Slots -> {0, 1}]
BY Zenon DEF IInv, TypeOK

\* The mailbox fields are functions on the slots.
LEMMA Fields ==
    ASSUME IInv
    PROVE  /\ pending \in [Slots -> {0, 1}] /\ ready \in [Slots -> {0, 1}]
           /\ addr \in [Slots -> Call \cup {None}] /\ body \in [Slots -> Call \cup {None}]
           /\ value \in [Slots -> Call \cup {None}]
           /\ job \in [Slots -> (Call \X Call) \cup {None}]
           /\ result \in [Producers -> Call \cup {None}]
           /\ served \in [Call -> Nat]
BY Zenon DEF IInv, TypeOK

\* A producer relies on its own locals, on the slot it owns and on the history
\* of its call.  Falling asleep and waking up change nothing it relies on.
LEMMA StageKept ==
    ASSUME NEW q \in Producers, Stage(q),
           slot'[q] = slot[q], calls'[q] = calls[q], result'[q] = result[q],
           \/ pc'[q] = pc[q]
           \/ pc[q] \in {"lock", "lockSleep"} /\ pc'[q] \in {"lock", "lockSleep"}
           \/ pc[q] \in Waiting /\ pc'[q] \in Waiting,
           calls[q] > 0 => served'[Cur(q)] = served[Cur(q)],
           pc[q] \in InSection =>
              /\ pending'[slot[q]] = pending[slot[q]] /\ ready'[slot[q]] = ready[slot[q]]
              /\ addr'[slot[q]] = addr[slot[q]] /\ body'[slot[q]] = body[slot[q]]
              /\ value'[slot[q]] = value[slot[q]] /\ job'[slot[q]] = job[slot[q]]
              /\ sst' = sst \/ (~Engaged(slot[q]) /\ ~Engaged(slot[q])')
    PROVE  Stage(q)'
<1>1. Cur(q)' = Cur(q) /\ (pc[q] # "idle" => calls[q] > 0)
  BY DEF Cur, Stage
<1>2. CASE pc[q] \in InSection
  <2>1. served'[Cur(q)] = served[Cur(q)]
    BY <1>1, <1>2, Zenon DEF InSection, Publishing, Waiting, Consuming
  <2>2. Engaged(slot[q])' <=> Engaged(slot[q])
    BY <1>2, Zenon DEF Engaged
  <2>3. Quiet(slot[q]) => Quiet(slot[q])'
    BY <1>2, <2>2, Zenon DEF Quiet
  <2>4. Asked(q) => Asked(q)'
    BY <1>1, <1>2, <2>1, <2>2 DEF Asked, Engaged
  <2>5. Working(q) => Working(q)'
    BY <1>1, <1>2, <2>1, <2>2, Zenon DEF Working, Engaged
  <2>6. Answered(q) => Answered(q)'
    BY <1>1, <1>2, <2>1, <2>2, Zenon DEF Answered
  <2>8. CASE pc[q] \in Waiting /\ pc'[q] \in Waiting
    BY <1>1, <2>4, <2>5, <2>6, <2>8, Zenon DEF Stage, Publishing, Waiting, Consuming
  <2>9. CASE pc'[q] = pc[q]
    <3>1. pc'[q] # "fatal" /\ (pc'[q] # "idle" => slot'[q] \in Slots /\ calls'[q] \in 1..MaxCalls)
      BY <2>9, Zenon DEF Stage
    <3>2. pc'[q] \in {"lock", "lockSleep"} \cup Publishing => served'[Cur(q)'] = 0
      BY <1>1, <2>1, <2>9, Zenon DEF Stage
    <3>3. pc'[q] \in Publishing \cup {"unlock"} => Quiet(slot[q])'
      BY <2>3, <2>9, Zenon DEF Stage
    <3>4. /\ pc'[q] \in {"body", "publish"} => addr'[slot'[q]] = Cur(q)'
          /\ pc'[q] = "publish" => body'[slot'[q]] = Cur(q)'
      BY <1>1, <1>2, <2>9, Zenon DEF Stage
    <3>5. /\ pc'[q] \in Waiting => Asked(q)' \/ Working(q)' \/ Answered(q)'
          /\ pc'[q] \in Consuming => Answered(q)'
      BY <2>4, <2>5, <2>6, <2>9, Zenon DEF Stage
    <3>6. /\ pc'[q] \in {"clear", "unlock", "wake"} => result'[q] = Cur(q)'
          /\ pc'[q] \in {"unlock", "wake", "idle"} /\ calls'[q] > 0 => served'[Cur(q)'] = 1
      BY <1>1, <2>1, <2>9, Zenon DEF Stage
    <3> QED
      BY <3>1, <3>2, <3>3, <3>4, <3>5, <3>6, Zenon DEF Stage
  <2> QED
    BY <1>2, <2>8, <2>9, Zenon DEF InSection, Publishing, Waiting, Consuming
<1>3. CASE pc[q] \notin InSection
  BY <1>1, <1>3, Zenon DEF Stage, InSection, Publishing, Waiting, Consuming
<1> QED
  BY <1>2, <1>3, Zenon

\* Ownership is a matter of busy, slot and who is in its section.
LEMMA OwnersKept ==
    ASSUME IInv, UNCHANGED <<busy, slot>>,
           \A q \in Producers : pc'[q] \in InSection <=> pc[q] \in InSection
    PROVE  ExclusiveSlot'
BY Parts, Zenon DEF ExclusiveSlot

\* Outside its section a producer touches no slot: the others, the free slots
\* and the history do not notice.
LEMMA OutsideFrame ==
    ASSUME IInv, NEW p \in Producers,
           UNCHANGED <<pending, addr, body, ready, value, sst, job, served>>,
           \A q \in Producers \ {p} :
              /\ slot'[q] = slot[q] /\ calls'[q] = calls[q] /\ result'[q] = result[q]
              /\ \/ pc'[q] = pc[q]
                 \/ pc[q] \in {"lock", "lockSleep"} /\ pc'[q] \in {"lock", "lockSleep"}
    PROVE  /\ \A q \in Producers \ {p} : Stage(q)'
           /\ \A v : Quiet(v)' <=> Quiet(v)
           /\ busy' = busy => FreeQuiet'
           /\ calls' = calls => History'
<1>1. ASSUME NEW q \in Producers, q # p PROVE Stage(q)'
  <2>1. Stage(q)
    BY Parts, Zenon
  <2> QED
    BY <1>1, <2>1, StageKept, Zenon
<1>2. \A v : Quiet(v)' <=> Quiet(v)
  BY Zenon DEF Quiet, Engaged
<1>3. busy' = busy => FreeQuiet'
  BY <1>2, Parts, Zenon DEF FreeQuiet
<1>4. calls' = calls => History'
  BY Parts, Zenon DEF History
<1> QED
  BY <1>1, <1>2, <1>3, <1>4, Zenon

\* Inside its section a producer changes its own slot only, so what is left to
\* show of such a step is the producer's own stage.
LEMMA OwnerFrame ==
    ASSUME IInv, TypeOK', NEW p \in Producers,
           pc[p] \in InSection, pc'[p] \in InSection, Stage(p)',
           UNCHANGED <<busy, slot, calls, sst, job, served>>,
           \A q \in Producers \ {p} : pc'[q] = pc[q] /\ result'[q] = result[q],
           \A w \in Slots \ {slot[p]} :
              /\ pending'[w] = pending[w] /\ ready'[w] = ready[w]
              /\ addr'[w] = addr[w] /\ body'[w] = body[w] /\ value'[w] = value[w]
    PROVE  IInv'
<1>1. ExclusiveSlot'
  BY OwnersKept, Zenon
<1>2. slot[p] \in Slots /\ busy[slot[p]] = 1
  BY Parts, Zenon DEF Stage, ExclusiveSlot, InSection, Publishing, Waiting, Consuming
<1>3. ASSUME NEW q \in Producers, q # p PROVE Stage(q)'
  <2>1. Stage(q)
    BY Parts, Zenon
  <2>2. pc[q] \in InSection => slot[q] \in Slots \ {slot[p]}
    <3>1. pc[q] \in InSection => slot[q] \in Slots
      BY <2>1, Zenon DEF Stage, InSection, Publishing, Waiting, Consuming
    <3>2. pc[q] \in InSection => slot[q] # slot[p]
      BY <1>3, Parts, Zenon DEF ExclusiveSlot
    <3> QED
      BY <3>1, <3>2, Zenon
  <2> QED
    BY <1>3, <2>1, <2>2, StageKept, Zenon
<1>4. FreeQuiet'
  <2>1. ASSUME NEW v \in Slots, busy[v] = 0 PROVE Quiet(v)'
    <3>1. v # slot[p] /\ Quiet(v)
      BY <1>2, <2>1, Parts DEF FreeQuiet
    <3> QED
      BY <3>1, Zenon DEF Quiet, Engaged
  <2> QED
    BY <2>1, Zenon DEF FreeQuiet
<1>5. History'
  BY Parts, Zenon DEF History
<1> QED
  BY <1>1, <1>3, <1>4, <1>5, Zenon DEF IInv

-----------------------------------------------------------------------------
(* The steps of the SST thread preserve the invariant.                     *)

\* SST works on the slot of one waiting producer: everybody else's stage, the
\* free slots and the ownership are as before.
LEMMA SstFrame ==
    ASSUME IInv, TypeOK', NEW p \in Producers, pc[p] \in Waiting, Stage(p)',
           UNCHANGED <<local, busy, addr, body>>,
           \A w \in Slots \ {slot[p]} :
              /\ pending'[w] = pending[w] /\ ready'[w] = ready[w]
              /\ value'[w] = value[w] /\ job'[w] = job[w]
              /\ ~Engaged(w) /\ ~Engaged(w)',
           \A c \in Call \ {Cur(p)} : served'[c] = served[c]
    PROVE  IInv'
<1>1. UNCHANGED <<pc, slot, calls, result>>
  BY Zenon DEF local
<1>2. ExclusiveSlot'
  BY <1>1, OwnersKept, Zenon
<1>3. slot[p] \in Slots /\ busy[slot[p]] = 1
  BY Parts, ZenonT(30) DEF ExclusiveSlot, Stage, Waiting, InSection
<1>4. ASSUME NEW q \in Producers, q # p PROVE Stage(q)'
  <2>1. Stage(q)
    BY Parts, Zenon
  <2>2. calls[q] > 0 => served'[Cur(q)] = served[Cur(q)]
    <3>1. Cur(q) # Cur(p)
      BY <1>4, Zenon DEF Cur
    <3>2. calls[q] > 0 => Cur(q) \in Call
      BY Parts, MaxCallsAssumption DEF Cur, Call
    <3> QED
      BY <3>1, <3>2, Zenon
  <2>3. pc[q] \in InSection => slot[q] \in Slots \ {slot[p]}
    BY <1>4, <2>1, Parts, ZenonT(30) DEF ExclusiveSlot, Stage, InSection, Waiting, Publishing, Consuming
  <2> QED
    BY <1>1, <2>1, <2>2, <2>3, StageKept, Zenon
<1>5. FreeQuiet'
  <2>1. ASSUME NEW v \in Slots, busy[v] = 0 PROVE Quiet(v)'
    <3>1. v # slot[p] /\ Quiet(v)
      BY <1>3, <2>1, Parts DEF FreeQuiet
    <3> QED
      BY <3>1, Zenon DEF Quiet
  <2> QED
    BY <2>1, Zenon DEF FreeQuiet
<1>6. History'
  <2>1. ASSUME NEW q \in Producers, NEW n \in 1..MaxCalls, n # calls[q]
        PROVE  served'[<<q, n>>] = served[<<q, n>>]
    BY <2>1, Zenon DEF Cur, Call
  <2>2. ASSUME NEW q \in Producers, NEW n \in 1..MaxCalls
        PROVE  /\ n < calls[q] => served'[<<q, n>>] = 1
               /\ n > calls[q] => served'[<<q, n>>] = 0
    <3>1. n \in Nat /\ calls[q] \in Nat
      BY Parts, MaxCallsAssumption
    <3> QED
      BY <2>1, <3>1, Parts DEF History
  <2> QED
    BY <1>1, <2>2, Zenon DEF History
<1> QED
  BY <1>2, <1>4, <1>5, <1>6, Zenon DEF IInv

LEMMA SstStep ==
    ASSUME IInv, TypeOK', NEW v \in Slots, Sst(v)
    PROVE  IInv'
<1>1. CASE SstPoll(v)
  <2>1. /\ pending[v] = 1 /\ sst.pc = "idle" /\ sst.v = None /\ sst' = [pc |-> "copy", v |-> v]
        /\ UNCHANGED <<local, busy, addr, body, pending, ready, value, job, served>>
    BY <1>1, Zenon DEF SstPoll, shared, Idle
  <2>2. PICK p \in Producers : slot[p] = v /\ pc[p] \in Waiting /\ (Asked(p) \/ Working(p))
    <3>1. pending[v] = 1
      BY <2>1, Zenon
    <3> QED
      BY <3>1, OwnerWaits, Zenon
  <2>3. Asked(p) /\ UNCHANGED <<pc, slot, calls, result>> /\ Stage(p)
    <3>1. Asked(p)
      BY <2>1, <2>2, SMTT(30) DEF Asked, Working, Engaged
    <3> QED
      BY <2>1, <3>1, Parts, Zenon DEF local
  <2>4. Asked(p)'
    BY <2>1, <2>2, <2>3 DEF Asked, Engaged, Cur
  <2>5. Stage(p)'
    BY <2>2, <2>3, <2>4, Zenon DEF Stage, Publishing, Waiting, Consuming
  <2>6. \A w \in Slots \ {v} : ~Engaged(w) /\ ~Engaged(w)'
    BY <2>1, Zenon DEF Engaged
  <2> QED
    BY <2>1, <2>2, <2>5, <2>6, SstFrame, Zenon
<1>2. CASE SstCopy(v)
  <2>1. /\ sst.pc = "copy" /\ sst.v = v /\ sst' = [pc |-> "dispatch", v |-> v]
        /\ job' = [job EXCEPT ![v] = <<addr[v], body[v]>>]
        /\ job'[v] = <<addr[v], body[v]>> /\ \A w \in Slots \ {v} : job'[w] = job[w]
        /\ UNCHANGED <<local, busy, addr, body, pending, ready, value, served>>
    BY <1>2, Fields, Zenon DEF SstCopy, shared, Idle
  <2>2. PICK p \in Producers : slot[p] = v /\ pc[p] \in Waiting /\ (Asked(p) \/ Working(p))
    <3>1. Engaged(v)
      BY <2>1, Zenon DEF Engaged
    <3> QED
      BY <3>1, OwnerWaits, Zenon
  <2>3. Asked(p) /\ UNCHANGED <<pc, slot, calls, result>> /\ Stage(p)
    <3>1. Asked(p)
      BY <2>1, <2>2, Zenon DEF Asked, Working, Engaged
    <3> QED
      BY <2>1, <3>1, Parts, Zenon DEF local
  <2>4. Asked(p)'
    BY <2>1, <2>2, <2>3, Zenon DEF Asked, Engaged, Cur
  <2>5. Stage(p)'
    BY <2>2, <2>3, <2>4, Zenon DEF Stage, Publishing, Waiting, Consuming
  <2>6. \A w \in Slots \ {v} : ~Engaged(w) /\ ~Engaged(w)'
    BY <2>1, Zenon DEF Engaged
  <2> QED
    BY <2>1, <2>2, <2>5, <2>6, SstFrame, Zenon
<1>3. CASE SstDispatch(v)
  <2>1. /\ sst = [pc |-> "dispatch", v |-> v] /\ sst'.pc = "idle" /\ sst'.v = None
        /\ pending'[v] = 0 /\ \A w \in Slots \ {v} : pending'[w] = pending[w]
        /\ served' = [served EXCEPT ![job[v][1]] = @ + 1]
        /\ UNCHANGED <<local, busy, addr, body, ready, value, job>>
    BY <1>3, Fields, Zenon DEF SstDispatch, shared, Idle
  <2>2. PICK p \in Producers : slot[p] = v /\ pc[p] \in Waiting /\ (Asked(p) \/ Working(p))
    <3>1. Engaged(v)
      BY <2>1, Zenon DEF Engaged
    <3> QED
      BY <3>1, OwnerWaits, Zenon
  <2>3. Asked(p) /\ UNCHANGED <<pc, slot, calls, result>> /\ Stage(p)
    <3>1. Asked(p)
      BY <2>1, <2>2, Zenon DEF Asked, Working, Engaged
    <3> QED
      BY <2>1, <3>1, Parts, ZenonT(30) DEF local
  <2>a. job[v] = <<Cur(p), Cur(p)>> /\ Cur(p) \in Call
    <3>1. pc[p] # "idle"
      BY <2>2, Zenon DEF Waiting
    <3>2. Cur(p) \in Call
      BY <3>1, CurIsCall, Zenon
    <3>3. Engaged(v) /\ sst.pc # "copy"
      BY <2>1, Zenon DEF Engaged
    <3> QED
      BY <2>2, <2>3, <3>2, <3>3, Zenon DEF Asked
  <2>b. served'[Cur(p)] = 1 /\ \A c \in Call \ {Cur(p)} : served'[c] = served[c]
    BY <2>1, <2>3, <2>a, Fields DEF Asked
  <2>c. v # None
    BY NoneAssumption, Zenon
  <2>4. Working(p)'
    BY <2>1, <2>2, <2>3, <2>a, <2>b, <2>c, Zenon DEF Asked, Working, Engaged, Cur
  <2>5. Stage(p)'
    BY <2>2, <2>3, <2>4, Zenon DEF Stage, Publishing, Waiting, Consuming
  <2>6. \A w \in Slots \ {v} : ~Engaged(w) /\ ~Engaged(w)'
    BY <2>1, NoneAssumption, Zenon DEF Engaged
  <2> QED
    BY <2>1, <2>2, <2>5, <2>6, <2>b, SstFrame, Zenon
<1>4. CASE SstAnswer(v)
  <2>1. /\ sst.pc = "idle" /\ sst.v = None /\ sst' = [pc |-> "post", v |-> v]
        /\ job[v] # None
        /\ value'[v] = job[v][2] /\ \A w \in Slots \ {v} : value'[w] = value[w]
        /\ UNCHANGED <<local, busy, addr, body, pending, ready, job, served>>
    BY <1>4, Fields, Zenon DEF SstAnswer, shared, Idle
  <2>2. PICK p \in Producers : slot[p] = v /\ pc[p] \in Waiting /\ (Asked(p) \/ Working(p))
    <3>1. job[v] # None
      BY <2>1, Zenon
    <3> QED
      BY <3>1, OwnerWaits, Zenon
  <2>a. v # None /\ sst # [pc |-> "dispatch", v |-> v]
    BY <2>1, NoneAssumption
  <2>3. Working(p) /\ UNCHANGED <<pc, slot, calls, result>> /\ Stage(p)
    <3>1. Working(p)
      BY <2>1, <2>2, <2>a, Zenon DEF Asked, Working, Engaged
    <3> QED
      BY <2>1, <3>1, Parts, Zenon DEF local
  <2>4. Working(p)'
    BY <2>1, <2>2, <2>3 DEF Working, Engaged, Cur
  <2>5. Stage(p)'
    BY <2>2, <2>3, <2>4, Zenon DEF Stage, Publishing, Waiting, Consuming
  <2>6. \A w \in Slots \ {v} : ~Engaged(w) /\ ~Engaged(w)'
    BY <2>1, NoneAssumption, Zenon DEF Engaged
  <2> QED
    BY <2>1, <2>2, <2>5, <2>6, SstFrame, ZenonT(30)
<1>5. CASE SstPostReady(v)
  <2>1. /\ sst = [pc |-> "post", v |-> v] /\ sst' = [pc |-> "wakeup", v |-> v]
        /\ ready'[v] = 1 /\ \A w \in Slots \ {v} : ready'[w] = ready[w]
        /\ job'[v] = None /\ \A w \in Slots \ {v} : job'[w] = job[w]
        /\ UNCHANGED <<local, busy, addr, body, pending, value, served>>
    BY <1>5, Fields, Zenon DEF SstPostReady, shared, Idle
  <2>2. PICK p \in Producers : slot[p] = v /\ pc[p] \in Waiting /\ (Asked(p) \/ Working(p))
    <3>1. Engaged(v)
      BY <2>1, Zenon DEF Engaged
    <3> QED
      BY <3>1, OwnerWaits, Zenon
  <2>3. Working(p) /\ UNCHANGED <<pc, slot, calls, result>> /\ Stage(p)
    <3>1. Working(p)
      BY <2>1, <2>2, Zenon DEF Asked, Working, Engaged
    <3> QED
      BY <2>1, <3>1, Parts, Zenon DEF local
  <2>4. Answered(p)'
    BY <2>1, <2>2, <2>3, Zenon DEF Working, Answered, Engaged, Cur
  <2>5. Stage(p)'
    BY <2>2, <2>3, <2>4, Zenon DEF Stage, Publishing, Waiting, Consuming
  <2>6. \A w \in Slots \ {v} : ~Engaged(w) /\ ~Engaged(w)'
    BY <2>1, Zenon DEF Engaged
  <2> QED
    BY <2>1, <2>2, <2>5, <2>6, SstFrame, Zenon
<1>6. CASE SstWake(v)
  <2>1. /\ sst = [pc |-> "wakeup", v |-> v] /\ sst' = Idle
        /\ UNCHANGED <<busy, pending, addr, body, ready, value, slot, calls, result, job, served>>
    BY <1>6, Zenon DEF SstWake, shared
  <2>2. \A w \in Slots : ~Engaged(w) /\ ~Engaged(w)'
    BY <2>1, Zenon DEF Idle, Engaged
  <2>3. ASSUME NEW q \in Producers
        PROVE  pc'[q] = pc[q] \/ (pc[q] \in Waiting /\ pc'[q] \in Waiting)
    <3>1. pc \in [Producers -> PC]
      BY Parts, Zenon
    <3>2. pc' = pc \/ \E r \in Producers : pc[r] = "waitSleep" /\ pc' = [pc EXCEPT ![r] = "wait"]
      BY <1>6, Zenon DEF SstWake
    <3> QED
      BY <3>1, <3>2, Zenon DEF Waiting
  <2>4. ExclusiveSlot'
    BY <2>1, <2>3, OwnersKept, Zenon DEF InSection
  <2>5. ASSUME NEW q \in Producers PROVE Stage(q)'
    <3>1. Stage(q)
      BY Parts, Zenon
    <3>2. pc[q] \in InSection => slot[q] \in Slots
      BY <3>1, Zenon DEF Stage, InSection, Publishing, Waiting, Consuming
    <3> QED
      BY <2>1, <2>2, <2>3, <3>1, <3>2, StageKept, Zenon
  <2>6. FreeQuiet'
    BY <2>1, <2>2, Parts, Zenon DEF FreeQuiet, Quiet
  <2>7. History'
    BY <2>1, Parts, Zenon DEF History
  <2> QED
    BY <2>4, <2>5, <2>6, <2>7, Zenon DEF IInv
<1> QED
  BY <1>1, <1>2, <1>3, <1>4, <1>5, <1>6, Zenon DEF Sst

-----------------------------------------------------------------------------
(* The steps of a producer, one case per action.                           *)

LEMMA ProducerStep ==
    ASSUME IInv, TypeOK', NEW p \in Producers, Producer(p)
    PROVE  IInv'
<1> Stage(p) /\ pc \in [Producers -> PC]
  BY Parts, Zenon
<1>1. CASE \E v \in Slots, k \in {"mmio", "cache"} : Begin(p, v, k)
  <2> PICK v \in Slots, k \in {"mmio", "cache"} : Begin(p, v, k)
    BY <1>1, Zenon
  <2>1. /\ pc[p] = "idle" /\ pc' = [pc EXCEPT ![p] = "lock"]
        /\ slot' = [slot EXCEPT ![p] = v] /\ calls' = [calls EXCEPT ![p] = @ + 1]
        /\ calls[p] < MaxCalls
        /\ UNCHANGED <<busy, pending, addr, body, ready, value, result, sst, job, served>>
    BY Zenon DEF Begin, Goto, shared
  <2>2. ExclusiveSlot'
    BY <2>1, Parts DEF ExclusiveSlot, InSection, Publishing, Waiting, Consuming
  <2>3. /\ \A q \in Producers \ {p} : Stage(q)'
        /\ FreeQuiet'
    BY <2>1, OutsideFrame, Parts, Zenon
  <2>4. Stage(p)'
    <3>1. calls[p] \in Nat /\ calls[p] + 1 \in 1..MaxCalls
      BY <2>1, Parts, MaxCallsAssumption
    <3>2. served[<<p, calls[p] + 1>>] = 0
      BY <3>1, Parts DEF History
    <3>3. pc'[p] = "lock" /\ slot'[p] = v /\ calls'[p] = calls[p] + 1 /\ served' = served
      BY <2>1, Parts, Zenon
    <3> QED
      BY <3>1, <3>2, <3>3, Zenon DEF Stage, Cur, Publishing, Waiting, Consuming
  <2>5. History'
    <3>1. calls[p] > 0 => served[<<p, calls[p]>>] = 1
      BY <2>1, Zenon DEF Stage, Cur
    <3>2. ASSUME NEW n \in 1..MaxCalls
          PROVE  /\ n < calls[p] + 1 => served[<<p, n>>] = 1
                 /\ n > calls[p] + 1 => served[<<p, n>>] = 0
      <4>1. n \in Nat /\ n > 0 /\ calls[p] \in Nat
        BY Parts, MaxCallsAssumption
      <4>2. n < calls[p] + 1 => n < calls[p] \/ n = calls[p]
        BY <4>1
      <4>3. n > calls[p] + 1 => n > calls[p]
        BY <4>1
      <4>4. n = calls[p] => served[<<p, n>>] = 1
        BY <3>1, <4>1, Zenon
      <4> QED
        BY <4>2, <4>3, <4>4, Parts, Zenon DEF History
    <3> QED
      BY <2>1, <3>2, Parts, Zenon DEF History
  <2> QED
    BY <2>2, <2>3, <2>4, <2>5, Zenon DEF IInv
<1>2. CASE Reject(p)
  <2>1. /\ pc[p] = "idle" /\ \A q \in Producers \ {p} : result'[q] = result[q]
        /\ UNCHANGED <<busy, pending, addr, body, ready, value, pc, slot, calls, sst, job, served>>
    BY <1>2, Parts, Zenon DEF Reject, shared, TypeOK
  <2>2. Stage(p)'
    BY <2>1, Zenon DEF Stage, Cur, Publishing, Waiting, Consuming
  <2> QED
    BY <2>1, <2>2, OwnersKept, OutsideFrame, Zenon DEF IInv
<1>3. CASE LockTake(p)
  <2>1. /\ pc[p] = "lock" /\ busy[slot[p]] = 0 /\ slot[p] \in Slots
        /\ pc' \in {[pc EXCEPT ![p] = "check"], [pc EXCEPT ![p] = "clearReady"]}
        /\ busy' = [busy EXCEPT ![slot[p]] = 1]
        /\ UNCHANGED <<pending, addr, body, ready, value, slot, calls, result, sst, job, served>>
    BY <1>3, Zenon DEF LockTake, Stage
  <2>2. ExclusiveSlot'
    <3>1. \A q \in Producers : pc[q] \in InSection => slot[q] # slot[p]
      BY <2>1, Parts DEF ExclusiveSlot
    <3>2. pc'[p] \in InSection /\ \A q \in Producers \ {p} : pc'[q] = pc[q]
      BY <2>1, Zenon DEF InSection, Publishing
    <3>3. \A v \in Slots : busy'[v] = IF v = slot[p] THEN 1 ELSE busy[v]
      BY <2>1, Parts, Zenon
    <3>4. pc[p] \notin InSection
      BY <2>1, Zenon DEF InSection, Publishing, Waiting, Consuming
    <3> QED
      BY <2>1, <3>1, <3>2, <3>3, <3>4, Parts, SMTT(30) DEF ExclusiveSlot
  <2>3. /\ \A q \in Producers \ {p} : Stage(q)'
        /\ \A v : Quiet(v)' <=> Quiet(v)
        /\ History'
    BY <2>1, OutsideFrame, Zenon
  <2>4. Stage(p)'
    <3>1. Quiet(slot[p])'
      BY <2>1, <2>3, Parts, Zenon DEF FreeQuiet
    <3>2. pc'[p] \in {"check", "clearReady"}
      BY <2>1, Zenon
    <3> QED
      BY <2>1, <3>1, <3>2, Zenon DEF Stage, Cur, Publishing, Waiting, Consuming
  <2>5. FreeQuiet'
    BY <2>1, <2>3, Parts, Zenon DEF FreeQuiet
  <2> QED
    BY <2>2, <2>3, <2>4, <2>5, Zenon DEF IInv
<1>4. CASE LockSleep(p)
  <2>1. /\ pc[p] = "lock" /\ pc' = [pc EXCEPT ![p] = "lockSleep"]
        /\ UNCHANGED <<busy, pending, addr, body, ready, value, slot, calls, result, sst, job, served>>
    BY <1>4, Zenon DEF LockSleep, Goto, shared
  <2>2. \A q \in Producers : pc'[q] \in InSection <=> pc[q] \in InSection
    BY <2>1, Zenon DEF InSection, Publishing, Waiting, Consuming
  <2>3. Stage(p)'
    BY <2>1, StageKept, Zenon DEF InSection, Publishing, Waiting, Consuming
  <2> QED
    BY <2>1, <2>2, <2>3, OwnersKept, OutsideFrame, Zenon DEF IInv
<1>5. CASE LockTimeout(p)
  <2>1. /\ pc[p] = "lockSleep" /\ pc' = [pc EXCEPT ![p] = "lock"]
        /\ UNCHANGED <<busy, pending, addr, body, ready, value, slot, calls, result, sst, job, served>>
    BY <1>5, Zenon DEF LockTimeout, Goto, shared
  <2>2. \A q \in Producers : pc'[q] \in InSection <=> pc[q] \in InSection
    BY <2>1, Zenon DEF InSection, Publishing, Waiting, Consuming
  <2>3. Stage(p)'
    BY <2>1, StageKept, Zenon DEF InSection, Publishing, Waiting, Consuming
  <2> QED
    BY <2>1, <2>2, <2>3, OwnersKept, OutsideFrame, Zenon DEF IInv
<1>6. CASE CacheCheck(p)
  <2>1. pc[p] = "check" /\ Quiet(slot[p])
    BY <1>6, Zenon DEF CacheCheck, Stage, Publishing
  <2>2. /\ pc' = [pc EXCEPT ![p] = "addr"]
        /\ UNCHANGED <<busy, pending, addr, body, ready, value, slot, calls, result, sst, job, served>>
    BY <1>6, <2>1, Zenon DEF CacheCheck, Quiet, shared
  <2>3. Stage(p)'
    BY <2>1, <2>2, Zenon DEF Stage, Quiet, Engaged, Cur, Publishing, Waiting, Consuming
  <2> QED
    BY <2>1, <2>2, <2>3, OwnerFrame, Zenon DEF InSection, Publishing
<1>7. CASE ClearReady(p)
  <2>1. /\ pc[p] = "clearReady" /\ pc' = [pc EXCEPT ![p] = "clearValue"]
        /\ ready' = [ready EXCEPT ![slot[p]] = 0]
        /\ UNCHANGED <<busy, pending, addr, body, value, result, slot, calls, sst, job, served>>
    BY <1>7, Zenon DEF ClearReady, Goto, shared
  <2>2. slot[p] \in Slots /\ ready \in [Slots -> {0, 1}]
    <3>1. slot[p] \in Slots
      BY <2>1, Zenon DEF Stage
    <3> QED
      BY <3>1, Fields, Zenon
  <2>3. Stage(p)'
    <3>1. pc'[p] = "clearValue" /\ Cur(p)' = Cur(p) /\ Quiet(slot[p])
      BY <2>1, Zenon DEF Stage, Cur, Publishing
    <3>2. Quiet(slot[p])'
      BY <2>1, <2>2, <3>1, Zenon DEF Quiet, Engaged
    <3> QED
      BY <2>1, <2>2, <3>1, <3>2, Zenon DEF Stage, Publishing, Waiting, Consuming
  <2>4. /\ pc[p] \in InSection /\ pc'[p] \in InSection
        /\ \A q \in Producers \ {p} : pc'[q] = pc[q] /\ result'[q] = result[q]
    BY <2>1, <2>2, Zenon DEF InSection, Publishing, Waiting, Consuming
  <2>5. \A w \in Slots \ {slot[p]} :
           /\ pending'[w] = pending[w] /\ ready'[w] = ready[w]
           /\ addr'[w] = addr[w] /\ body'[w] = body[w] /\ value'[w] = value[w]
    BY <2>1, <2>2, Zenon
  <2> QED
    BY <2>1, <2>3, <2>4, <2>5, OwnerFrame, Zenon
<1>8. CASE ClearValue(p)
  <2>1. /\ pc[p] = "clearValue" /\ pc' = [pc EXCEPT ![p] = "addr"]
        /\ value' = [value EXCEPT ![slot[p]] = None]
        /\ UNCHANGED <<busy, pending, addr, body, ready, result, slot, calls, sst, job, served>>
    BY <1>8, Zenon DEF ClearValue, Goto, shared
  <2>2. slot[p] \in Slots /\ value \in [Slots -> Call \cup {None}]
    <3>1. slot[p] \in Slots
      BY <2>1, Zenon DEF Stage
    <3> QED
      BY <3>1, Fields, Zenon
  <2>3. Stage(p)'
    <3>1. pc'[p] = "addr" /\ Cur(p)' = Cur(p) /\ Quiet(slot[p])
      BY <2>1, Zenon DEF Stage, Cur, Publishing
    <3>2. Quiet(slot[p])'
      BY <2>1, <2>2, <3>1, Zenon DEF Quiet, Engaged
    <3> QED
      BY <2>1, <2>2, <3>1, <3>2, Zenon DEF Stage, Publishing, Waiting, Consuming
  <2>4. /\ pc[p] \in InSection /\ pc'[p] \in InSection
        /\ \A q \in Producers \ {p} : pc'[q] = pc[q] /\ result'[q] = result[q]
    BY <2>1, <2>2, Zenon DEF InSection, Publishing, Waiting, Consuming
  <2>5. \A w \in Slots \ {slot[p]} :
           /\ pending'[w] = pending[w] /\ ready'[w] = ready[w]
           /\ addr'[w] = addr[w] /\ body'[w] = body[w] /\ value'[w] = value[w]
    BY <2>1, <2>2, Zenon
  <2> QED
    BY <2>1, <2>3, <2>4, <2>5, OwnerFrame, Zenon
<1>9. CASE StoreAddr(p)
  <2>1. /\ pc[p] = "addr" /\ pc' = [pc EXCEPT ![p] = "body"]
        /\ addr' = [addr EXCEPT ![slot[p]] = Cur(p)]
        /\ UNCHANGED <<busy, pending, body, ready, value, result, slot, calls, sst, job, served>>
    BY <1>9, Zenon DEF StoreAddr, Goto, shared
  <2>2. slot[p] \in Slots /\ addr \in [Slots -> Call \cup {None}]
    <3>1. slot[p] \in Slots
      BY <2>1, Zenon DEF Stage
    <3> QED
      BY <3>1, Fields, Zenon
  <2>3. Stage(p)'
    <3>1. pc'[p] = "body" /\ Cur(p)' = Cur(p) /\ Quiet(slot[p])
      BY <2>1, Zenon DEF Stage, Cur, Publishing
    <3>2. Quiet(slot[p])'
      BY <2>1, <2>2, <3>1, Zenon DEF Quiet, Engaged
    <3> QED
      BY <2>1, <2>2, <3>1, <3>2, Zenon DEF Stage, Publishing, Waiting, Consuming
  <2>4. /\ pc[p] \in InSection /\ pc'[p] \in InSection
        /\ \A q \in Producers \ {p} : pc'[q] = pc[q] /\ result'[q] = result[q]
    BY <2>1, <2>2, Zenon DEF InSection, Publishing, Waiting, Consuming
  <2>5. \A w \in Slots \ {slot[p]} :
           /\ pending'[w] = pending[w] /\ ready'[w] = ready[w]
           /\ addr'[w] = addr[w] /\ body'[w] = body[w] /\ value'[w] = value[w]
    BY <2>1, <2>2, Zenon
  <2> QED
    BY <2>1, <2>3, <2>4, <2>5, OwnerFrame, Zenon
<1>10. CASE StoreBody(p)
  <2>1. /\ pc[p] = "body" /\ pc' = [pc EXCEPT ![p] = "publish"]
        /\ body' = [body EXCEPT ![slot[p]] = Cur(p)]
        /\ UNCHANGED <<busy, pending, addr, ready, value, result, slot, calls, sst, job, served>>
    BY <1>10, Zenon DEF StoreBody, Goto, shared
  <2>2. slot[p] \in Slots /\ body \in [Slots -> Call \cup {None}]
    <3>1. slot[p] \in Slots
      BY <2>1, Zenon DEF Stage
    <3> QED
      BY <3>1, Fields, Zenon
  <2>3. Stage(p)'
    <3>1. pc'[p] = "publish" /\ Cur(p)' = Cur(p) /\ Quiet(slot[p])
      BY <2>1, Zenon DEF Stage, Cur, Publishing
    <3>2. Quiet(slot[p])'
      BY <2>1, <2>2, <3>1, Zenon DEF Quiet, Engaged
    <3> QED
      BY <2>1, <2>2, <3>1, <3>2, Zenon DEF Stage, Publishing, Waiting, Consuming
  <2>4. /\ pc[p] \in InSection /\ pc'[p] \in InSection
        /\ \A q \in Producers \ {p} : pc'[q] = pc[q] /\ result'[q] = result[q]
    BY <2>1, <2>2, Zenon DEF InSection, Publishing, Waiting, Consuming
  <2>5. \A w \in Slots \ {slot[p]} :
           /\ pending'[w] = pending[w] /\ ready'[w] = ready[w]
           /\ addr'[w] = addr[w] /\ body'[w] = body[w] /\ value'[w] = value[w]
    BY <2>1, <2>2, Zenon
  <2> QED
    BY <2>1, <2>3, <2>4, <2>5, OwnerFrame, Zenon
<1>11. CASE Publish(p)
  <2>1. /\ pc[p] = "publish" /\ pc' = [pc EXCEPT ![p] = "wait"]
        /\ pending' = [pending EXCEPT ![slot[p]] = 1]
        /\ UNCHANGED <<busy, addr, body, ready, value, result, slot, calls, sst, job, served>>
    BY <1>11, Zenon DEF Publish, Goto, shared
  <2>2. slot[p] \in Slots /\ pending \in [Slots -> {0, 1}]
    <3>1. slot[p] \in Slots
      BY <2>1, Zenon DEF Stage
    <3> QED
      BY <3>1, Fields, Zenon
  <2>3. Stage(p)'
    <3>1. pc'[p] = "wait" /\ Cur(p)' = Cur(p) /\ Quiet(slot[p])
      BY <2>1, Zenon DEF Stage, Cur, Publishing
    <3>2. /\ addr[slot[p]] = Cur(p) /\ body[slot[p]] = Cur(p) /\ served[Cur(p)] = 0
          /\ pending'[slot[p]] = 1
      BY <2>1, <2>2, Zenon DEF Stage, Publishing
    <3>3. Asked(p)'
      BY <2>1, <3>1, <3>2, Zenon DEF Quiet, Asked, Engaged
    <3> QED
      BY <2>1, <3>1, <3>3, Zenon DEF Stage, Publishing, Waiting, Consuming
  <2>4. /\ pc[p] \in InSection /\ pc'[p] \in InSection
        /\ \A q \in Producers \ {p} : pc'[q] = pc[q] /\ result'[q] = result[q]
    BY <2>1, <2>2, Zenon DEF InSection, Publishing, Waiting, Consuming
  <2>5. \A w \in Slots \ {slot[p]} :
           /\ pending'[w] = pending[w] /\ ready'[w] = ready[w]
           /\ addr'[w] = addr[w] /\ body'[w] = body[w] /\ value'[w] = value[w]
    BY <2>1, <2>2, Zenon
  <2> QED
    BY <2>1, <2>3, <2>4, <2>5, OwnerFrame, Zenon
<1>12. CASE SeeReady(p)
  <2>1. /\ pc[p] = "wait" /\ pc' = [pc EXCEPT ![p] = "read"]
        /\ UNCHANGED <<busy, pending, addr, body, ready, value, result, slot, calls, sst, job, served>>
    BY <1>12, Zenon DEF SeeReady, Goto, shared
  <2>2. slot[p] \in Slots
    BY <2>1, Zenon DEF Stage
  <2>3. Stage(p)'
    <3>1. pc'[p] = "read" /\ Cur(p)' = Cur(p) /\ ready[slot[p]] # 0
      BY <1>12, <2>1, Zenon DEF SeeReady, Cur
    <3>2. Answered(p)
      BY <2>1, <3>1, Zenon DEF Stage, Waiting, Asked, Working
    <3>3. Answered(p)'
      BY <2>1, <3>1, <3>2, Zenon DEF Answered, Engaged
    <3> QED
      BY <2>1, <3>1, <3>3, Zenon DEF Stage, Publishing, Waiting, Consuming
  <2>4. /\ pc[p] \in InSection /\ pc'[p] \in InSection
        /\ \A q \in Producers \ {p} : pc'[q] = pc[q] /\ result'[q] = result[q]
    BY <2>1, <2>2, Zenon DEF InSection, Publishing, Waiting, Consuming
  <2>5. \A w \in Slots \ {slot[p]} :
           /\ pending'[w] = pending[w] /\ ready'[w] = ready[w]
           /\ addr'[w] = addr[w] /\ body'[w] = body[w] /\ value'[w] = value[w]
    BY <2>1, <2>2, Zenon
  <2> QED
    BY <2>1, <2>3, <2>4, <2>5, OwnerFrame, Zenon
<1>13. CASE WaitSleep(p)
  <2>1. /\ pc[p] = "wait" /\ pc' = [pc EXCEPT ![p] = "waitSleep"]
        /\ UNCHANGED <<busy, pending, addr, body, ready, value, result, slot, calls, sst, job, served>>
    BY <1>13, Zenon DEF WaitSleep, Goto, shared
  <2>2. slot[p] \in Slots
    BY <2>1, Zenon DEF Stage
  <2>3. Stage(p)'
    <3>1. pc[p] \in Waiting /\ pc'[p] \in Waiting
      BY <2>1, Zenon DEF Waiting
    <3> QED
      BY <2>1, <3>1, StageKept, Zenon
  <2>4. /\ pc[p] \in InSection /\ pc'[p] \in InSection
        /\ \A q \in Producers \ {p} : pc'[q] = pc[q] /\ result'[q] = result[q]
    BY <2>1, <2>2, Zenon DEF InSection, Publishing, Waiting, Consuming
  <2>5. \A w \in Slots \ {slot[p]} :
           /\ pending'[w] = pending[w] /\ ready'[w] = ready[w]
           /\ addr'[w] = addr[w] /\ body'[w] = body[w] /\ value'[w] = value[w]
    BY <2>1, <2>2, Zenon
  <2> QED
    BY <2>1, <2>3, <2>4, <2>5, OwnerFrame, Zenon
<1>14. CASE WaitTimeout(p)
  <2>1. /\ pc[p] = "waitSleep" /\ pc' = [pc EXCEPT ![p] = "wait"]
        /\ UNCHANGED <<busy, pending, addr, body, ready, value, result, slot, calls, sst, job, served>>
    BY <1>14, Zenon DEF WaitTimeout, Goto, shared
  <2>2. slot[p] \in Slots
    BY <2>1, Zenon DEF Stage
  <2>3. Stage(p)'
    <3>1. pc[p] \in Waiting /\ pc'[p] \in Waiting
      BY <2>1, Zenon DEF Waiting
    <3> QED
      BY <2>1, <3>1, StageKept, Zenon
  <2>4. /\ pc[p] \in InSection /\ pc'[p] \in InSection
        /\ \A q \in Producers \ {p} : pc'[q] = pc[q] /\ result'[q] = result[q]
    BY <2>1, <2>2, Zenon DEF InSection, Publishing, Waiting, Consuming
  <2>5. \A w \in Slots \ {slot[p]} :
           /\ pending'[w] = pending[w] /\ ready'[w] = ready[w]
           /\ addr'[w] = addr[w] /\ body'[w] = body[w] /\ value'[w] = value[w]
    BY <2>1, <2>2, Zenon
  <2> QED
    BY <2>1, <2>3, <2>4, <2>5, OwnerFrame, Zenon
<1>15. CASE ReadValue(p)
  <2>1. /\ pc[p] = "read" /\ pc' = [pc EXCEPT ![p] = "clear"]
        /\ result' = [result EXCEPT ![p] = value[slot[p]]]
        /\ UNCHANGED <<busy, pending, addr, body, ready, value, slot, calls, sst, job, served>>
    BY <1>15, Zenon DEF ReadValue, Goto, shared
  <2>2. slot[p] \in Slots /\ result \in [Producers -> Call \cup {None}]
    <3>1. slot[p] \in Slots
      BY <2>1, Zenon DEF Stage
    <3> QED
      BY <3>1, Fields, Zenon
  <2>3. Stage(p)'
    <3>1. pc'[p] = "clear" /\ Cur(p)' = Cur(p) /\ Answered(p)
      BY <2>1, Zenon DEF Stage, Cur, Consuming
    <3>2. Answered(p)' /\ result'[p] = Cur(p)
      BY <2>1, <2>2, <3>1, Zenon DEF Answered, Engaged
    <3> QED
      BY <2>1, <3>1, <3>2, Zenon DEF Stage, Publishing, Waiting, Consuming
  <2>4. /\ pc[p] \in InSection /\ pc'[p] \in InSection
        /\ \A q \in Producers \ {p} : pc'[q] = pc[q] /\ result'[q] = result[q]
    BY <2>1, <2>2, Zenon DEF InSection, Publishing, Waiting, Consuming
  <2>5. \A w \in Slots \ {slot[p]} :
           /\ pending'[w] = pending[w] /\ ready'[w] = ready[w]
           /\ addr'[w] = addr[w] /\ body'[w] = body[w] /\ value'[w] = value[w]
    BY <2>1, <2>2, Zenon
  <2> QED
    BY <2>1, <2>3, <2>4, <2>5, OwnerFrame, Zenon
<1>16. CASE ConsumeReady(p)
  <2>1. /\ pc[p] = "clear" /\ pc' = [pc EXCEPT ![p] = "unlock"]
        /\ ready' = [ready EXCEPT ![slot[p]] = 0]
        /\ UNCHANGED <<busy, pending, addr, body, value, result, slot, calls, sst, job, served>>
    BY <1>16, Zenon DEF ConsumeReady, Goto, shared
  <2>2. slot[p] \in Slots /\ ready \in [Slots -> {0, 1}]
    <3>1. slot[p] \in Slots
      BY <2>1, Zenon DEF Stage
    <3> QED
      BY <3>1, Fields, Zenon
  <2>3. Stage(p)'
    <3>1. pc'[p] = "unlock" /\ Cur(p)' = Cur(p) /\ Answered(p) /\ result[p] = Cur(p)
      BY <2>1, Zenon DEF Stage, Cur, Consuming
    <3>2. Quiet(slot[p])' /\ served'[Cur(p)] = 1
      BY <2>1, <2>2, <3>1, Zenon DEF Answered, Quiet, Engaged
    <3>3. slot'[p] \in Slots /\ calls'[p] \in 1..MaxCalls
      BY <2>1, Zenon DEF Stage
    <3>4. /\ (Cur(p))' = Cur(p) /\ result'[p] = Cur(p) /\ served'[(Cur(p))'] = 1
          /\ (Quiet(slot[p]))'
      BY <2>1, <3>1, <3>2, Zenon
    <3>5. pc'[p] \notin {"lock", "lockSleep"} \cup Publishing \cup Waiting \cup Consuming
      BY <3>1, Zenon DEF Publishing, Waiting, Consuming
    <3> QED
      BY <3>1, <3>3, <3>4, <3>5, Zenon DEF Stage
  <2>4. /\ pc[p] \in InSection /\ pc'[p] \in InSection
        /\ \A q \in Producers \ {p} : pc'[q] = pc[q] /\ result'[q] = result[q]
    BY <2>1, <2>2, Zenon DEF InSection, Publishing, Waiting, Consuming
  <2>5. \A w \in Slots \ {slot[p]} :
           /\ pending'[w] = pending[w] /\ ready'[w] = ready[w]
           /\ addr'[w] = addr[w] /\ body'[w] = body[w] /\ value'[w] = value[w]
    BY <2>1, <2>2, Zenon
  <2> QED
    BY <2>1, <2>3, <2>4, <2>5, OwnerFrame, Zenon
<1>17. CASE Unlock(p)
  <2>1. /\ pc[p] = "unlock" /\ pc' = [pc EXCEPT ![p] = "wake"] /\ slot[p] \in Slots
        /\ busy' = [busy EXCEPT ![slot[p]] = 0]
        /\ UNCHANGED <<pending, addr, body, ready, value, slot, calls, result, sst, job, served>>
    BY <1>17, Zenon DEF Unlock, Goto, Stage
  <2>2. ExclusiveSlot'
    <3>1. pc[p] \in InSection /\ pc'[p] \notin InSection
      BY <2>1, Zenon DEF InSection, Publishing, Waiting, Consuming
    <3>2. \A q \in Producers \ {p} :
             /\ pc'[q] = pc[q]
             /\ pc[q] \in InSection => slot[q] # slot[p]
      BY <2>1, <3>1, Parts, ZenonT(60) DEF ExclusiveSlot
    <3>3. \A v \in Slots : busy'[v] = IF v = slot[p] THEN 0 ELSE busy[v]
      BY <2>1, Parts, Zenon
    <3> QED
      BY <2>1, <3>1, <3>2, <3>3, Parts, SMTT(30) DEF ExclusiveSlot
  <2>3. /\ \A q \in Producers \ {p} : Stage(q)'
        /\ \A v : Quiet(v)' <=> Quiet(v)
        /\ History'
    BY <2>1, OutsideFrame, Zenon
  <2>4. Stage(p)'
    <3>1. pc'[p] = "wake" /\ Cur(p)' = Cur(p)
      BY <2>1, Zenon DEF Cur
    <3> QED
      BY <2>1, <3>1, Zenon DEF Stage, Publishing, Waiting, Consuming
  <2>5. FreeQuiet'
    <3>1. Quiet(slot[p])
      BY <2>1, Zenon DEF Stage
    <3> QED
      BY <2>1, <2>3, <3>1, Parts, Zenon DEF FreeQuiet
  <2> QED
    BY <2>2, <2>3, <2>4, <2>5, Zenon DEF IInv
<1>18. CASE UnlockWake(p)
  <2>1. /\ pc[p] = "wake" /\ pc'[p] = "idle"
        /\ UNCHANGED <<busy, pending, addr, body, ready, value, slot, calls, result, sst, job, served>>
    BY <1>18, Zenon DEF UnlockWake, shared
  <2>2. \A q \in Producers \ {p} :
           pc'[q] = pc[q] \/ (pc[q] = "lockSleep" /\ pc'[q] = "lock")
    BY <1>18, Zenon DEF UnlockWake
  <2>3. \A q \in Producers : pc'[q] \in InSection <=> pc[q] \in InSection
    BY <2>1, <2>2, Zenon DEF InSection, Publishing, Waiting, Consuming
  <2>4. Stage(p)'
    <3>1. Cur(p)' = Cur(p)
      BY <2>1, Zenon DEF Cur
    <3> QED
      BY <2>1, <3>1, Zenon DEF Stage, Publishing, Waiting, Consuming
  <2>5. \A q \in Producers \ {p} : Stage(q)'
    BY <2>1, <2>2, OutsideFrame, Zenon
  <2>6. FreeQuiet' /\ History' /\ ExclusiveSlot'
    BY <2>1, <2>2, <2>3, OutsideFrame, OwnersKept, Zenon
  <2> QED
    BY <2>4, <2>5, <2>6, Zenon DEF IInv
<1> QED
  BY <1>1, <1>2, <1>3, <1>4, <1>5, <1>6, <1>7, <1>8, <1>9,
     <1>10, <1>11, <1>12, <1>13, <1>14, <1>15, <1>16, <1>17, <1>18, ZenonT(60) DEF Producer

-----------------------------------------------------------------------------
LEMMA InitIInv == Init => IInv
<1> SUFFICES ASSUME Init PROVE IInv
  OBVIOUS
<1> USE DEF Init
<1>1. TypeOK
  BY MaxCallsAssumption DEF TypeOK, PC
<1>2. ExclusiveSlot
  BY DEF ExclusiveSlot, InSection, Publishing, Waiting, Consuming
<1>3. ASSUME NEW p \in Producers PROVE Stage(p)
  BY DEF Stage, Publishing, Waiting, Consuming
<1>4. FreeQuiet
  BY Zenon DEF FreeQuiet, Quiet, Engaged, Idle
<1>5. History
  BY MaxCallsAssumption DEF History, Call
<1> QED
  BY <1>1, <1>2, <1>3, <1>4, <1>5, Zenon DEF IInv

LEMMA StutterIInv ==
    ASSUME IInv, TypeOK', UNCHANGED vars
    PROVE  IInv'
<1>1. UNCHANGED <<busy, pending, addr, body, ready, value, pc, slot, calls, result, sst, job, served>>
  BY Zenon DEF vars, shared, local
<1>2. ASSUME NEW q \in Producers PROVE Stage(q)'
  <2>1. Stage(q)
    BY Parts, Zenon
  <2> QED
    BY <1>1, <2>1, StageKept, Zenon
<1>3. ExclusiveSlot'
  BY <1>1, OwnersKept, Zenon
<1>4. FreeQuiet' /\ History'
  BY <1>1, Parts, Zenon DEF FreeQuiet, History, Quiet, Engaged
<1> QED
  BY <1>2, <1>3, <1>4, Zenon DEF IInv

LEMMA NextIInv == IInv /\ [Next]_vars => IInv'
<1> SUFFICES ASSUME IInv, [Next]_vars PROVE IInv'
  OBVIOUS
<1>1. TypeOK'
  BY TypeStep, Zenon
<1>2. CASE \E p \in Producers : Producer(p)
  BY <1>1, <1>2, ProducerStep, Zenon
<1>3. CASE \E v \in Slots : Sst(v)
  BY <1>1, <1>3, SstStep, Zenon
<1>4. CASE UNCHANGED vars
  BY <1>1, <1>4, StutterIInv, Zenon
<1> QED
  BY <1>2, <1>3, <1>4, Zenon DEF Next

LEMMA SpecIInv == Spec => []IInv
BY InitIInv, NextIInv, PTL DEF Spec

-----------------------------------------------------------------------------
\* Every variable keeps its type: flags stay 0 or 1, and every field holds a
\* call that was really made.
THEOREM TypeCorrect == Spec => []TypeOK
<1>1. IInv => TypeOK
  BY Zenon DEF IInv
<1> QED
  BY <1>1, SpecIInv, PTL

\* The busy word arbitrates any number of clients and cache operations: a
\* producer past quetz_ipc_lock has its slot to itself until it unlocks.
THEOREM MutualExclusion == Spec => []ExclusiveSlot
<1>1. IInv => ExclusiveSlot
  BY Zenon DEF IInv
<1> QED
  BY <1>1, SpecIInv, PTL

\* A call that has consumed its response returns the answer to itself.
THEOREM ReturnsOwnAnswer == Spec => []OwnAnswer
<1>1. IInv => OwnAnswer
  BY Zenon DEF IInv, OwnAnswer, Stage
<1> QED
  BY <1>1, SpecIInv, PTL

\* SST dispatches every call once and no call twice.
THEOREM DispatchedOnce == Spec => []ExactlyOnce
<1>1. ASSUME IInv PROVE ExactlyOnce
  <2> SUFFICES ASSUME NEW p \in Producers, NEW n \in 1..MaxCalls
               PROVE  /\ served[<<p, n>>] <= 1
                      /\ n > calls[p] => served[<<p, n>>] = 0
                      /\ \/ n < calls[p]
                         \/ /\ n = calls[p]
                            /\ pc[p] \in {"read", "clear", "unlock", "wake", "idle"}
                         => served[<<p, n>>] = 1
    BY Zenon DEF ExactlyOnce
  <2>1. /\ n < calls[p] => served[<<p, n>>] = 1
        /\ n > calls[p] => served[<<p, n>>] = 0
    BY <1>1, Zenon DEF IInv, History
  <2>4. n \in Nat /\ n > 0 /\ calls[p] \in Nat /\ Stage(p) /\ pc[p] \in PC
    BY <1>1, Parts, MaxCallsAssumption
  <2>2. n = calls[p] /\ pc[p] \in {"read", "clear", "unlock", "wake", "idle"}
            => served[<<p, n>>] = 1
    BY <2>4, Zenon DEF Stage, Cur, Answered, Consuming
  <2>3. n = calls[p] => served[<<p, n>>] \in {0, 1}
    <3>1. pc[p] \in Waiting => served[Cur(p)] \in {0, 1}
      BY <2>4, Zenon DEF Stage, Asked, Working, Answered
    <3>2. pc[p] \in {"lock", "lockSleep"} \cup Publishing => served[Cur(p)] = 0
      BY <2>4, Zenon DEF Stage
    <3>3. pc[p] # "fatal"
      BY <2>4, Zenon DEF Stage
    <3> QED
      BY <2>2, <2>4, <3>1, <3>2, <3>3, Zenon DEF PC, InSection, Consuming, Cur
  <2> QED
    BY <2>1, <2>2, <2>3, <2>4
<1> QED
  BY <1>1, SpecIInv, PTL

\* cb_cache_op never finds its mailbox in use.
THEOREM NeverInUse == Spec => []MailboxFree
<1>1. IInv => MailboxFree
  BY Zenon DEF IInv, MailboxFree, Stage
<1> QED
  BY <1>1, SpecIInv, PTL

\* The plain fields of a slot are never accessed from both sides at once.
THEOREM NoDataRace == Spec => []RaceFree
<1>1. IInv => RaceFree
  BY Zenon DEF IInv, RaceFree, Stage, Quiet, Engaged, Asked, Working, Answered,
     InSection, Publishing, Waiting, Consuming
<1> QED
  BY <1>1, SpecIInv, PTL

-----------------------------------------------------------------------------
(* The mailbox implements MmioService, for any number of producers, slots  *)
(* and calls.  Every step is matched against the abstract service under    *)
(* the mapping stageBar, inServiceBar: six steps are the five actions of   *)
(* the service, all the others leave what the service shows alone.         *)


(* What the mapping says at each point of a call.                          *)
LEMMA StageOfFacts ==
    ASSUME NEW c, NEW pend, NEW taken
    PROVE  /\ c \in {"idle", "clear", "unlock", "wake"} => StageOf(c, pend, taken) = "idle"
           /\ c = "read" => StageOf(c, pend, taken) = "answered"
           /\ c \in Waiting /\ pend = 0 /\ taken = None => StageOf(c, pend, taken) = "answered"
           /\ c \in Waiting /\ pend = 0 /\ taken # None => StageOf(c, pend, taken) = "executing"
           /\ c \in Waiting /\ pend # 0 => StageOf(c, pend, taken) = "asked"
           /\ c \in {"lock", "lockSleep"} \cup Publishing => StageOf(c, pend, taken) = "asked"
BY Zenon DEF StageOf, Waiting, Publishing

(* The mapping, at one producer.                                           *)
LEMMA StageAt ==
    ASSUME NEW p \in Producers
    PROVE  /\ stageBar[p] = StageOf(pc[p], pending[slot[p]], job[slot[p]])
           /\ stageBar'[p] = StageOf(pc'[p], pending'[slot'[p]], job'[slot'[p]])
BY Zenon DEF stageBar

(* Outside the wait, the stage depends on the program counter alone.       *)
LEMMA OutsideWait ==
    ASSUME NEW c, c \notin Waiting, NEW x, NEW y, NEW s, NEW t
    PROVE  StageOf(c, x, s) = StageOf(c, y, t)
BY Zenon DEF StageOf

(* A step of one producer that touches neither pending nor SST's jobs is   *)
(* seen by the service at most as a change of that producer's stage.       *)
LEMMA OwnStep ==
    ASSUME NEW p \in Producers, NEW c,
           pc \in [Producers -> PC],
           pc' = [pc EXCEPT ![p] = c],
           \A q \in Producers \ {p} : slot'[q] = slot[q],
           UNCHANGED <<pending, job>>
    PROVE  /\ inServiceBar' = inServiceBar
           /\ stageBar' = [stageBar EXCEPT ![p] = StageOf(c, pending[slot'[p]], job[slot'[p]])]
<1>1. inServiceBar' = inServiceBar
  BY Zenon DEF inServiceBar
<1>2. \A q \in Producers : stageBar'[q] = StageOf(pc'[q], pending[slot'[q]], job[slot'[q]])
  BY Zenon DEF stageBar
<1>3. \A q \in Producers \ {p} : stageBar'[q] = stageBar[q]
  BY <1>2, Zenon DEF stageBar
<1>4. stageBar'[p] = StageOf(c, pending[slot'[p]], job[slot'[p]])
  BY <1>2, Zenon
<1> QED
  BY <1>1, <1>3, <1>4, Zenon DEF stageBar

(* And if the stage is the same before and after, it is a stutter.         *)
LEMMA OwnStutter ==
    ASSUME NEW p \in Producers, NEW c,
           pc \in [Producers -> PC],
           pc' = [pc EXCEPT ![p] = c],
           UNCHANGED <<pending, job, slot, calls, result>>,
           StageOf(c, pending[slot[p]], job[slot[p]])
             = StageOf(pc[p], pending[slot[p]], job[slot[p]])
    PROVE  UNCHANGED Service!vars
<1>1. /\ inServiceBar' = inServiceBar
      /\ stageBar' = [stageBar EXCEPT ![p] = StageOf(c, pending[slot'[p]], job[slot'[p]])]
  BY OwnStep, Zenon
<1>2. stageBar' = stageBar
  BY <1>1, Zenon DEF stageBar
<1> QED
  BY <1>1, <1>2, Zenon DEF Service!vars

-----------------------------------------------------------------------------
(* The steps of a producer.  Begin is the invocation, Reject the refusal   *)
(* and ReadValue the return.                                               *)
LEMMA ProducerRefines ==
    ASSUME IInv, NEW p \in Producers, Producer(p)
    PROVE  [Service!Next]_(Service!vars)
<1> pc \in [Producers -> PC] /\ slot \in [Producers -> Slots \cup {None}] /\ Stage(p)
  BY Zenon DEF IInv, TypeOK
<1>1. CASE \E v \in Slots, k \in {"mmio", "cache"} : Begin(p, v, k)
  <2> PICK v \in Slots, k \in {"mmio", "cache"} : Begin(p, v, k)
    BY <1>1, Zenon
  <2>1. /\ pc[p] = "idle" /\ pc' = [pc EXCEPT ![p] = "lock"]
        /\ slot' = [slot EXCEPT ![p] = v]
        /\ calls[p] < MaxCalls /\ calls' = [calls EXCEPT ![p] = @ + 1]
        /\ UNCHANGED <<pending, job, result>>
    BY Zenon DEF Begin, Goto, shared
  <2>2. \A q \in Producers \ {p} : slot'[q] = slot[q]
    BY <2>1, Zenon
  <2>3. /\ inServiceBar' = inServiceBar
        /\ stageBar' = [stageBar EXCEPT ![p] = StageOf("lock", pending[slot'[p]], job[slot'[p]])]
    BY <2>1, <2>2, OwnStep, Zenon
  <2>4. stageBar' = [stageBar EXCEPT ![p] = "asked"]
    BY <2>3, StageOfFacts, Zenon
  <2>5. stageBar[p] = "idle"
    <3>1. StageOf(pc[p], pending[slot[p]], job[slot[p]]) = "idle"
      BY <2>1, Zenon DEF StageOf, Waiting
    <3> QED
      BY <3>1, StageAt, Zenon
  <2>6. Service!Invoke(p, v)
    BY <2>1, <2>3, <2>4, <2>5, Zenon DEF Service!Invoke
  <2> QED
    BY <2>6, Zenon DEF Service!Next
<1>2. CASE Reject(p)
  <2>1. /\ pc[p] = "idle" /\ UNCHANGED <<pc, pending, job, slot, calls>>
        /\ result' = [result EXCEPT ![p] = None]
    BY <1>2, Zenon DEF Reject, shared
  <2>2. stageBar[p] = "idle" /\ stageBar' = stageBar /\ inServiceBar' = inServiceBar
    <3>1. stageBar[p] = "idle"
      BY <2>1, Zenon DEF stageBar, StageOf, Waiting
    <3> QED
      BY <2>1, <3>1, Zenon DEF stageBar, inServiceBar
  <2>3. Service!Refuse(p)
    BY <2>1, <2>2, Zenon DEF Service!Refuse
  <2> QED
    BY <2>3, Zenon DEF Service!Next
<1>3. CASE LockTake(p)
  <2> DEFINE to == IF kind[p] = "cache" THEN "check" ELSE "clearReady"
  <2>1. /\ pc[p] = "lock" /\ pc' = [pc EXCEPT ![p] = to]
        /\ UNCHANGED <<pending, job, slot, calls, result>>
    BY <1>3, Zenon DEF LockTake
  <2>2. to \in Publishing
    BY Zenon DEF Publishing
  <2> HIDE DEF to
  <2>3. StageOf(to, pending[slot[p]], job[slot[p]]) = StageOf(pc[p], pending[slot[p]], job[slot[p]])
    BY <2>1, <2>2, StageOfFacts
  <2> QED
    BY <2>1, <2>3, OwnStutter, Zenon
<1>4. CASE LockSleep(p)
  <2>1. /\ pc[p] = "lock" /\ pc' = [pc EXCEPT ![p] = "lockSleep"]
        /\ UNCHANGED <<pending, job, slot, calls, result>>
    BY <1>4, Zenon DEF LockSleep, Goto, shared
  <2>2. StageOf("lockSleep", pending[slot[p]], job[slot[p]]) = StageOf(pc[p], pending[slot[p]], job[slot[p]])
    BY <2>1, StageOfFacts DEF Publishing, Waiting
  <2> QED
    BY <2>1, <2>2, OwnStutter, Zenon
<1>5. CASE LockTimeout(p)
  <2>1. /\ pc[p] = "lockSleep" /\ pc' = [pc EXCEPT ![p] = "lock"]
        /\ UNCHANGED <<pending, job, slot, calls, result>>
    BY <1>5, Zenon DEF LockTimeout, Goto, shared
  <2>2. StageOf("lock", pending[slot[p]], job[slot[p]]) = StageOf(pc[p], pending[slot[p]], job[slot[p]])
    BY <2>1, StageOfFacts DEF Publishing, Waiting
  <2> QED
    BY <2>1, <2>2, OwnStutter, Zenon
<1>6. CASE CacheCheck(p)
  <2>1. /\ pc[p] = "check" /\ pc' = [pc EXCEPT ![p] = "addr"]
        /\ UNCHANGED <<pending, job, slot, calls, result>>
    BY <1>6, Zenon DEF CacheCheck, Stage, Quiet, shared, Publishing
  <2>2. StageOf("addr", pending[slot[p]], job[slot[p]]) = StageOf(pc[p], pending[slot[p]], job[slot[p]])
    BY <2>1, StageOfFacts DEF Publishing
  <2> QED
    BY <2>1, <2>2, OwnStutter, Zenon
<1>7. CASE ClearReady(p)
  <2>1. /\ pc[p] = "clearReady" /\ pc' = [pc EXCEPT ![p] = "clearValue"]
        /\ UNCHANGED <<pending, job, slot, calls, result>>
    BY <1>7, Zenon DEF ClearReady, Goto, shared
  <2>2. StageOf("clearValue", pending[slot[p]], job[slot[p]]) = StageOf(pc[p], pending[slot[p]], job[slot[p]])
    BY <2>1, StageOfFacts DEF Publishing, Waiting
  <2> QED
    BY <2>1, <2>2, OwnStutter, Zenon
<1>8. CASE ClearValue(p)
  <2>1. /\ pc[p] = "clearValue" /\ pc' = [pc EXCEPT ![p] = "addr"]
        /\ UNCHANGED <<pending, job, slot, calls, result>>
    BY <1>8, Zenon DEF ClearValue, Goto, shared
  <2>2. StageOf("addr", pending[slot[p]], job[slot[p]]) = StageOf(pc[p], pending[slot[p]], job[slot[p]])
    BY <2>1, StageOfFacts DEF Publishing, Waiting
  <2> QED
    BY <2>1, <2>2, OwnStutter, Zenon
<1>9. CASE StoreAddr(p)
  <2>1. /\ pc[p] = "addr" /\ pc' = [pc EXCEPT ![p] = "body"]
        /\ UNCHANGED <<pending, job, slot, calls, result>>
    BY <1>9, Zenon DEF StoreAddr, Goto, shared
  <2>2. StageOf("body", pending[slot[p]], job[slot[p]]) = StageOf(pc[p], pending[slot[p]], job[slot[p]])
    BY <2>1, StageOfFacts DEF Publishing, Waiting
  <2> QED
    BY <2>1, <2>2, OwnStutter, Zenon
<1>10. CASE StoreBody(p)
  <2>1. /\ pc[p] = "body" /\ pc' = [pc EXCEPT ![p] = "publish"]
        /\ UNCHANGED <<pending, job, slot, calls, result>>
    BY <1>10, Zenon DEF StoreBody, Goto, shared
  <2>2. StageOf("publish", pending[slot[p]], job[slot[p]]) = StageOf(pc[p], pending[slot[p]], job[slot[p]])
    BY <2>1, StageOfFacts DEF Publishing, Waiting
  <2> QED
    BY <2>1, <2>2, OwnStutter, ZenonT(30)
<1>11. CASE Publish(p)
  <2>1. /\ pc[p] = "publish" /\ pc' = [pc EXCEPT ![p] = "wait"]
        /\ pending' = [pending EXCEPT ![slot[p]] = 1]
        /\ UNCHANGED <<job, slot, calls, result>>
    BY <1>11, Zenon DEF Publish, Goto
  <2>2. slot[p] \in Slots /\ job[slot[p]] = None /\ pending \in [Slots -> {0, 1}]
    BY <2>1, Zenon DEF IInv, TypeOK, Stage, Quiet, Publishing
  <2>3. inServiceBar' = inServiceBar
    BY <2>1, <2>2, Zenon DEF inServiceBar
  <2>4. stageBar'[p] = "asked" /\ stageBar[p] = "asked"
    <3>1. stageBar[p] = StageOf("publish", pending[slot[p]], job[slot[p]])
      BY <2>1, StageAt, Zenon
    <3>2. pc'[p] = "wait" /\ pending'[slot[p]] = 1 /\ slot'[p] = slot[p]
      BY <2>1, <2>2, Zenon DEF TypeOK, IInv
    <3>3. stageBar'[p] = StageOf("wait", 1, job'[slot[p]])
      BY <3>2, StageAt, Zenon
    <3> QED
      BY <3>1, <3>3 DEF StageOf, Waiting
  <2>5. ASSUME NEW q \in Producers, q # p PROVE stageBar'[q] = stageBar[q]
    <3>1. pc'[q] = pc[q] /\ slot'[q] = slot[q]
      BY <2>1, <2>5, Zenon
    <3>2. CASE pc[q] \in Waiting
      <4>1. slot[q] # slot[p]
        BY <2>1, <2>5, <3>2, Zenon DEF IInv, ExclusiveSlot, InSection, Publishing
      <4>2. pending'[slot[q]] = pending[slot[q]] /\ job'[slot[q]] = job[slot[q]]
        BY <2>1, <2>2, <4>1, <3>2, Zenon DEF IInv, Stage, Waiting
      <4> QED
        BY <3>1, <4>2, Zenon DEF stageBar
    <3>3. CASE pc[q] \notin Waiting
      BY <3>1, <3>3, OutsideWait DEF stageBar
    <3> QED
      BY <3>2, <3>3, Zenon
  <2>6. stageBar' = stageBar
    BY <2>4, <2>5, Zenon DEF stageBar
  <2> QED
    BY <2>1, <2>3, <2>6, Zenon DEF Service!vars
<1>12. CASE SeeReady(p)
  <2>1. /\ pc[p] = "wait" /\ pc' = [pc EXCEPT ![p] = "read"] /\ ready[slot[p]] # 0
        /\ UNCHANGED <<pending, job, slot, calls, result>>
    BY <1>12, Zenon DEF SeeReady, Goto, shared
  <2>2. pending[slot[p]] = 0 /\ job[slot[p]] = None
    BY <2>1, Zenon DEF Stage, Waiting, Asked, Working, Answered
  <2>3. StageOf("read", pending[slot[p]], job[slot[p]]) = StageOf(pc[p], pending[slot[p]], job[slot[p]])
    BY <2>1, <2>2, StageOfFacts, ZenonT(60) DEF Waiting
  <2> QED
    BY <2>1, <2>3, OwnStutter, ZenonT(30)
<1>13. CASE WaitSleep(p)
  <2>1. /\ pc[p] = "wait" /\ pc' = [pc EXCEPT ![p] = "waitSleep"]
        /\ UNCHANGED <<pending, job, slot, calls, result>>
    BY <1>13, Zenon DEF WaitSleep, Goto, shared
  <2>2. StageOf("waitSleep", pending[slot[p]], job[slot[p]]) = StageOf(pc[p], pending[slot[p]], job[slot[p]])
    BY <2>1, StageOfFacts DEF Waiting
  <2> QED
    BY <2>1, <2>2, OwnStutter, Zenon
<1>14. CASE WaitTimeout(p)
  <2>1. /\ pc[p] = "waitSleep" /\ pc' = [pc EXCEPT ![p] = "wait"]
        /\ UNCHANGED <<pending, job, slot, calls, result>>
    BY <1>14, Zenon DEF WaitTimeout, Goto, shared
  <2>2. StageOf("wait", pending[slot[p]], job[slot[p]]) = StageOf(pc[p], pending[slot[p]], job[slot[p]])
    BY <2>1, StageOfFacts DEF Waiting
  <2> QED
    BY <2>1, <2>2, OwnStutter, Zenon
<1>15. CASE ReadValue(p)
  <2>1. /\ pc[p] = "read" /\ pc' = [pc EXCEPT ![p] = "clear"]
        /\ result' = [result EXCEPT ![p] = value[slot[p]]]
        /\ UNCHANGED <<pending, job, slot, calls>>
    BY <1>15, Zenon DEF ReadValue, Goto, shared
  <2>2. value[slot[p]] = <<p, calls[p]>>
    <3>1. Answered(p)
      BY <2>1, Zenon DEF Stage, Consuming
    <3> QED
      BY <3>1, Zenon DEF Answered, Cur
  <2>3. /\ inServiceBar' = inServiceBar
        /\ stageBar' = [stageBar EXCEPT ![p] = StageOf("clear", pending[slot'[p]], job[slot'[p]])]
    BY <2>1, OwnStep, Zenon
  <2>4. stageBar' = [stageBar EXCEPT ![p] = "idle"]
    BY <2>3, StageOfFacts, Zenon
  <2>5. stageBar[p] = "answered"
    <3>1. StageOf(pc[p], pending[slot[p]], job[slot[p]]) = "answered"
      BY <2>1, Zenon DEF StageOf, Waiting
    <3> QED
      BY <3>1, StageAt, Zenon
  <2>6. Service!Return(p)
    BY <2>1, <2>2, <2>3, <2>4, <2>5, Zenon DEF Service!Return, Service!This
  <2> QED
    BY <2>6, Zenon DEF Service!Next
<1>16. CASE ConsumeReady(p)
  <2>1. /\ pc[p] = "clear" /\ pc' = [pc EXCEPT ![p] = "unlock"]
        /\ UNCHANGED <<pending, job, slot, calls, result>>
    BY <1>16, Zenon DEF ConsumeReady, Goto, shared
  <2>2. StageOf("unlock", pending[slot[p]], job[slot[p]]) = StageOf(pc[p], pending[slot[p]], job[slot[p]])
    BY <2>1, StageOfFacts DEF Publishing, Waiting
  <2> QED
    BY <2>1, <2>2, OwnStutter, Zenon
<1>17. CASE Unlock(p)
  <2>1. /\ pc[p] = "unlock" /\ pc' = [pc EXCEPT ![p] = "wake"]
        /\ UNCHANGED <<pending, job, slot, calls, result>>
    BY <1>17, Zenon DEF Unlock, Goto, shared
  <2>2. StageOf("wake", pending[slot[p]], job[slot[p]]) = StageOf(pc[p], pending[slot[p]], job[slot[p]])
    BY <2>1, StageOfFacts DEF Publishing, Waiting
  <2> QED
    BY <2>1, <2>2, OwnStutter, Zenon
<1>18. CASE UnlockWake(p)
  <2>1. /\ pc[p] = "wake" /\ UNCHANGED <<pending, job, slot, calls, result>>
        /\ \A q \in Producers : \/ pc'[q] = pc[q]
                                \/ q = p /\ pc'[q] = "idle"
                                \/ pc[q] = "lockSleep" /\ pc'[q] = "lock"
    BY <1>18, Zenon DEF UnlockWake, shared
  <2>2. ASSUME NEW q \in Producers PROVE stageBar'[q] = stageBar[q]
    <3>1. stageBar[q] = StageOf(pc[q], pending[slot[q]], job[slot[q]])
      BY StageAt, Zenon
    <3>2. stageBar'[q] = StageOf(pc'[q], pending[slot[q]], job[slot[q]])
      BY <2>1, StageAt, Zenon
    <3>3. CASE pc'[q] = pc[q]
      BY <3>1, <3>2, <3>3, Zenon
    <3>4. CASE q = p /\ pc'[q] = "idle"
      BY <2>1, <3>1, <3>2, <3>4, Zenon DEF StageOf, Waiting
    <3>5. CASE pc[q] = "lockSleep" /\ pc'[q] = "lock"
      BY <3>1, <3>2, <3>5, Zenon DEF StageOf, Waiting
    <3> QED
      BY <2>1, <3>3, <3>4, <3>5, Zenon
  <2>3. stageBar' = stageBar /\ inServiceBar' = inServiceBar
    BY <2>1, <2>2, Zenon DEF stageBar, inServiceBar
  <2> QED
    BY <2>1, <2>3, Zenon DEF Service!vars
<1> QED
  BY <1>1, <1>2, <1>3, <1>4, <1>5, <1>6, <1>7, <1>8, <1>9, <1>10, <1>11, <1>12, <1>13,
     <1>14, <1>15, <1>16, <1>17, <1>18, ZenonT(60) DEF Producer

-----------------------------------------------------------------------------
(* A request SST holds is not the empty field.                             *)
LEMMA JobIsSome ==
    ASSUME IInv, NEW p \in Producers, pc[p] \in Waiting
    PROVE  <<Cur(p), Cur(p)>> # None /\ <<Cur(p), Cur(p)>>[1] = Cur(p)
<1>1. Cur(p) \in Call
  BY CurIsCall, Zenon DEF Waiting
<1>2. <<Cur(p), Cur(p)>> \in Call \X Call
  BY <1>1, Zenon
<1> QED
  BY <1>2, NoneAssumption, Zenon

(* A step of SST on slot v moves only the stage of the slot's owner.       *)
LEMMA OthersStay ==
    ASSUME IInv, NEW v \in Slots, NEW p \in Producers, slot[p] = v, pc[p] \in Waiting,
           UNCHANGED <<pc, slot>>,
           \A w \in Slots \ {v} : pending'[w] = pending[w] /\ job'[w] = job[w]
    PROVE  \A q \in Producers \ {p} : stageBar'[q] = stageBar[q]
<1> SUFFICES ASSUME NEW q \in Producers, q # p PROVE stageBar'[q] = stageBar[q]
  OBVIOUS
<1>1. CASE pc[q] \in Waiting
  <2>1. slot[q] # v /\ slot[q] \in Slots
    BY <1>1, ZenonT(30) DEF IInv, ExclusiveSlot, InSection, Stage, Waiting
  <2> QED
    BY <2>1, Zenon DEF stageBar
<1>2. CASE pc[q] \notin Waiting
  BY <1>2, OutsideWait DEF stageBar
<1> QED
  BY <1>1, <1>2, Zenon

(* SstDispatch executes the call and SstPostReady completes it.            *)
LEMMA SstRefines ==
    ASSUME IInv, NEW v \in Slots, Sst(v)
    PROVE  [Service!Next]_(Service!vars)
<1> /\ pending \in [Slots -> {0, 1}] /\ job \in [Slots -> (Call \X Call) \cup {None}]
    /\ pc \in [Producers -> PC]
  BY Zenon DEF IInv, TypeOK
<1>1. CASE SstPoll(v) \/ SstAnswer(v)
  <2>1. UNCHANGED <<pending, job, pc, slot, calls, result>>
    BY <1>1, Zenon DEF SstPoll, SstAnswer, shared, local
  <2> QED
    BY <2>1, Zenon DEF Service!vars, stageBar, inServiceBar
<1>2. CASE SstCopy(v)
  <2>1. /\ \A w \in Slots \ {v} : pending'[w] = pending[w] /\ job'[w] = job[w]
        /\ UNCHANGED <<pending, pc, slot, calls, result>>
        /\ sst.pc = "copy" /\ Engaged(v)
    BY <1>2, Zenon DEF SstCopy, shared, local, Engaged
  <2>2. PICK p \in Producers : slot[p] = v /\ pc[p] \in Waiting /\ (Asked(p) \/ Working(p))
    BY <2>1, OwnerWaits, Zenon
  <2>3. pending[v] = 1
    BY <2>1, <2>2, Zenon DEF Asked, Working
  <2>4. inServiceBar' = inServiceBar
    BY <2>1, <2>3 DEF inServiceBar
  <2>5. stageBar'[p] = stageBar[p]
    <3>1. pending[slot[p]] # 0 /\ pc[p] \in Waiting /\ UNCHANGED <<pending, pc, slot>>
      BY <2>1, <2>2, <2>3
    <3>2. stageBar[p] = StageOf(pc[p], pending[slot[p]], job[slot[p]])
      BY StageAt, Zenon
    <3>3. stageBar'[p] = StageOf(pc[p], pending[slot[p]], job'[slot[p]])
      BY <3>1, StageAt, Zenon
    <3> QED
      BY <3>1, <3>2, <3>3, Zenon DEF StageOf, Waiting
  <2>6. stageBar' = stageBar
    BY <2>1, <2>2, <2>5, OthersStay, ZenonT(30) DEF stageBar
  <2> QED
    BY <2>1, <2>4, <2>6, Zenon DEF Service!vars
<1>3. CASE SstDispatch(v)
  <2>1. /\ pending' = [pending EXCEPT ![v] = 0]
        /\ UNCHANGED <<job, pc, slot, calls, result>>
        /\ sst.pc = "dispatch" /\ Engaged(v)
    BY <1>3, Zenon DEF SstDispatch, local, Engaged
  <2>2. PICK p \in Producers : slot[p] = v /\ pc[p] \in Waiting /\ (Asked(p) \/ Working(p))
    BY <2>1, OwnerWaits, Zenon
  <2>3. pending[v] = 1 /\ job[v] = <<Cur(p), Cur(p)>>
    BY <2>1, <2>2, Zenon DEF Asked, Working
  <2>4. job[v] # None /\ job[v][1] = <<p, calls[p]>>
    BY <2>2, <2>3, JobIsSome, Zenon DEF Cur
  <2>5. inServiceBar' = [inServiceBar EXCEPT ![v] = <<p, calls[p]>>] /\ inServiceBar[v] = None
    <3>1. inServiceBar[v] = None /\ inServiceBar'[v] = <<p, calls[p]>>
      BY <2>1, <2>3, <2>4 DEF inServiceBar
    <3>2. \A w \in Slots \ {v} : inServiceBar'[w] = inServiceBar[w]
      BY <2>1, Zenon DEF inServiceBar
    <3>3. /\ inServiceBar = [w \in Slots |-> inServiceBar[w]]
          /\ inServiceBar' = [w \in Slots |-> inServiceBar'[w]]
      BY Zenon DEF inServiceBar
    <3> QED
      BY <3>1, <3>2, <3>3, Zenon
  <2>6. stageBar[p] = "asked" /\ stageBar'[p] = "executing"
    <3>1. /\ pending[slot[p]] # 0 /\ pc[p] \in Waiting /\ pc'[p] = pc[p]
          /\ slot'[p] = slot[p] /\ job'[slot[p]] # None
      BY <2>1, <2>2, <2>3, <2>4
    <3>2. pending'[slot[p]] = 0
      BY <2>1, <2>2, Zenon DEF TypeOK
    <3>3. stageBar[p] = StageOf(pc[p], pending[slot[p]], job[slot[p]])
      BY StageAt, Zenon
    <3>4. stageBar'[p] = StageOf(pc[p], 0, job'[slot[p]])
      BY <3>1, <3>2, StageAt, Zenon
    <3> QED
      BY <3>1, <3>3, <3>4, Zenon DEF StageOf, Waiting
  <2>7. \A w \in Slots \ {v} : pending'[w] = pending[w] /\ job'[w] = job[w]
    BY <2>1, Zenon
  <2>8. stageBar' = [stageBar EXCEPT ![p] = "executing"]
    <3>1. \A q \in Producers \ {p} : stageBar'[q] = stageBar[q]
      BY <2>1, <2>2, <2>7, OthersStay, Zenon
    <3>2. /\ stageBar = [q \in Producers |-> stageBar[q]]
          /\ stageBar' = [q \in Producers |-> stageBar'[q]]
      BY Zenon DEF stageBar
    <3> QED
      BY <2>6, <3>1, <3>2, Zenon
  <2>9. Service!Execute(p)
    BY <2>1, <2>2, <2>5, <2>6, <2>8, Zenon DEF Service!Execute, Service!This
  <2> QED
    BY <2>9, Zenon DEF Service!Next
<1>4. CASE SstPostReady(v)
  <2>1. /\ job' = [job EXCEPT ![v] = None]
        /\ UNCHANGED <<pending, pc, slot, calls, result>>
        /\ sst.pc = "post" /\ Engaged(v)
    BY <1>4, Zenon DEF SstPostReady, local, Engaged
  <2>2. PICK p \in Producers : slot[p] = v /\ pc[p] \in Waiting /\ (Asked(p) \/ Working(p))
    BY <2>1, OwnerWaits, Zenon
  <2>3. pending[v] = 0 /\ job[v] = <<Cur(p), Cur(p)>>
    <3>1. Asked(p) => sst = [pc |-> "dispatch", v |-> slot[p]] \/ (Engaged(slot[p]) => sst.pc = "copy")
      BY Zenon DEF Asked
    <3>2. sst # [pc |-> "dispatch", v |-> slot[p]] /\ sst.pc # "copy"
      BY <2>1
    <3>3. Engaged(slot[p])
      BY <2>1, <2>2, Zenon
    <3>4. Working(p)
      BY <2>2, <3>1, <3>2, <3>3, Zenon
    <3> QED
      BY <2>2, <3>4, Zenon DEF Working
  <2>4. job[v] # None /\ job[v][1] = <<p, calls[p]>>
    BY <2>2, <2>3, JobIsSome, Zenon DEF Cur
  <2>5. inServiceBar' = [inServiceBar EXCEPT ![v] = None] /\ inServiceBar[v] = <<p, calls[p]>>
    BY <2>1, <2>3, <2>4, Zenon DEF inServiceBar
  <2>6. stageBar[p] = "executing" /\ stageBar'[p] = "answered"
    <3>1. /\ pending[slot[p]] = 0 /\ pc[p] \in Waiting /\ job[slot[p]] # None
          /\ UNCHANGED <<pending, pc, slot>>
      BY <2>1, <2>2, <2>3, <2>4, Zenon
    <3>2. job'[slot[p]] = None
      BY <2>1, <2>2, Zenon DEF TypeOK
    <3>3. stageBar'[p] = StageOf(pc[p], pending[slot[p]], job'[slot[p]])
      BY <3>1, StageAt, Zenon
    <3>4. stageBar[p] = StageOf(pc[p], pending[slot[p]], job[slot[p]])
      BY StageAt, Zenon
    <3> QED
      BY <3>1, <3>2, <3>3, <3>4, Zenon DEF StageOf, Waiting
  <2>7. \A w \in Slots \ {v} : pending'[w] = pending[w] /\ job'[w] = job[w]
    BY <2>1, Zenon
  <2>8. stageBar' = [stageBar EXCEPT ![p] = "answered"]
    <3>1. \A q \in Producers \ {p} : stageBar'[q] = stageBar[q]
      BY <2>1, <2>2, <2>7, OthersStay, Zenon
    <3>2. /\ stageBar = [q \in Producers |-> stageBar[q]]
          /\ stageBar' = [q \in Producers |-> stageBar'[q]]
      BY Zenon DEF stageBar
    <3> QED
      BY <2>6, <3>1, <3>2, Zenon
  <2>9. Service!Complete(p)
    BY <2>1, <2>2, <2>5, <2>6, <2>8, Zenon DEF Service!Complete, Service!This
  <2> QED
    BY <2>9, Zenon DEF Service!Next
<1>5. CASE SstWake(v)
  <2>1. /\ UNCHANGED <<pending, job, slot, calls, result>>
        /\ \A q \in Producers : pc'[q] = pc[q] \/ (pc[q] = "waitSleep" /\ pc'[q] = "wait")
    BY <1>5, Zenon DEF SstWake, shared
  <2>2. ASSUME NEW q \in Producers PROVE stageBar'[q] = stageBar[q]
    <3>1. CASE pc'[q] = pc[q]
      BY <2>1, <3>1, Zenon DEF stageBar
    <3>2. CASE pc[q] = "waitSleep" /\ pc'[q] = "wait"
      <4>1. \A x, t : StageOf("waitSleep", x, t) = StageOf("wait", x, t)
        BY StageOfFacts DEF Waiting
      <4> QED
        BY <2>1, <3>2, <4>1 DEF stageBar
    <3> QED
      BY <2>1, <3>1, <3>2, Zenon
  <2>3. stageBar' = stageBar /\ inServiceBar' = inServiceBar
    BY <2>1, <2>2, Zenon DEF stageBar, inServiceBar
  <2> QED
    BY <2>1, <2>3, Zenon DEF Service!vars
<1> QED
  BY <1>1, <1>2, <1>3, <1>4, <1>5, Zenon DEF Sst

-----------------------------------------------------------------------------
\* The lock, the flags, the copied request and the wakes (quetz_ipc_client.c,
\* quetzcpu_mmio_sync.cc, quetz_mmio_sync.h, cb_cache_op) together implement
\* the atomic service: a call takes effect once, between invocation and return.
THEOREM Refinement == Spec => ImplementsService
<1>1. Init => Service!Init
  <2> SUFFICES ASSUME Init PROVE Service!Init
    OBVIOUS
  <2>1. stageBar = [p \in Producers |-> "idle"]
    BY StageOfFacts DEF Init, stageBar
  <2>2. inServiceBar = [v \in Slots |-> None]
    BY Zenon DEF Init, inServiceBar
  <2> QED
    BY <2>1, <2>2, Zenon DEF Init, Service!Init
<1>2. IInv /\ [Next]_vars => [Service!Next]_(Service!vars)
  <2> SUFFICES ASSUME IInv, [Next]_vars PROVE [Service!Next]_(Service!vars)
    OBVIOUS
  <2>1. CASE \E p \in Producers : Producer(p)
    BY <2>1, ProducerRefines, Zenon
  <2>2. CASE \E v \in Slots : Sst(v)
    BY <2>2, SstRefines, Zenon
  <2>3. CASE UNCHANGED vars
    BY <2>3, Zenon DEF vars, shared, local, Service!vars, stageBar, inServiceBar
  <2> QED
    BY <2>1, <2>2, <2>3, Zenon DEF Next
<1> QED
  BY <1>1, <1>2, SpecIInv, PTL DEF Spec, ImplementsService, Service!Spec


-----------------------------------------------------------------------------
(* Division.                                                               *)

\* Quotient and remainder, and the equation that determines them.
Divided(n, d, q, r) == n = d * q + r

\* They exist ...
LEMMA DivMod ==
    ASSUME NEW n \in Int, NEW d \in Nat \ {0}
    PROVE  \E q \in Int, r \in 0..d - 1 : n \div d = q /\ n % d = r /\ Divided(n, d, q, r)
<1>1. n \div d \in Int /\ n % d \in 0..d - 1 /\ Divided(n, d, n \div d, n % d)
  BY SMT DEF Divided
<1> QED
  BY <1>1, Zenon

\* ... and are unique.
LEMMA DivUnique ==
    ASSUME NEW n \in Int, NEW d \in Nat \ {0}, NEW q \in Int, NEW r \in 0..d - 1, Divided(n, d, q, r)
    PROVE  n \div d = q /\ n % d = r
BY SMT DEF Divided

\* A number without remainder is a multiple, and conversely.
LEMMA Multiple ==
    ASSUME NEW n \in Int, NEW d \in Nat \ {0}, n % d = 0
    PROVE  \E q \in Int : Divided(n, d, q, 0)
<1>1. PICK q \in Int, r \in 0..d - 1 : n % d = r /\ Divided(n, d, q, r)
  BY DivMod, Zenon
<1> QED
  BY <1>1, Zenon

LEMMA IsMultiple ==
    ASSUME NEW n \in Int, NEW d \in Nat \ {0}, NEW q \in Int, n = d * q
    PROVE  n % d = 0
<1>1. Divided(n, d, q, 0) /\ 0 \in 0..d - 1
  BY DEF Divided
<1> QED
  BY <1>1, DivUnique, Zenon

\* Multiples of d are d apart.
LEMMA Apart ==
    ASSUME NEW a \in Int, NEW b \in Int, NEW d \in Nat \ {0}
    PROVE  /\ a <= b => d * a <= d * b
           /\ a < b => d * a + d <= d * b
           /\ d * a < d * b => a < b
           /\ d * (b - a) = d * b - d * a /\ d * (a + 1) = d * a + d
BY SMT


-----------------------------------------------------------------------------
(* Native RAM in the segment: SharedSegment.                               *)

Region == [base : Nat, size : Nat, offset : Int]

LEMMA SegmentFacts ==
    /\ HostPage \in Nat \ {0} /\ RegionBytes \in Nat \ {0} /\ MaxRegions \in Nat \ {0}
    /\ GuestTop \in Nat \ {0} /\ HeaderBytes \in Nat \ {0} /\ StorageOff \in Nat \ {0} /\ SharedOff \in Nat
    /\ SharedOff >= HeaderBytes /\ RegionBytes % HostPage = 0
BY SegmentAssumption, Zenon

LEMMA SetupFacts ==
    ASSUME NEW s \in Setups
    PROVE  /\ s.list \in Seq(Nat \X Nat) /\ s.sst \in Nat /\ s.qemu \in Nat
           /\ s.header \in [mapSize : Nat, off : Nat, file : Nat]
           /\ s.sst % HostPage = 0 /\ s.qemu % HostPage = 0
BY SegmentAssumption, Zenon

LEMMA UpFacts ==
    ASSUME NEW n \in Nat, NEW d \in Nat \ {0}
    PROVE  \E q \in Int : Up(n, d) = d * q /\ n <= d * q /\ d * q <= n + d - 1
<1>1. PICK e \in Int : e = n + d - 1
  OBVIOUS
<1>2. PICK q \in Int, r \in 0..d - 1 : e \div d = q /\ Divided(e, d, q, r)
  BY DivMod, Zenon
<1>3. PICK z \in Int : z = d * q
  OBVIOUS
<1>4. n <= z /\ z <= n + d - 1
  BY <1>1, <1>2, <1>3 DEF Divided
<1>5. Up(n, d) = z
  <2>1. Up(n, d) = q * d
    BY <1>1, <1>2, Zenon DEF Up
  <2> QED
    BY <1>3, <2>1
<1> QED
  BY <1>3, <1>4, <1>5, Zenon

\* The regions are RegionBytes apart from the first multiple of RegionBytes in
\* the storage.
LEMMA Placed ==
    ASSUME NEW list \in Seq(Nat \X Nat), NEW mapAt \in Nat
    PROVE  \E q \in Int :
              /\ mapAt + StorageOff <= RegionBytes * q /\ RegionBytes * q <= mapAt + StorageOff + RegionBytes - 1
              /\ Place(list, mapAt) \in Seq(Region) /\ Len(Place(list, mapAt)) = Len(list)
              /\ \A i \in 1..Len(list) :
                    /\ list[i] \in Nat \X Nat
                    /\ Place(list, mapAt)[i].base = list[i][1] /\ Place(list, mapAt)[i].size = list[i][2]
                    /\ Place(list, mapAt)[i].offset = RegionBytes * q - mapAt + (i - 1) * RegionBytes
<1>1. RegionBytes \in Nat \ {0} /\ StorageOff \in Nat /\ mapAt + StorageOff \in Nat
  BY SegmentFacts
<1>2. PICK q \in Int : /\ Up(mapAt + StorageOff, RegionBytes) = RegionBytes * q
                       /\ mapAt + StorageOff <= RegionBytes * q
                       /\ RegionBytes * q <= (mapAt + StorageOff) + RegionBytes - 1
  BY <1>1, UpFacts, Zenon
<1>3. PICK z \in Int : z = RegionBytes * q
  BY <1>1
<1>4. PICK n \in Nat : n = Len(list) /\ DOMAIN list = 1..n /\ \A i \in 1..n : list[i] \in Nat \X Nat
  OBVIOUS
<1>5. Place(list, mapAt) = [i \in 1..n |-> [base |-> list[i][1], size |-> list[i][2],
                                          offset |-> z - mapAt + (i - 1) * RegionBytes]]
  BY <1>2, <1>3, <1>4, Zenon DEF Place
<1>6. ASSUME NEW i \in 1..n
      PROVE  [base |-> list[i][1], size |-> list[i][2], offset |-> z - mapAt + (i - 1) * RegionBytes] \in Region
  <2>1. (i - 1) * RegionBytes \in Int
    BY <1>1
  <2>2. z - mapAt + (i - 1) * RegionBytes \in Int
    BY <2>1
  <2>3. list[i][1] \in Nat /\ list[i][2] \in Nat
    BY <1>4, Zenon
  <2> QED
    BY <2>2, <2>3, Zenon DEF Region
<1>7. Place(list, mapAt) \in Seq(Region) /\ Len(Place(list, mapAt)) = n
  BY <1>5, <1>6, SMTT(30)
<1>8. ASSUME NEW i \in 1..n
      PROVE  /\ Place(list, mapAt)[i].base = list[i][1] /\ Place(list, mapAt)[i].size = list[i][2]
             /\ Place(list, mapAt)[i].offset = RegionBytes * q - mapAt + (i - 1) * RegionBytes
  <2>1. Place(list, mapAt)[i] = [base |-> list[i][1], size |-> list[i][2],
                              offset |-> z - mapAt + (i - 1) * RegionBytes]
    BY <1>5, Zenon
  <2> QED
    BY <1>3, <2>1
<1> QED
  BY <1>1, <1>2, <1>4, <1>7, <1>8, Zenon

\* quetz_configure_native_regions places what parseNativeRegions accepts so that
\* quetz_native_regions_valid holds, whatever the address of the segment.
LEMMA ParsedIsValid ==
    ASSUME NEW list \in Seq(Nat \X Nat), NEW mapAt \in Nat, ~ParseRefuses(list)
    PROVE  RegionsValid(Place(list, mapAt), mapAt)
<1>1. /\ HostPage \in Nat \ {0} /\ RegionBytes \in Nat \ {0} /\ MaxRegions \in Nat
      /\ GuestTop \in Nat /\ StorageOff \in Nat /\ RegionBytes % HostPage = 0
  BY SegmentFacts, Zenon
<1>2. PICK q \in Int :
          /\ mapAt + StorageOff <= RegionBytes * q /\ RegionBytes * q <= mapAt + StorageOff + RegionBytes - 1
          /\ Place(list, mapAt) \in Seq(Region) /\ Len(Place(list, mapAt)) = Len(list)
          /\ \A i \in 1..Len(list) :
                /\ list[i] \in Nat \X Nat
                /\ Place(list, mapAt)[i].base = list[i][1] /\ Place(list, mapAt)[i].size = list[i][2]
                /\ Place(list, mapAt)[i].offset = RegionBytes * q - mapAt + (i - 1) * RegionBytes
  BY Placed, Zenon
<1>3. PICK R \in Nat \ {0}, z \in Int, n \in Nat : R = RegionBytes /\ z = R * q /\ n = Len(list) /\ DOMAIN list = 1..n
  BY <1>1
<1>4. PICK t \in Seq(Region) : t = Place(list, mapAt)
  BY <1>2, Zenon
<1>5. Len(t) = n /\ DOMAIN t = 1..n
  BY <1>2, <1>3, <1>4, SMTT(40)
<1> DEFINE K(i) == R * (i - 1)
<1>k. /\ \A i \in 1..n : K(i) \in Nat
      /\ \A i \in 1..n : \A j \in 1..i - 1 : K(j) + R <= K(i)
  <2>1. ASSUME NEW i \in 1..n PROVE K(i) \in Nat
    OBVIOUS
  <2>2. ASSUME NEW i \in 1..n, NEW j \in 1..i - 1 PROVE K(j) + R <= K(i)
    BY Apart
  <2> QED
    BY <2>1, <2>2, Zenon
<1>6. \A i \in 1..n :
          /\ t[i].base = list[i][1] /\ t[i].size = list[i][2]
          /\ t[i].base \in Nat /\ t[i].size \in Nat
          /\ t[i].offset = z - mapAt + K(i)
  <2> SUFFICES ASSUME NEW i \in 1..n
               PROVE  /\ t[i].base = list[i][1] /\ t[i].size = list[i][2]
                      /\ t[i].base \in Nat /\ t[i].size \in Nat
                      /\ t[i].offset = z - mapAt + K(i)
    BY Zenon
  <2>1. t[i].base = list[i][1] /\ t[i].size = list[i][2] /\ t[i].offset = z - mapAt + (i - 1) * R
    BY <1>2, <1>3, <1>4, Zenon
  <2>2. t[i] \in Region
    BY <1>5
  <2>3. (i - 1) * R = R * (i - 1)
    OBVIOUS
  <2> QED
    BY <2>1, <2>2, <2>3, Zenon DEF Region
<1> HIDE DEF K
<1>p. \A i \in 1..n :
          /\ t[i].size # 0 /\ t[i].size <= R /\ t[i].size % HostPage = 0 /\ t[i].base % HostPage = 0
          /\ t[i].base + t[i].size <= GuestTop /\ i <= MaxRegions
          /\ \A j \in 1..i - 1 : ~(t[i].base < t[j].base + t[j].size /\ t[j].base < t[i].base + t[i].size)
  <2> SUFFICES ASSUME NEW i \in 1..n
               PROVE  /\ t[i].size # 0 /\ t[i].size <= R /\ t[i].size % HostPage = 0 /\ t[i].base % HostPage = 0
                      /\ t[i].base + t[i].size <= GuestTop /\ i <= MaxRegions
                      /\ \A j \in 1..i - 1 :
                            ~(t[i].base < t[j].base + t[j].size /\ t[j].base < t[i].base + t[i].size)
    BY Zenon
  <2>1. /\ t[i].size # 0 /\ ~(t[i].size > R) /\ t[i].size % HostPage = 0 /\ t[i].base % HostPage = 0
        /\ ~(t[i].base >= GuestTop) /\ ~(t[i].size > GuestTop - t[i].base) /\ ~(i > MaxRegions)
        /\ \A j \in 1..i - 1 : ~(t[i].base < list[j][1] + list[j][2] /\ list[j][1] < t[i].base + t[i].size)
    <3>1. t[i].base = list[i][1] /\ t[i].size = list[i][2]
      BY <1>6, Zenon
    <3> QED
      BY <1>3, <3>1, Zenon DEF ParseRefuses
  <2>2. t[i].base \in Nat /\ t[i].size \in Nat
    BY <1>6, Zenon
  <2>3. t[i].size <= R /\ t[i].base + t[i].size <= GuestTop /\ i <= MaxRegions
    BY <1>1, <2>1, <2>2, SMTT(30)
  <2>4. \A j \in 1..i - 1 : list[j][1] = t[j].base /\ list[j][2] = t[j].size
    <3>1. \A j \in 1..i - 1 : j \in 1..n
      OBVIOUS
    <3> QED
      BY <1>6, <3>1, Zenon
  <2> QED
    BY <2>1, <2>3, <2>4, Zenon
<1>7. Len(t) <= MaxRegions
  <2>1. CASE n = 0
    BY <1>1, <1>5, <2>1
  <2>2. CASE n # 0
    <3>1. n \in 1..n
      BY <2>2
    <3> QED
      BY <1>5, <1>p, <3>1, Zenon
  <2> QED
    BY <2>1, <2>2, Zenon
<1>8. ASSUME NEW i \in 1..n
      PROVE  /\ t[i].offset >= StorageOff /\ t[i].offset <= StorageOff + StorageBytes - t[i].size
             /\ (mapAt + t[i].offset) % HostPage = 0
  <2>0. t[i].size \in Nat /\ t[i].size <= R /\ i <= MaxRegions /\ t[i].offset = z - mapAt + K(i) /\ K(i) \in Nat
    BY <1>6, <1>p, <1>k, Zenon
  <2>1. PICK size \in Nat : t[i].size = size /\ size <= R
    BY <2>0, Zenon
  <2>k. PICK k \in Nat : k = i - 1 /\ k < MaxRegions
    BY <1>1, <2>0
  <2>2. PICK kk \in Nat : kk = R * k /\ kk = K(i)
    BY <2>k DEF K
  <2>o. PICK o \in Int : o = t[i].offset /\ o = z - mapAt + kk
    <3>1. t[i].offset = z - mapAt + kk
      BY <2>0, <2>2, Zenon
    <3>2. z - mapAt + kk \in Int
      OBVIOUS
    <3> QED
      BY <3>1, <3>2, Zenon
  <2>3. PICK m \in Nat, mm \in Nat : m = MaxRegions /\ mm = R * m
    BY <1>1
  <2>4. StorageBytes = mm + R - 1
    BY <1>3, <2>3, SMTT(30) DEF StorageBytes
  <2>5. kk + R <= mm
    BY <2>k, <2>2, <2>3, Apart, SMTT(30)
  <2>z. mapAt + StorageOff <= z /\ z <= mapAt + StorageOff + R - 1
    BY <1>2, <1>3, Zenon
  <2>6. o >= StorageOff /\ o <= StorageOff + StorageBytes - size
    <3>1. o = z - mapAt + kk /\ StorageBytes = mm + R - 1 /\ kk + R <= mm /\ size <= R
      BY <2>1, <2>o, <2>4, <2>5, Zenon
    <3> QED
      BY <1>1, <3>1, <2>z, SMTT(30)
  <2>7. (mapAt + o) % HostPage = 0
    <3>1. R \in Int /\ R % HostPage = 0
      BY <1>1, <1>3
    <3>0. PICK h \in Int : Divided(R, HostPage, h, 0)
      BY <1>1, <3>1, Multiple, Zenon
    <3>2. R = HostPage * h
      BY <1>1, <3>0, SMTT(30) DEF Divided
    <3>3. PICK e \in Int : e = mapAt + o /\ e = z + kk
      BY <2>o
    <3>4. e = R * (q + k)
      BY <1>3, <2>2, <3>3, SMTT(30)
    <3>5. PICK w \in Int : w = h * (q + k)
      OBVIOUS
    <3>6. (HostPage * h) * (q + k) = HostPage * w
      BY <1>1, <3>5, SMTT(30)
    <3>7. e = HostPage * w
      BY <3>2, <3>4, <3>6, Zenon
    <3> QED
      BY <1>1, <3>3, <3>7, IsMultiple, Zenon
  <2> QED
    BY <2>1, <2>o, <2>6, <2>7, Zenon
<1>9. ASSUME NEW i \in 1..n, NEW j \in 1..i - 1
      PROVE  /\ ~(t[i].base < t[j].base + t[j].size /\ t[j].base < t[i].base + t[i].size)
             /\ ~(t[i].offset < t[j].offset + t[j].size /\ t[j].offset < t[i].offset + t[i].size)
  <2>0. j \in 1..n
    OBVIOUS
  <2>1. ~(t[i].base < t[j].base + t[j].size /\ t[j].base < t[i].base + t[i].size)
    BY <1>p, Zenon
  <2>2. /\ t[i].offset = z - mapAt + K(i) /\ t[j].offset = z - mapAt + K(j)
        /\ t[j].size \in Nat /\ t[j].size <= R /\ K(j) + R <= K(i) /\ K(i) \in Nat /\ K(j) \in Nat
    BY <1>6, <1>p, <1>k, <2>0, Zenon
  <2>3. ~(t[i].offset < t[j].offset + t[j].size)
    BY <2>2, SMTT(30)
  <2> QED
    BY <2>1, <2>3, Zenon
<1>10. RegionsValid(t, mapAt)
  BY <1>3, <1>5, <1>p, <1>7, <1>8, <1>9, Zenon DEF RegionsValid
<1> QED
  BY <1>4, <1>10, Zenon

\* Both processes map the segment on a page, so that a table that is valid for
\* the one is valid for the other.
LEMMA ValidElsewhere ==
    ASSUME NEW t \in Seq(Region), NEW sstAt \in Nat, NEW qemuAt \in Nat,
           sstAt % HostPage = 0, qemuAt % HostPage = 0, RegionsValid(t, sstAt + SharedOff)
    PROVE  RegionsValid(t, qemuAt + SharedOff)
<1>0. HostPage \in Nat \ {0} /\ SharedOff \in Nat
  BY SegmentFacts, Zenon
<1>1. PICK u \in Int, v \in Int : Divided(sstAt, HostPage, u, 0) /\ Divided(qemuAt, HostPage, v, 0)
  <2>1. sstAt \in Int /\ qemuAt \in Int
    OBVIOUS
  <2> QED
    BY <1>0, <2>1, Multiple, Zenon
<1>2. sstAt = HostPage * u /\ qemuAt = HostPage * v
  BY <1>0, <1>1 DEF Divided
<1>3. ASSUME NEW i \in DOMAIN t PROVE ((qemuAt + SharedOff) + t[i].offset) % HostPage = 0
  <2>1. t[i].offset \in Int /\ ((sstAt + SharedOff) + t[i].offset) % HostPage = 0
    <3>1. ((sstAt + SharedOff) + t[i].offset) % HostPage = 0
      BY Zenon DEF RegionsValid
    <3>2. t[i] \in Region
      OBVIOUS
    <3> QED
      BY <3>1, <3>2, Zenon DEF Region
  <2>o. PICK o \in Int : o = t[i].offset
    BY <2>1, Zenon
  <2>2. PICK e \in Int, d \in Int : e = (sstAt + SharedOff) + o /\ d = (qemuAt + SharedOff) + o
    BY <1>0
  <2>3. d = e - sstAt + qemuAt
    BY <1>0, <2>2
  <2>4. PICK w \in Int : Divided(e, HostPage, w, 0)
    BY <1>0, <2>1, <2>o, <2>2, Multiple, Zenon
  <2>5. PICK y \in Int : y = w - u + v
    OBVIOUS
  <2>6. d = HostPage * y
    BY <1>0, <1>2, <2>3, <2>4, <2>5, SMTT(30) DEF Divided
  <2> QED
    BY <1>0, <2>o, <2>2, <2>6, IsMultiple, Zenon
<1> QED
  BY <1>3, Zenon DEF RegionsValid

\* A header that tells the truth is accepted.
LEMMA TrueHeader ==
    LET h == [mapSize |-> SegmentBytes, off |-> SharedOff, file |-> SegmentBytes]
    IN  HeaderFits(h) /\ MagicFound(h)
<1>1. /\ StorageOff \in Nat /\ SharedOff \in Nat /\ HeaderBytes \in Nat /\ SharedOff >= HeaderBytes
      /\ MaxRegions \in Nat /\ RegionBytes \in Nat \ {0}
  BY SegmentFacts, Zenon
<1>2. StorageBytes \in Nat
  BY <1>1 DEF StorageBytes
<1>3. SharedBytes \in Nat /\ SegmentBytes = SharedOff + SharedBytes
  BY <1>1, <1>2, SMTT(30) DEF SharedBytes, SegmentBytes
<1> QED
  BY <1>1, <1>3 DEF HeaderFits, MagicFound

SegInv ==
    /\ setup \in Setups
    /\ stage = "fatal" => ParseRefuses(setup.list)
    /\ stage \in {"spawned", "attached"} =>
          table \in Seq(Region) /\ RegionsValid(table, setup.sst + SharedOff)
    /\ stage = "attached" => HeaderFits(setup.header) /\ MagicFound(setup.header)
    /\ stage = "rejected" => ~(HeaderFits(setup.header) /\ MagicFound(setup.header))

LEMMA SegInvariant == SegSpec => []SegInv
<1>1. SegInit => SegInv
  BY Zenon DEF SegInit, SegInv
<1>2. ASSUME SegInv, Spawn PROVE SegInv'
  <2>1. setup \in Setups /\ setup' = setup /\ stage = "new"
    BY <1>2, Zenon DEF Spawn, SegInv
  <2>2. PICK mapAt \in Nat : mapAt = setup.sst + SharedOff
    BY <2>1, SetupFacts, SegmentFacts, SMTT(30)
  <2>3. setup.list \in Seq(Nat \X Nat)
    BY <2>1, SetupFacts, Zenon
  <2>4. CASE ParseRefuses(setup.list)
    <3>1. stage' = "fatal"
      BY <1>2, <2>4, Zenon DEF Spawn
    <3> QED
      BY <2>1, <2>4, <3>1, Zenon DEF SegInv
  <2>5. CASE ~ParseRefuses(setup.list)
    <3>1. RegionsValid(Place(setup.list, mapAt), mapAt)
      BY <2>3, <2>5, ParsedIsValid, Zenon
    <3>2. Place(setup.list, mapAt) \in Seq(Region)
      BY <2>3, Placed, Zenon
    <3>3. stage' = "spawned" /\ table' = Place(setup.list, mapAt)
      BY <1>2, <2>2, <2>5, <3>1, Zenon DEF Spawn
    <3> QED
      BY <2>1, <2>2, <3>1, <3>2, <3>3, Zenon DEF SegInv
  <2> QED
    BY <2>4, <2>5, Zenon
<1>3. ASSUME SegInv, AttachClient PROVE SegInv'
  <2>1. /\ setup \in Setups /\ setup' = setup /\ table' = table /\ stage = "spawned"
        /\ table \in Seq(Region) /\ RegionsValid(table, setup.sst + SharedOff)
    BY <1>3, Zenon DEF AttachClient, SegInv
  <2>2. /\ setup.sst \in Nat /\ setup.qemu \in Nat /\ setup.sst % HostPage = 0 /\ setup.qemu % HostPage = 0
    BY <2>1, SetupFacts, Zenon
  <2>3. RegionsValid(table, setup.qemu + SharedOff)
    BY <2>1, <2>2, ValidElsewhere, Zenon
  <2>4. stage' = IF HeaderFits(setup.header) /\ MagicFound(setup.header) THEN "attached" ELSE "rejected"
    BY <1>3, <2>3, Zenon DEF AttachClient, MagicFound
  <2> QED
    BY <2>1, <2>4, Zenon DEF SegInv
<1>4. ASSUME SegInv, UNCHANGED segVars PROVE SegInv'
  BY <1>4, Zenon DEF segVars, SegInv
<1>5. SegInv /\ [SegNext]_segVars => SegInv'
  BY <1>2, <1>3, <1>4, Zenon DEF SegNext
<1> QED
  BY <1>1, <1>5, PTL DEF SegSpec

\* What parses is placed, whatever the address of the segment and the position
\* of the storage in it, and QEMU attaches exactly to a segment whose header is
\* true as far as it reads it (quetz_configure_native_regions,
\* quetz_ipc_attach).
THEOREM AttachmentIsExact == SegSpec => []AttachesExactly
<1>1. SegInv => AttachesExactly
  <2> SUFFICES ASSUME SegInv PROVE AttachesExactly
    OBVIOUS
  <2>1. stage = "rejected" => setup.header # [mapSize |-> SegmentBytes, off |-> SharedOff, file |-> SegmentBytes]
    BY TrueHeader, Zenon DEF SegInv
  <2>2. ASSUME stage = "attached"
        PROVE  /\ setup.header.off = SharedOff
               /\ SharedOff + SharedBytes <= setup.header.mapSize
               /\ setup.header.mapSize <= setup.header.file
    <3>1. HeaderFits(setup.header) /\ setup.header.off = SharedOff /\ setup \in Setups
      BY <2>2, Zenon DEF SegInv, MagicFound
    <3>2. setup.header.mapSize \in Nat /\ setup.header.off \in Nat /\ setup.header.file \in Nat
      BY <3>1, SetupFacts, Zenon
    <3>3. SharedBytes \in Int
      <4>1. StorageOff \in Nat /\ MaxRegions \in Nat /\ RegionBytes \in Nat
        BY SegmentFacts, Zenon
      <4>2. StorageBytes \in Int
        BY <4>1 DEF StorageBytes
      <4> QED
        BY <4>1, <4>2 DEF SharedBytes
    <3> QED
      BY <3>1, <3>2, <3>3 DEF HeaderFits
  <2> QED
    BY <2>1, <2>2, Zenon DEF SegInv, AttachesExactly
<1> QED
  BY <1>1, SegInvariant, PTL

LEMMA RegionFields ==
    ASSUME NEW t \in Seq(Region), NEW k \in DOMAIN t
    PROVE  t[k].base \in Nat /\ t[k].size \in Nat /\ t[k].offset \in Int
<1>1. t[k] \in Region
  OBVIOUS
<1> QED
  BY <1>1, Zenon DEF Region

LEMMA RegionsApart ==
    ASSUME NEW t \in Seq(Region), NEW mapAt, RegionsValid(t, mapAt),
           NEW i \in DOMAIN t, NEW j \in DOMAIN t, i # j
    PROVE  /\ t[i].base + t[i].size <= t[j].base \/ t[j].base + t[j].size <= t[i].base
           /\ t[i].offset + t[i].size <= t[j].offset \/ t[j].offset + t[j].size <= t[i].offset
<1>1. DOMAIN t = 1..Len(t) /\ Len(t) \in Nat
  OBVIOUS
<1>3. i \in 1..j - 1 \/ j \in 1..i - 1
  BY <1>1
<1>4. /\ ~(t[i].base < t[j].base + t[j].size /\ t[j].base < t[i].base + t[i].size)
      /\ ~(t[i].offset < t[j].offset + t[j].size /\ t[j].offset < t[i].offset + t[i].size)
  BY <1>3, Zenon DEF RegionsValid
<1>5. PICK b \in Nat, s \in Nat, o \in Int : b = t[i].base /\ s = t[i].size /\ o = t[i].offset
  BY RegionFields, Zenon
<1>6. PICK c \in Nat, u \in Nat, v \in Int : c = t[j].base /\ u = t[j].size /\ v = t[j].offset
  BY RegionFields, Zenon
<1>7. ~(b < c + u /\ c < b + s) /\ ~(o < v + u /\ v < o + s)
  BY <1>4, <1>5, <1>6, Zenon
<1>8. (b + s <= c \/ c + u <= b) /\ (o + s <= v \/ v + u <= o)
  BY <1>7
<1> QED
  BY <1>5, <1>6, <1>8, Zenon

\* Attached, the two processes agree where a guest byte is.
LEMMA SameByte ==
    ASSUME SegInv, stage = "attached", NEW i \in DOMAIN table, NEW a \in GuestBytes(i)
    PROVE  /\ SstByte(i, a) = SharedOff + table[i].offset + (a - table[i].base)
           /\ QemuByte(i, a) = SstByte(i, a)
           /\ SstByte(i, a) \in SharedOff + StorageOff..SharedOff + StorageOff + StorageBytes - 1
<1>1. /\ setup \in Setups /\ table \in Seq(Region) /\ RegionsValid(table, setup.sst + SharedOff)
      /\ setup.header.off = SharedOff
  BY Zenon DEF SegInv, MagicFound
<1>2. setup.sst \in Nat /\ setup.qemu \in Nat /\ SharedOff \in Nat /\ StorageOff \in Nat
  BY <1>1, SetupFacts, SegmentFacts, Zenon
<1>3. StorageBytes \in Int
  BY SegmentFacts DEF StorageBytes
<1>4. \A k \in DOMAIN table : table[k].base \in Nat /\ table[k].size \in Nat /\ table[k].offset \in Int
  BY <1>1, RegionFields, Zenon
<1>d. DOMAIN table = 1..Len(table) /\ Len(table) \in Nat
  BY <1>1
<1>5. \A k \in DOMAIN table : table[k].size # 0
  BY <1>1, Zenon DEF RegionsValid
<1>6. a \in Int /\ table[i].base <= a /\ a <= table[i].base + table[i].size - 1
  BY <1>4 DEF GuestBytes
<1>7. SstByte(i, a) = SharedOff + table[i].offset + (a - table[i].base)
  BY <1>2, <1>4, <1>6, SMTT(40) DEF SstByte, Backing
<1>8. \A k \in DOMAIN table : table[k].base = table[i].base => k = i
  <2> SUFFICES ASSUME NEW k \in DOMAIN table, k # i PROVE table[k].base # table[i].base
    OBVIOUS
  <2>1. table[i].base + table[i].size <= table[k].base \/ table[k].base + table[k].size <= table[i].base
    BY <1>1, RegionsApart, Zenon
  <2> QED
    BY <1>4, <1>5, <2>1, SMTT(40)
<1> DEFINE P(k) == /\ table[k].base = table[i].base /\ table[k].size = table[i].size
                   /\ \A l \in 1..k - 1 : table[l].base # table[i].base
<1>9. P(i)
  <2>1. ASSUME NEW l \in 1..i - 1 PROVE table[l].base # table[i].base
    <3>1. l \in DOMAIN table /\ l # i
      BY <1>d
    <3> QED
      BY <1>8, <3>1, Zenon
  <2> QED
    BY <2>1, Zenon
<1>10. (CHOOSE k \in DOMAIN table : P(k)) = i
  <2>1. \A k \in DOMAIN table : P(k) => k = i
    BY <1>8, Zenon
  <2> HIDE DEF P
  <2> QED
    BY <1>9, <2>1, Zenon
<1>11. QemuByte(i, a) = Backing(setup.qemu + setup.header.off, i) + (a - table[i].base) - setup.qemu
  BY <1>10, Zenon DEF QemuByte
<1>12. QemuByte(i, a) = SharedOff + table[i].offset + (a - table[i].base)
  BY <1>1, <1>2, <1>4, <1>6, <1>11, SMTT(30) DEF Backing
<1>13. table[i].offset >= StorageOff /\ table[i].offset <= StorageOff + StorageBytes - table[i].size
  BY <1>1, Zenon DEF RegionsValid
<1>14. SstByte(i, a) \in SharedOff + StorageOff..SharedOff + StorageOff + StorageBytes - 1
  <2>1. PICK b \in Nat, s \in Nat, o \in Int : b = table[i].base /\ s = table[i].size /\ o = table[i].offset
    BY <1>4, Zenon
  <2>2. b <= a /\ a <= b + s - 1 /\ o >= StorageOff /\ o <= StorageOff + StorageBytes - s
    BY <1>6, <1>13, <2>1, Zenon
  <2>3. SharedOff + o + (a - b) \in SharedOff + StorageOff..SharedOff + StorageOff + StorageBytes - 1
    BY <1>2, <1>3, <1>6, <2>2, SMTT(30)
  <2> QED
    BY <1>7, <2>1, <2>3, Zenon
<1> QED
  BY <1>7, <1>12, <1>14, Zenon

\* Attached, no two guest bytes share a byte of the segment.
LEMMA NoSharedByte ==
    ASSUME SegInv, stage = "attached"
    PROVE  Cardinality(UNION {{SstByte(i, a) : a \in GuestBytes(i)} : i \in DOMAIN table}) =
           Cardinality(UNION {GuestBytes(i) : i \in DOMAIN table})
<1> DEFINE G == UNION {GuestBytes(i) : i \in DOMAIN table}
           S == UNION {{SstByte(i, a) : a \in GuestBytes(i)} : i \in DOMAIN table}
           Home(a) == CHOOSE i \in DOMAIN table : a \in GuestBytes(i)
           f == [a \in G |-> SstByte(Home(a), a)]
<1>1. /\ table \in Seq(Region) /\ RegionsValid(table, setup.sst + SharedOff)
  BY Zenon DEF SegInv
<1>2. \A k \in DOMAIN table : table[k].base \in Nat /\ table[k].size \in Nat /\ table[k].offset \in Int
  BY <1>1, RegionFields, Zenon
<1>3. \A k \in DOMAIN table : \A a \in GuestBytes(k) :
          /\ a \in Int /\ table[k].base <= a /\ a <= table[k].base + table[k].size - 1
          /\ SstByte(k, a) = SharedOff + table[k].offset + (a - table[k].base)
  <2> SUFFICES ASSUME NEW k \in DOMAIN table, NEW a \in GuestBytes(k)
               PROVE  /\ a \in Int /\ table[k].base <= a /\ a <= table[k].base + table[k].size - 1
                      /\ SstByte(k, a) = SharedOff + table[k].offset + (a - table[k].base)
    BY Zenon
  <2>1. a \in Int /\ table[k].base <= a /\ a <= table[k].base + table[k].size - 1
    BY <1>2, SMTT(30) DEF GuestBytes
  <2> QED
    BY <2>1, SameByte, Zenon
<1>4. ASSUME NEW i \in DOMAIN table, NEW j \in DOMAIN table, NEW a \in GuestBytes(i), NEW b \in GuestBytes(j),
             i # j
      PROVE  a # b /\ SstByte(i, a) # SstByte(j, b)
  <2>1. /\ table[i].base + table[i].size <= table[j].base \/ table[j].base + table[j].size <= table[i].base
        /\ table[i].offset + table[i].size <= table[j].offset \/ table[j].offset + table[j].size <= table[i].offset
    BY <1>1, <1>4, RegionsApart, Zenon
  <2>2. SharedOff \in Nat
    BY SegmentFacts, Zenon
  <2> QED
    BY <1>2, <1>3, <2>1, <2>2, SMTT(40)
<1>5. ASSUME NEW i \in DOMAIN table, NEW a \in GuestBytes(i), NEW b \in GuestBytes(i), SstByte(i, a) = SstByte(i, b)
      PROVE  a = b
  <2>1. SharedOff \in Nat
    BY SegmentFacts, Zenon
  <2> QED
    BY <1>2, <1>3, <1>5, <2>1, SMTT(30)
<1>6. IsFiniteSet(G)
  <2>1. GuestTop \in Nat
    BY SegmentFacts, Zenon
  <2>2. ASSUME NEW i \in DOMAIN table, NEW a \in GuestBytes(i) PROVE a \in 0..GuestTop
    <3>1. table[i].base + table[i].size <= GuestTop
      BY <1>1, Zenon DEF RegionsValid
    <3> QED
      BY <1>2, <1>3, <2>1, <3>1, SMTT(30)
  <2>3. G \in SUBSET (0..GuestTop)
    BY <2>2, Zenon
  <2>4. IsFiniteSet(0..GuestTop)
    BY <2>1, FS_Interval
  <2> QED
    BY <2>3, <2>4, FS_Subset, Zenon
<1>7. \A i \in DOMAIN table : \A a \in GuestBytes(i) : Home(a) = i
  <2> SUFFICES ASSUME NEW i \in DOMAIN table, NEW a \in GuestBytes(i) PROVE Home(a) = i
    BY Zenon
  <2>1. Home(a) \in DOMAIN table /\ a \in GuestBytes(Home(a))
    BY Zenon
  <2> QED
    BY <1>4, <2>1, Zenon
<1>8. \A a \in G : \E i \in DOMAIN table : a \in GuestBytes(i) /\ f[a] = SstByte(i, a)
  <2> SUFFICES ASSUME NEW i \in DOMAIN table, NEW a \in GuestBytes(i) PROVE f[a] = SstByte(i, a)
    BY Zenon
  <2>1. a \in G
    BY Zenon
  <2>2. f[a] = SstByte(Home(a), a)
    BY <2>1, Zenon
  <2> QED
    BY <1>7, <2>2, Zenon
<1>9. DOMAIN f = G
  BY Zenon
<1>10. \A s \in S : \E i \in DOMAIN table : \E a \in GuestBytes(i) : s = SstByte(i, a)
  BY Zenon
<1>11. ASSUME NEW i \in DOMAIN table, NEW a \in GuestBytes(i) PROVE a \in G /\ SstByte(i, a) \in S
  <2>1. a \in G
    BY Zenon
  <2>2. SstByte(i, a) \in {SstByte(i, b) : b \in GuestBytes(i)}
    BY Zenon
  <2>3. {SstByte(i, b) : b \in GuestBytes(i)} \in {{SstByte(k, b) : b \in GuestBytes(k)} : k \in DOMAIN table}
    BY Zenon
  <2> QED
    BY <2>1, <2>2, <2>3, Zenon
<1>12. \A a \in G : SstByte(Home(a), a) \in S
  <2> SUFFICES ASSUME NEW i \in DOMAIN table, NEW a \in GuestBytes(i) PROVE SstByte(Home(a), a) \in S
    BY Zenon
  <2>1. Home(a) = i
    BY <1>7, Zenon
  <2> QED
    BY <1>11, <2>1, Zenon
<1> HIDE DEF G, S, Home
<1>13. f \in [G -> S]
  BY <1>12, Zenon
<1> HIDE DEF f
<1>14. \A a \in G, b \in G : f[a] = f[b] => a = b
  <2> SUFFICES ASSUME NEW a \in G, NEW b \in G, f[a] = f[b] PROVE a = b
    BY Zenon
  <2>1. PICK i \in DOMAIN table : a \in GuestBytes(i) /\ f[a] = SstByte(i, a)
    BY <1>8, Zenon
  <2>2. PICK j \in DOMAIN table : b \in GuestBytes(j) /\ f[b] = SstByte(j, b)
    BY <1>8, Zenon
  <2>3. i = j
    BY <1>4, <2>1, <2>2, Zenon
  <2> QED
    BY <1>5, <2>1, <2>2, <2>3, Zenon
<1>15. \A s \in S : \E a \in G : f[a] = s
  <2> SUFFICES ASSUME NEW s \in S PROVE \E a \in G : f[a] = s
    BY Zenon
  <2>0. PICK i \in DOMAIN table : \E a \in GuestBytes(i) : s = SstByte(i, a)
    BY <1>10, Zenon
  <2>1. PICK a \in GuestBytes(i) : s = SstByte(i, a)
    BY <2>0, Zenon
  <2>2. a \in G
    BY <1>11, Zenon
  <2>3. PICK j \in DOMAIN table : a \in GuestBytes(j) /\ f[a] = SstByte(j, a)
    BY <1>8, <2>2, Zenon
  <2>4. j = i
    BY <1>4, <2>3, Zenon
  <2> QED
    BY <2>1, <2>2, <2>3, <2>4, Zenon
<1>16. ExistsBijection(G, S)
  <2>1. f \in Injection(G, S)
    BY <1>9, <1>13, <1>14, Zenon DEF Injection, IsInjective
  <2>2. f \in Surjection(G, S)
    BY <1>13, <1>15, Zenon DEF Surjection
  <2> QED
    BY <2>1, <2>2, Zenon DEF ExistsBijection, Bijection
<1>17. Cardinality(S) = Cardinality(G)
  BY <1>6, <1>16, FS_Bijection, Zenon
<1> QED
  BY <1>17, Zenon DEF G, S

\* Wherever the two processes map the segment, a guest byte of a native region
\* is one byte of the segment for both, in the storage, and is shared with no
\* other guest byte (quetz_ipc_native_ram, serviceWindowCache).
THEOREM NativeRamIsOneView == SegSpec => []OneView
<1>1. SegInv => OneView
  <2> SUFFICES ASSUME SegInv, stage = "attached"
               PROVE  /\ \A i \in DOMAIN table :
                            /\ (setup.qemu + SharedOff + table[i].offset) % HostPage = 0
                            /\ \A a \in GuestBytes(i) :
                                  /\ QemuByte(i, a) = SstByte(i, a)
                                  /\ SstByte(i, a) \in SharedOff + StorageOff..SharedOff + StorageOff + StorageBytes - 1
                      /\ Cardinality(UNION {{SstByte(i, a) : a \in GuestBytes(i)} : i \in DOMAIN table}) =
                         Cardinality(UNION {GuestBytes(i) : i \in DOMAIN table})
    BY Zenon DEF OneView
  <2>1. /\ setup \in Setups /\ table \in Seq(Region) /\ RegionsValid(table, setup.sst + SharedOff)
    BY Zenon DEF SegInv
  <2>2. /\ setup.sst \in Nat /\ setup.qemu \in Nat /\ setup.sst % HostPage = 0 /\ setup.qemu % HostPage = 0
    BY <2>1, SetupFacts, Zenon
  <2>3. RegionsValid(table, setup.qemu + SharedOff)
    BY <2>1, <2>2, ValidElsewhere, Zenon
  <2>4. \A i \in DOMAIN table : (setup.qemu + SharedOff + table[i].offset) % HostPage = 0
    BY <2>3, Zenon DEF RegionsValid
  <2> QED
    BY <2>4, SameByte, NoSharedByte, Zenon
<1> QED
  BY <1>1, SegInvariant, PTL
=============================================================================
