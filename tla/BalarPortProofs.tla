-------------------------- MODULE BalarPortProofs --------------------------
(***************************************************************************)
(* The steps of the accelerator port and the device preserve the invariant *)
(* of BalarPortInvariant, and what follows from it.                        *)
(*                                                                         *)
(* Then how an access is divided into the requests a port may send         *)
(* (AccessSplit), for every line size and width of the address.            *)
(***************************************************************************)
EXTENDS BalarPortInvariant, AccessSplit

LEMMA SubmitStep ==
    ASSUME IInv, NEW v \in Vcpus, Submit(v)
    PROVE  IInv'
<1> USE DEF pipe, packet
<1>0. /\ Types /\ Global /\ Good(v) /\ InMailbox(v)
      /\ asyncVcpu = None \/ asyncVcpu = v
      /\ v \in HasMem /\ ~(inFlight + 1 > Depth)
  BY Polled, RefusalFacts, Zenon DEF IInv, Good, Submit, InAperture
<1>a. Fresh(v) /\ visible[<<v, ops[v]>>] = 0 /\ <<v, ops[v]>> \notin posted /\ ops[v] \in 1..MaxOps
  <2>1. mailbox[v].kind \in Ringing
    BY Zenon DEF Submit, Ringing
  <2>2. Fresh(v) /\ visible[<<v, ops[v]>>] = 0 /\ <<v, ops[v]>> \notin posted
    BY <1>0, <2>1, Zenon DEF InMailbox
  <2>3. ops[v] \in 0..MaxOps /\ ops[v] >= 1
    BY <1>0, <2>2, Zenon DEF Fresh, Types
  <2> QED
    BY <2>2, <2>3, MaxOpsAssumption, SMTT(30)
<1>b. [op |-> ops[v], async |-> TRUE] \in Doorbell /\ [op |-> ops[v], async |-> TRUE] # None
  BY <1>a, DoorbellFacts, Zenon
<1>c. /\ guest' = guest /\ mailbox'[v] = None /\ ops' = ops /\ flushing' = flushing
      /\ armed'[v] = [op |-> ops[v], async |-> TRUE]
      /\ submitted'[v] = submitted[v] + 1 /\ completed' = completed
      /\ posted' = posted \cup {<<v, ops[v]>>} /\ done' = done /\ tickets' = tickets
  BY <1>0, Zenon DEF Submit, ArmSubmit, Take, Types
<1>1. Types'
  <2>1. mailbox' \in [Vcpus -> Command \cup {None}]
    BY <1>0, Zenon DEF Types, Submit, Take
  <2>2. submitted' \in [Vcpus -> Nat] /\ inFlight' \in Nat
    <3>1. submitted' = [submitted EXCEPT ![v] = @ + 1] /\ inFlight' = inFlight + 1
      BY Zenon DEF Submit, ArmSubmit
    <3>2. submitted \in [Vcpus -> Nat] /\ inFlight \in Nat
      BY <1>0, Zenon DEF Types
    <3> QED
      BY <3>1, <3>2, SMTT(30)
  <2>3. armed' \in [Vcpus -> Doorbell \cup {None}]
    BY <1>0, <1>b, Zenon DEF Types, Submit, ArmSubmit
  <2>4. posted' \subseteq Op
    <3>1. posted \subseteq Op /\ <<v, ops[v]>> \in Op
      BY <1>0, <1>a, Zenon DEF Types, Op
    <3> QED
      BY <1>c, <3>1, Zenon
  <2> QED
    BY <1>0, <2>1, <2>2, <2>3, <2>4, Zenon DEF Types, Submit, ArmSubmit
<1>2. ASSUME NEW w \in Vcpus, w # v PROVE Good(w)'
  <2>1. /\ mailbox'[w] = mailbox[w] /\ armed'[w] = armed[w] /\ submitted'[w] = submitted[w]
        /\ \A n : <<w, n>> \in posted' <=> <<w, n>> \in posted
    BY <1>0, <1>2, Zenon DEF Submit, ArmSubmit, Take, Types
  <2>2. Same(w)
    BY <2>1, Zenon
    DEF Submit, ArmSubmit, Same, SameClient, SameHeld, SameSend, SameCount, SamePacket, SameView
  <2> QED
    BY <2>2, GoodKept, Zenon DEF IInv
<1>3. Good(v)'
  <2>0. SameSend(v) /\ SamePacket(v)
    BY Zenon DEF Submit, SameSend, SamePacket
  <2>a. \A n : /\ InQueue(v, n)' <=> InQueue(v, n)
               /\ Posted(v, n)' <=> Posted(v, n)
               /\ InMemory(v, n)' <=> InMemory(v, n)
    BY Zenon DEF Submit, InQueue, Posted, InMemory
  <2>1. Phase(v)'
    <3>1. Fresh(v)' /\ Calm(v)'
      BY <1>0, <1>a, <1>c, Zenon DEF Submit, Fresh, Calm, Plain, InQueue, InMailbox
    <3>2. armed'[v] # None /\ armed'[v].op = ops[v] /\ armed'[v].async
      BY <1>b, <1>c, SMTT(30)
    <3> QED
      BY <1>0, <1>a, <1>c, <3>1, <3>2, Zenon DEF Phase, IsArmed, InMailbox, Submit
  <2>2. Data(v)'
    <3>1. \A n \in 1..MaxOps : n > ops[v] => <<v, n>> \notin posted'
      BY <1>0, <1>a, <1>c, SMTT(30) DEF Good, Data
    <3> QED
      BY <1>0, <1>c, <2>a, <3>1, ZenonT(60) DEF Good, Data, Submit
  <2>3. Pending(v)'
    <3>1. HeldBack(v, ops[v])' /\ \A n : ~HeldBack(v, n)
      BY <1>0, <1>b, <1>c, SMTT(30) DEF HeldBack, InMailbox
    <3> QED
      BY <1>0, <1>c, <2>a, <3>1, Zenon DEF Good, Pending
  <2>4. Counts(v)'
    <3>1. Held(v) = 0 /\ Held(v)' = 1
      BY <1>0, <1>b, <1>c, SMTT(30) DEF Held, InMailbox
    <3>2. completed[v] \in Nat /\ Len(queue[v]) \in Nat /\ (IF busy[v] THEN 1 ELSE 0) \in Nat
      BY <1>0, LenProperties, Zenon DEF Types
    <3>3. submitted[v] = completed[v] + 0 + Len(queue[v]) + (IF busy[v] THEN 1 ELSE 0)
      BY <1>0, <3>1, Zenon DEF Good, Counts
    <3>4. \A c, l, b \in Nat : c + 0 + l + b + 1 = c + 1 + l + b
      OBVIOUS
    <3>5. submitted'[v] = completed[v] + 1 + Len(queue[v]) + (IF busy[v] THEN 1 ELSE 0)
      <4>1. submitted'[v] = submitted[v] + 1
        BY <1>c, Zenon
      <4>2. submitted'[v] = completed[v] + 0 + Len(queue[v]) + (IF busy[v] THEN 1 ELSE 0) + 1
        BY <3>3, <4>1, Zenon
      <4> QED
        BY <3>2, <3>4, <4>2, SMTT(30)
    <3> QED
      BY <1>0, <1>c, <2>0, <3>1, <3>5, ZenonT(60) DEF Good, Counts, SameSend
  <2>5. Order(v)'
    BY <1>0, <1>c, <2>0, <2>a, Zenon DEF Good, Order, SameSend
  <2> QED
    BY <2>1, <2>2, <2>3, <2>4, <2>5, Zenon DEF Good
<1>4. Global'
  <2>1. submitted[v] = completed[v] + inFlight /\ \A w \in Vcpus : w # v => submitted[w] = 0
    BY <1>0, Claim, Zenon
  <2>2. asyncVcpu' = v /\ v # None /\ inFlight' = inFlight + 1
    BY NoneAssumption, Zenon DEF Submit, ArmSubmit
  <2>3. submitted'[v] = completed'[v] + inFlight' /\ inFlight' <= Depth
    <3>1. completed[v] \in Nat /\ inFlight \in Nat
      BY <1>0, Zenon DEF Types
    <3>2. submitted'[v] = submitted[v] + 1 /\ completed'[v] = completed[v]
      BY <1>c, Zenon
    <3>3. ~(inFlight + 1 > Depth)
      BY <1>0, Zenon
    <3> QED
      BY <2>1, <2>2, <3>1, <3>2, <3>3, DepthAssumption, SMTT(30)
  <2>4. \A w \in Vcpus : w # v => submitted'[w] = 0
    BY <1>0, <2>1, Zenon DEF Submit, ArmSubmit, Types
  <2> QED
    BY <1>0, <2>2, <2>3, <2>4, Zenon DEF Submit, Global, Alive, JoinMeansDone, HeldOpen
<1> QED
  BY <1>1, <1>2, <1>3, <1>4, Zenon DEF IInv

-----------------------------------------------------------------------------
(* Doorbells: armed, flushed and sent.                                     *)

LEMMA HandleDoorbellStep ==
    ASSUME IInv, NEW v \in Vcpus, HandleDoorbell(v)
    PROVE  IInv'
<1> USE DEF pipe, packet, view
<1>0. Types /\ Global /\ Good(v) /\ InMailbox(v)
  BY Polled, Zenon DEF IInv, Good, HandleDoorbell
<1>a. /\ Fresh(v) /\ Calm(v) /\ visible[<<v, ops[v]>>] = 0 /\ <<v, ops[v]>> \notin posted
      /\ ops[v] \in 1..MaxOps
  BY <1>0 DEF InMailbox, HandleDoorbell, Ringing, Fresh, Types
<1>b. PICK d \in Doorbell : d = [op |-> ops[v], async |-> FALSE]
  BY <1>a, DoorbellFacts, Zenon
<1>c. d.op = ops[v] /\ ~d.async /\ d # None
  BY <1>b, DoorbellFacts, Zenon
<1>d. /\ Take(v)
      /\ IF v \notin HasMem \/ lines = 0
         THEN /\ ForwardDoorbell(v, d, FALSE, queue, busy, atDevice)
              /\ UNCHANGED armed
         ELSE /\ armed' = [armed EXCEPT ![v] = d]
              /\ UNCHANGED <<guest, atDevice, queue, busy>>
      /\ UNCHANGED <<ops, packet, flushing, reading, submitted, completed, inFlight,
                     asyncVcpu, view, fatal, ended>>
  BY <1>0, <1>b, Zenon DEF HandleDoorbell, InMailbox
<1>e. mailbox' \in [Vcpus -> Command \cup {None}] /\ mailbox'[v] = None
  BY <1>0, <1>d, Zenon DEF Types, Take
<1>f. \A w \in Vcpus : w # v => mailbox'[w] = mailbox[w]
  BY <1>0, <1>d, Zenon DEF Types, Take
<1>g. Global'
  BY <1>0, <1>d, Zenon DEF Global, JoinMeansDone, HeldOpen
<1>1. CASE v \notin HasMem \/ lines = 0
  <2>1. ForwardDoorbell(v, d, FALSE, queue, busy, atDevice) /\ armed' = armed
    BY <1>d, <1>1, Zenon
  <2>2. Types'
    BY <1>0, <1>d, <1>e, <2>1, ForwardOthers, ZenonT(60) DEF Types
  <2>3. ASSUME NEW w \in Vcpus, w # v PROVE Good(w)'
    <3>1. guest'[w] = guest[w] /\ SameSend(w)
      BY <1>0, <2>1, <2>3, ForwardOthers, ZenonT(60)
    <3>2. Same(w)
      BY <1>d, <1>f, <2>1, <2>3, <3>1, ZenonT(60) DEF Same, SameClient, SameHeld, SameCount, SamePacket, SameView
    <3> QED
      BY <3>2, GoodKept, Zenon DEF IInv
  <2>4. Good(v)'
    <3>1. Held(v) = 0 /\ \A n : ~HeldBack(v, n)
      BY <1>0, Zenon DEF InMailbox, Held, HeldBack
    <3>2. SameCount(v) /\ SameView(v) /\ armed'[v] = None /\ flushing'[v] = None
      BY <1>0, <1>d, <2>1, ZenonT(60) DEF SameCount, SameView, InMailbox
    <3>3. ~(lines > 0 /\ v \in HasMem)
      BY <1>0, <1>1, SMTT(30) DEF Types
    <3>4. guest[v] = "wait"
      BY <1>0, ZenonT(60) DEF InMailbox
    <3> QED
      <4>1. Sendable(v, d)
        BY <1>a, <1>c, <3>1, <3>4, ZenonT(60) DEF Sendable
      <4>2. Forwards(v, d)
        BY <1>c, <1>d, <1>e, <2>1, <3>2, <3>3, ZenonT(60) DEF Forwards
      <4> QED
        BY <1>0, <4>1, <4>2, ForwardGood, ZenonT(60)
  <2> QED
    BY <1>g, <2>2, <2>3, <2>4, Zenon DEF IInv
<1>2. CASE ~(v \notin HasMem \/ lines = 0)
  <2>1. armed' = [armed EXCEPT ![v] = d] /\ UNCHANGED <<guest, atDevice, queue, busy>>
    BY <1>d, <1>2, Zenon
  <2>2. Types'
    <3>1. armed' \in [Vcpus -> Doorbell \cup {None}]
      BY <1>0, <2>1, Zenon DEF Types
    <3> QED
      BY <1>0, <1>d, <1>e, <2>1, <3>1, Zenon DEF Types
  <2>3. ASSUME NEW w \in Vcpus, w # v PROVE Good(w)'
    <3>1. armed'[w] = armed[w]
      BY <1>0, <2>1, <2>3, Zenon DEF Types
    <3>2. Same(w)
      BY <1>d, <1>f, <2>1, <2>3, <3>1, ZenonT(60)
      DEF Same, SameClient, SameHeld, SameSend, SameCount, SamePacket, SameView
    <3> QED
      BY <3>2, GoodKept, Zenon DEF IInv
  <2>4. Good(v)'
    <3>0. armed'[v] = d /\ armed[v] = None /\ flushing[v] = None /\ guest[v] = "wait"
      BY <1>0, <2>1, Zenon DEF Types, InMailbox
    <3>1. SameSend(v) /\ SameCount(v) /\ SameView(v) /\ SamePacket(v)
      BY <1>d, <2>1, Zenon DEF SameSend, SameCount, SameView, SamePacket
    <3>2. Data(v)' /\ Order(v)'
      BY <1>0, <1>d, <3>1, DataKept, OrderKept, ZenonT(60) DEF Good
    <3>3. Pending(v)'
      BY <1>0, <1>d, <2>1, <3>0, ZenonT(60) DEF Good, Pending, HeldBack, InQueue, Posted
    <3>4. Counts(v)'
      <4>1. Held(v)' = 0 /\ Held(v) = 0
        BY <1>c, <1>d, <3>0, Zenon DEF Held
      <4> QED
        BY <1>0, <3>1, <4>1, Zenon DEF Good, Counts, SameSend, SameCount
    <3>5. Phase(v)'
      <4>1. Fresh(v)' /\ Calm(v)'
        BY <1>a, <1>d, <2>1, Zenon DEF Fresh, Calm, Plain, InQueue
      <4> QED
        BY <1>a, <1>c, <1>d, <1>e, <1>2, <2>1, <3>0, <4>1, ZenonT(60) DEF Phase, IsArmed
    <3> QED
      BY <3>2, <3>3, <3>4, <3>5, ZenonT(60) DEF Good
  <2> QED
    BY <1>g, <2>2, <2>3, <2>4, Zenon DEF IInv
<1> QED
  BY <1>1, <1>2, Zenon

LEMMA ProcessStep ==
    ASSUME IInv, NEW v \in Vcpus, Process(v)
    PROVE  IInv'
<1> USE DEF pipe, packet, view
<1>0. Types /\ Global /\ Good(v) /\ IsArmed(v)
  BY Zenon DEF IInv, Good, Process, Phase, Idle, InMailbox, IsArmed, IsFlushing, IsSent, IsReading
<1>a. armed[v] \in Doorbell /\ armed[v].op = ops[v] /\ flushing[v] = None
  BY <1>0, Zenon DEF IsArmed, Types
<1>b. ops[v] \in 1..MaxOps
  BY <1>a, DoorbellFacts, Zenon
<1>c. <<v, ops[v]>> \in packets \/ CutOff(v, ops[v])
  <2>1. ~pending[v] /\ (v \in halted \/ fed[v] = ops[v])
    BY Zenon DEF Process, Drained
  <2>2. fed[v] \in Nat /\ fed[v] <= ops[v]
    BY <1>0, Zenon DEF Types, Good, Data
  <2>3. CASE fed[v] = ops[v]
    <3>1. ops[v] <= fed[v]
      BY <2>2, <2>3
    <3> QED
      BY <1>0, <1>b, <2>1, <3>1, ZenonT(60) DEF Good, Data
  <2>4. CASE fed[v] # ops[v]
    BY <1>b, <2>1, <2>2, <2>4 DEF CutOff
  <2> QED
    BY <2>3, <2>4, Zenon
<1>d. /\ armed' = [armed EXCEPT ![v] = None]
      /\ IF lines = 0
         THEN /\ ForwardDoorbell(v, armed[v], FALSE, queue, busy, atDevice)
              /\ UNCHANGED flushing
         ELSE /\ flushing' = [flushing EXCEPT ![v] = [op        |-> armed[v].op,
                                                     async     |-> armed[v].async,
                                                     remaining |-> lines]]
              /\ UNCHANGED <<guest, atDevice, queue, busy>>
      /\ UNCHANGED <<mailbox, ops, packet, reading, submitted, completed, inFlight,
                     asyncVcpu, view, fatal, ended>>
  BY <1>a, Zenon DEF Process
<1>e. /\ armed' \in [Vcpus -> Doorbell \cup {None}] /\ armed'[v] = None
      /\ \A w \in Vcpus : w # v => armed'[w] = armed[w]
  BY <1>0, <1>d, Zenon DEF Types
<1>f. Held(v) = (IF armed[v].async THEN 1 ELSE 0)
  BY <1>0, Zenon DEF Held, IsArmed
<1>g. Global'
  BY <1>0, <1>d, Zenon DEF Global, JoinMeansDone, HeldOpen
<1>1. CASE lines = 0
  <2>1. ForwardDoorbell(v, armed[v], FALSE, queue, busy, atDevice) /\ flushing' = flushing
    BY <1>d, <1>1, Zenon
  <2>2. Types'
    BY <1>0, <1>a, <1>d, <1>e, <2>1, ForwardOthers, ZenonT(60) DEF Types
  <2>3. ASSUME NEW w \in Vcpus, w # v PROVE Good(w)'
    <3>1. guest'[w] = guest[w] /\ SameSend(w)
      BY <1>0, <1>a, <2>1, <2>3, ForwardOthers, ZenonT(60)
    <3>2. Same(w)
      BY <1>d, <1>e, <2>1, <2>3, <3>1, ZenonT(60) DEF Same, SameClient, SameHeld, SameCount, SamePacket, SameView
    <3> QED
      BY <3>2, GoodKept, Zenon DEF IInv
  <2>4. Good(v)'
    <3>1. \A n \in 1..MaxOps : HeldBack(v, n) => armed[v].async /\ n = ops[v]
      BY <1>a, Zenon DEF HeldBack
    <3>2. SameCount(v) /\ SameView(v) /\ flushing'[v] = None /\ mailbox'[v] = None
      BY <1>0, <1>a, <1>d, <2>1, ZenonT(60) DEF SameCount, SameView, IsArmed
    <3>3. InMemory(v, ops[v])'
      BY <1>0, <1>1, <1>c, <1>d, ZenonT(60) DEF InMemory, CutOff, IsArmed
    <3>4. /\ guest[v] = "wait" /\ Fresh(v) /\ Calm(v)
          /\ armed[v].async <=> <<v, ops[v]>> \in posted
      BY <1>0, Zenon DEF IsArmed
    <3> QED
      <4>1. Sendable(v, armed[v])
        BY <1>a, <1>f, <3>1, <3>4, ZenonT(60) DEF Sendable
      <4>2. Forwards(v, armed[v])
        BY <1>d, <1>e, <2>1, <3>2, <3>3, ZenonT(60) DEF Forwards
      <4> QED
        BY <1>0, <1>a, <4>1, <4>2, ForwardGood, ZenonT(60)
  <2> QED
    BY <1>g, <2>2, <2>3, <2>4, Zenon DEF IInv
<1>2. CASE lines # 0
  <2>0. lines \in Nat \ {0}
    BY <1>0, <1>2, Zenon DEF Types
  <2>a. PICK f \in Flush : f.op = ops[v] /\ f.async = armed[v].async /\ f.remaining = lines
                           /\ f = [op |-> armed[v].op, async |-> armed[v].async, remaining |-> lines]
    BY <1>a, <1>b, <2>0, DoorbellFacts, Zenon DEF Flush
  <2>1. flushing' = [flushing EXCEPT ![v] = f] /\ UNCHANGED <<guest, atDevice, queue, busy>>
    BY <1>d, <1>2, <2>a, ZenonT(60)
  <2>b. f # None /\ flushing'[v] = f
    BY <1>0, <2>1, DoorbellFacts, Zenon DEF Types
  <2>2. Types'
    <3>1. flushing' \in [Vcpus -> Flush \cup {None}]
      BY <1>0, <2>1, ZenonT(60) DEF Types
    <3> QED
      BY <1>0, <1>d, <1>e, <2>1, <3>1, ZenonT(60) DEF Types
  <2>3. ASSUME NEW w \in Vcpus, w # v PROVE Good(w)'
    <3>1. flushing'[w] = flushing[w]
      BY <1>0, <2>1, <2>3, Zenon DEF Types
    <3>2. Same(w)
      BY <1>d, <1>e, <2>1, <2>3, <3>1, ZenonT(60)
      DEF Same, SameClient, SameHeld, SameSend, SameCount, SamePacket, SameView
    <3> QED
      BY <3>2, GoodKept, Zenon DEF IInv
  <2>4. Good(v)'
    <3>1. SameSend(v) /\ SameCount(v) /\ SameView(v) /\ SamePacket(v)
      BY <1>d, <2>1, Zenon DEF SameSend, SameCount, SameView, SamePacket
    <3>2. Data(v)' /\ Order(v)'
      BY <1>0, <1>d, <3>1, DataKept, OrderKept, ZenonT(60) DEF Good
    <3>3. Pending(v)'
      <4>1. \A n : HeldBack(v, n) => HeldBack(v, n)'
        BY <1>a, <2>a, <2>b, Zenon DEF HeldBack
      <4> QED
        BY <1>0, <3>1, <4>1, Zenon DEF Good, Pending, InQueue, Posted, SameSend, SameView
    <3>4. Counts(v)'
      <4>1. Held(v)' = Held(v)
        BY <1>e, <1>f, <2>a, <2>b, Zenon DEF Held
      <4> QED
        BY <1>0, <3>1, <4>1, Zenon DEF Good, Counts, SameSend, SameCount
    <3>5. Phase(v)'
      <4>1. Fresh(v)' /\ Calm(v)'
        BY <1>0, <1>d, <2>1, ZenonT(60) DEF IsArmed, Fresh, Calm, Plain, InQueue
      <4>2. visible'[<<v, ops'[v]>>] + flushing'[v].remaining = lines'
        BY <1>0, <1>d, <2>0, <2>a, <2>b, SMTT(30) DEF IsArmed
      <4>3. <<v, ops'[v]>> \in packets' \/ CutOff(v, ops[v])'
        BY <1>c, <1>d, Zenon DEF CutOff
      <4> QED
        BY <1>0, <1>d, <1>e, <2>1, <2>a, <2>b, <4>1, <4>2, <4>3, ZenonT(60) DEF Phase, IsArmed, IsFlushing
    <3> QED
      BY <3>2, <3>3, <3>4, <3>5, Zenon DEF Good
  <2> QED
    BY <1>g, <2>2, <2>3, <2>4, ZenonT(60) DEF IInv
<1> QED
  BY <1>1, <1>2, Zenon

LEMMA FlushStep ==
    ASSUME IInv, NEW v \in Vcpus, FlushResponse(v)
    PROVE  IInv'
<1> USE DEF pipe, view
<1>0. Types /\ Global /\ Good(v) /\ IsFlushing(v)
  BY Zenon DEF IInv, Good, FlushResponse, Phase, Idle, InMailbox, IsArmed, IsFlushing, IsSent, IsReading
<1>a. PICK f \in Flush : f = flushing[v]
  BY <1>0, Zenon DEF IsFlushing, Types
<1>b. /\ f.op = ops[v] /\ ops[v] \in 1..MaxOps /\ f.async \in BOOLEAN
      /\ f.remaining \in Nat \ {0} /\ f # None
  BY <1>0, <1>a, DoorbellFacts, Zenon DEF IsFlushing
<1>c. PICK d \in Doorbell : d = [op |-> f.op, async |-> f.async]
  BY <1>b, DoorbellFacts, Zenon
<1>d. d.op = ops[v] /\ d.async = f.async
  BY <1>b, <1>c, Zenon
<1>e. <<v, ops[v]>> \in Op /\ visible[<<v, ops[v]>>] \in Nat
  BY <1>0, <1>b, Zenon DEF Op, Types
<1>f. /\ visible' = IF <<v, ops[v]>> \in packets
                    THEN [visible EXCEPT ![<<v, ops[v]>>] = @ + 1] ELSE visible
      /\ IF f.remaining = 1
         THEN /\ flushing' = [flushing EXCEPT ![v] = None]
              /\ ForwardDoorbell(v, d, FALSE, queue, busy, atDevice)
         ELSE /\ flushing' = [flushing EXCEPT ![v] = [f EXCEPT !.remaining = @ - 1]]
              /\ UNCHANGED <<guest, atDevice, queue, busy>>
      /\ UNCHANGED <<mailbox, ops, pipe, packets, lines, armed, reading, submitted, completed,
                     inFlight, asyncVcpu, view, fatal, ended>>
  BY <1>a, <1>b, <1>c, <1>e, ZenonT(60) DEF FlushResponse
<1>g. /\ visible' \in [Op -> Nat]
      /\ <<v, ops[v]>> \in packets => visible'[<<v, ops[v]>>] = visible[<<v, ops[v]>>] + 1
      /\ \A w \in Vcpus : \A n \in 1..MaxOps :
            w # v \/ n # ops[v] => visible'[<<w, n>>] = visible[<<w, n>>]
  <2>1. visible \in [Op -> Nat]
    BY <1>0, Zenon DEF Types
  <2>2. visible' = IF <<v, ops[v]>> \in packets
                   THEN [visible EXCEPT ![<<v, ops[v]>>] = @ + 1] ELSE visible
    BY <1>f, Zenon
  <2>3. \A w \in Vcpus : \A n \in 1..MaxOps : <<w, n>> \in Op
    BY Zenon DEF Op
  <2> QED
    BY <1>e, <2>1, <2>2, <2>3, SMTT(30)
<1>h. Held(v) = (IF d.async THEN 1 ELSE 0)
  BY <1>0, <1>a, <1>d, Zenon DEF Held, IsFlushing
<1>i. Global'
  BY <1>0, <1>f, Zenon DEF Global, JoinMeansDone, HeldOpen
<1>1. CASE f.remaining = 1
  <2>1. ForwardDoorbell(v, d, FALSE, queue, busy, atDevice) /\ flushing' = [flushing EXCEPT ![v] = None]
    BY <1>f, <1>1, Zenon
  <2>a. /\ flushing' \in [Vcpus -> Flush \cup {None}] /\ flushing'[v] = None
        /\ \A w \in Vcpus : w # v => flushing'[w] = flushing[w]
    BY <1>0, <2>1, Zenon DEF Types
  <2>2. Types'
    BY <1>0, <1>f, <1>g, <2>1, <2>a, ForwardOthers, ZenonT(60) DEF Types
  <2>3. ASSUME NEW w \in Vcpus, w # v PROVE Good(w)'
    <3>1. guest'[w] = guest[w] /\ SameSend(w)
      BY <1>0, <2>1, <2>3, ForwardOthers, Zenon
    <3>2. SamePacket(w)
      BY <1>f, <1>g, <2>3, Zenon DEF SamePacket
    <3>3. Same(w)
      BY <1>f, <2>a, <2>3, <3>1, <3>2, ZenonT(60) DEF Same, SameClient, SameHeld, SameCount, SameView
    <3> QED
      BY <3>3, GoodKept, Zenon DEF IInv
  <2>4. Good(v)'
    <3>1. \A n \in 1..MaxOps : HeldBack(v, n) => d.async /\ n = ops[v]
      BY <1>0, <1>a, <1>b, <1>d, Zenon DEF HeldBack, IsFlushing
    <3>2. SameCount(v) /\ SameView(v) /\ armed'[v] = None /\ mailbox'[v] = None
      BY <1>0, <1>f, Zenon DEF SameCount, SameView, IsFlushing
    <3>3. InMemory(v, ops[v])'
      <4>1. CASE CutOff(v, ops[v])
        BY <1>f, <4>1, Zenon DEF InMemory, CutOff
      <4>2. CASE <<v, ops[v]>> \in packets /\ visible[<<v, ops[v]>>] + flushing[v].remaining = lines
        BY <1>1, <1>a, <1>f, <1>g, <4>2, ZenonT(60) DEF InMemory
      <4> QED
        BY <1>0, <4>1, <4>2, Zenon DEF IsFlushing
    <3>4. /\ guest[v] = "wait" /\ Fresh(v) /\ Calm(v)
          /\ d.async <=> <<v, ops[v]>> \in posted
      BY <1>0, <1>a, <1>d, Zenon DEF IsFlushing
    <3>5. \A n \in 1..MaxOps : n # ops[v] => visible'[<<v, n>>] = visible[<<v, n>>]
      BY <1>g, Zenon
    <3>6. /\ ops'[v] = ops[v] /\ reading' = reading /\ lines' = lines /\ packets' = packets
          /\ pending'[v] = pending[v] /\ fed'[v] = fed[v] /\ (v \in halted' <=> v \in halted)
      BY <1>f, Zenon
    <3> QED
      <4>1. Sendable(v, d)
        BY <1>d, <1>h, <3>1, <3>4, Zenon DEF Sendable
      <4>2. Forwards(v, d)
        BY <2>1, <2>a, <3>2, <3>3, <3>5, <3>6, ZenonT(60) DEF Forwards
      <4> QED
        BY <1>0, <4>1, <4>2, ForwardGood, Zenon
  <2> QED
    BY <1>i, <2>2, <2>3, <2>4, Zenon DEF IInv
<1>2. CASE f.remaining # 1
  <2>a. PICK g \in Flush : /\ g = [f EXCEPT !.remaining = @ - 1]
                           /\ g.op = f.op /\ g.async = f.async /\ g.remaining = f.remaining - 1
    <3>1. f.remaining - 1 \in Nat \ {0}
      BY <1>b, <1>2, SMTT(30)
    <3>2. [f EXCEPT !.remaining = @ - 1] \in Flush
      BY <3>1, Zenon DEF Flush
    <3>3. f = [op |-> f.op, async |-> f.async, remaining |-> f.remaining]
      BY Zenon DEF Flush
    <3>4. /\ [f EXCEPT !.remaining = @ - 1].op = f.op
          /\ [f EXCEPT !.remaining = @ - 1].async = f.async
          /\ [f EXCEPT !.remaining = @ - 1].remaining = f.remaining - 1
      BY <3>3, Zenon
    <3> QED
      BY <3>2, <3>4, Zenon
  <2>1. flushing' = [flushing EXCEPT ![v] = g] /\ UNCHANGED <<guest, atDevice, queue, busy>>
    BY <1>f, <1>2, <2>a, Zenon
  <2>b. g # None /\ flushing'[v] = g
    BY <1>0, <2>1, DoorbellFacts, Zenon DEF Types
  <2>2. Types'
    <3>1. flushing' \in [Vcpus -> Flush \cup {None}]
      BY <1>0, <2>1, Zenon DEF Types
    <3> QED
      BY <1>0, <1>f, <1>g, <2>1, <3>1, ZenonT(60) DEF Types
  <2>3. ASSUME NEW w \in Vcpus, w # v PROVE Good(w)'
    <3>1. flushing'[w] = flushing[w]
      BY <1>0, <2>1, <2>3, Zenon DEF Types
    <3>2. SamePacket(w)
      BY <1>f, <1>g, <2>3, Zenon DEF SamePacket
    <3>3. Same(w)
      BY <1>f, <2>1, <2>3, <3>1, <3>2, ZenonT(60) DEF Same, SameClient, SameHeld, SameSend, SameCount, SameView
    <3> QED
      BY <3>3, GoodKept, Zenon DEF IInv
  <2>4. Good(v)'
    <3>1. SameSend(v) /\ SameCount(v) /\ SameView(v)
      BY <1>f, <2>1, Zenon DEF SameSend, SameCount, SameView
    <3>2. Order(v)'
      BY <1>0, <3>1, OrderKept, ZenonT(60) DEF Good
    <3>3. Pending(v)'
      <4>1. \A n : HeldBack(v, n) => HeldBack(v, n)'
        BY <1>0, <1>a, <2>a, <2>b, ZenonT(60) DEF HeldBack, IsFlushing
      <4> QED
        BY <1>0, <3>1, <4>1, ZenonT(60) DEF Good, Pending, InQueue, Posted, SameSend, SameView
    <3>4. Counts(v)'
      <4>1. Held(v)' = Held(v)
        BY <1>0, <1>d, <1>f, <1>h, <2>a, <2>b, ZenonT(60) DEF Held, IsFlushing
      <4> QED
        BY <1>0, <3>1, <4>1, Zenon DEF Good, Counts, SameSend, SameCount
    <3>5. Data(v)'
      <4>1. \A n \in 1..MaxOps : n # ops[v] => (InMemory(v, n)' <=> InMemory(v, n))
        BY <1>f, <1>g, Zenon DEF InMemory
      <4>2. \A n \in 1..MaxOps : InQueue(v, n)' => n <= ops[v] /\ InMemory(v, n)'
        <5>1. \A n : InQueue(v, n)' <=> InQueue(v, n)
          BY <2>1, Zenon DEF InQueue
        <5>2. ~InQueue(v, ops[v])
          BY <1>0, ZenonT(60) DEF IsFlushing, Fresh
        <5> QED
          BY <1>0, <4>1, <5>1, <5>2, Zenon DEF Good, Data
      <4>3. \A e \in atDevice[v] : /\ e.op <= ops[v] /\ e.op \in 1..MaxOps /\ e.op # ops[v]
        BY <1>0, SMTT(30) DEF Good, Data, IsFlushing, Fresh, Types, Doorbell
      <4>4. \A n \in 1..MaxOps : n > ops[v] => visible'[<<v, n>>] = 0 /\ <<v, n>> \notin posted'
        <5>1. \A n \in 1..MaxOps : n > ops[v] => n # ops[v]
          BY <1>b
        <5> QED
          BY <1>0, <1>f, <1>g, <5>1, ZenonT(60) DEF Good, Data
      <4> QED
        BY <1>0, <1>f, <2>1, <4>1, <4>2, <4>3, <4>4, ZenonT(60) DEF Good, Data
    <3>6. Phase(v)'
      <4>1. Fresh(v)' /\ Calm(v)'
        BY <1>0, <1>f, <2>1, Zenon DEF IsFlushing, Fresh, Calm, Plain, InQueue
      <4>2. \/ /\ <<v, ops[v]>> \in packets'
               /\ visible'[<<v, ops[v]>>] + flushing'[v].remaining = lines
            \/ CutOff(v, ops[v])'
        <5>1. CASE CutOff(v, ops[v])
          BY <1>f, <5>1, Zenon DEF CutOff
        <5>2. CASE /\ <<v, ops[v]>> \in packets
                   /\ visible[<<v, ops[v]>>] + f.remaining = lines
          <6>1. /\ visible'[<<v, ops[v]>>] = visible[<<v, ops[v]>>] + 1
                /\ flushing'[v].remaining = f.remaining - 1 /\ packets' = packets
            BY <1>f, <1>g, <2>a, <2>b, <5>2, Zenon
          <6> QED
            BY <1>b, <1>e, <5>2, <6>1, SMTT(30)
        <5> QED
          BY <1>0, <1>a, <5>1, <5>2, Zenon DEF IsFlushing
      <4>3. ops' = ops /\ lines' = lines
        BY <1>f, Zenon
      <4> QED
        BY <1>0, <1>a, <1>f, <2>1, <2>a, <2>b, <4>1, <4>2, <4>3, ZenonT(60) DEF Phase, IsFlushing
    <3> QED
      BY <3>2, <3>3, <3>4, <3>5, <3>6, ZenonT(60) DEF Good
  <2> QED
    BY <1>i, <2>2, <2>3, <2>4, ZenonT(60) DEF IInv
<1> QED
  BY <1>1, <1>2, Zenon

-----------------------------------------------------------------------------
(* The device answers.                                                     *)

\* A plain doorbell is the only one of v at the device.
LEMMA PlainResponse ==
    ASSUME IInv, NEW v \in Vcpus, NEW d \in Doorbell, Respond(v, d), ~d.async
    PROVE  IInv'
<1> USE DEF pipe, packet, held
<1>0. Types /\ Global /\ Good(v) /\ d \in atDevice[v]
  BY Zenon DEF IInv, Respond
<1>1. IsSent(v)
  <2>1. Plain(v)
    BY <1>0, Zenon DEF Plain
  <2> QED
    BY <1>0, <2>1, Zenon DEF Good, Phase, Idle, InMailbox, IsArmed, IsFlushing, IsReading, Calm
<1>a. /\ done' = done \cup {<<v, d.op>>} /\ PostResponse(v)
      /\ atDevice' = [atDevice EXCEPT ![v] = @ \ {d}]
      /\ UNCHANGED <<queue, busy, completed, inFlight, mailbox, ops, packet, held, reading, submitted,
                     asyncVcpu, posted, tickets, joined, fatal, ended>>
  BY Zenon DEF Respond
<1>b. /\ guest' \in [Vcpus -> {"run", "wait"}] /\ guest'[v] = "run"
      /\ \A w \in Vcpus : w # v => guest'[w] = guest[w]
  BY <1>0, <1>a, Zenon DEF Types, PostResponse
<1>c. /\ atDevice' \in [Vcpus -> SUBSET Doorbell] /\ atDevice'[v] = atDevice[v] \ {d}
      /\ \A w \in Vcpus : w # v => atDevice'[w] = atDevice[w]
  BY <1>0, <1>a, Zenon DEF Types
<1>2. Types'
  BY <1>0, <1>a, <1>b, <1>c, Zenon DEF Types
<1>3. ASSUME NEW w \in Vcpus, w # v PROVE Good(w)'
  <2>1. Same(w)
    BY <1>a, <1>b, <1>c, <1>3, ZenonT(60)
    DEF Same, SameClient, SameHeld, SameSend, SameCount, SamePacket, SameView
  <2> QED
    BY <2>1, GoodKept, Zenon DEF IInv
<1>4. Good(v)'
  <2>1. \A e \in atDevice[v] : ~e.async => e = d
    <3>1. \A e \in atDevice[v] : e \in Doorbell
      BY <1>0, Zenon DEF Types
    <3>2. \A e \in atDevice[v] : ~e.async => e.op = d.op
      BY <1>0, <1>1, Zenon DEF IsSent
    <3>3. \A e \in Doorbell : e = [op |-> e.op, async |-> e.async] /\ e.async \in BOOLEAN
      BY DEF Doorbell
    <3> QED
      BY <3>1, <3>2, <3>3, Zenon
  <2>2. Phase(v)'
    BY <1>1, <1>a, <1>b, <1>c, <2>1, ZenonT(60) DEF Phase, Idle, IsSent, Calm, Plain
  <2>3. \A n : /\ InQueue(v, n)' <=> InQueue(v, n)
               /\ InMemory(v, n)' <=> InMemory(v, n)
               /\ HeldBack(v, n)' <=> HeldBack(v, n)
    BY <1>a, Zenon DEF InQueue, InMemory, HeldBack
  <2>4. \A n : Posted(v, n)' <=> Posted(v, n)
    BY <1>c, Zenon DEF Posted
  <2>5. Data(v)'
    BY <1>0, <1>a, <1>c, <2>3, Zenon DEF Good, Data
  <2>6. Pending(v)'
    BY <1>0, <1>a, <2>3, <2>4, Zenon DEF Good, Pending
  <2>7. Counts(v)'
    <3>1. (\E e \in atDevice'[v] : e.async) <=> (\E e \in atDevice[v] : e.async)
      BY <1>c, Zenon
    <3>2. Held(v)' = Held(v)
      BY <1>a, Zenon DEF Held
    <3> QED
      BY <1>0, <1>a, <1>c, <3>1, <3>2, ZenonT(60) DEF Good, Counts
  <2>8. Order(v)'
    BY <1>0, <1>a, <2>4, ZenonT(30) DEF Good, Order
  <2> QED
    BY <2>2, <2>5, <2>6, <2>7, <2>8, ZenonT(60) DEF Good
<1>5. Global'
  <2>1. ~ended
    BY Zenon DEF Respond, Alive
  <2> QED
    BY <1>0, <1>a, <2>1, Zenon DEF Global, JoinMeansDone, HeldOpen
<1> QED
  BY <1>2, <1>3, <1>4, <1>5, ZenonT(60) DEF IInv

\* Of v's submits, one is at the device; the next one in line takes its place.
LEMMA PostedResponse ==
    ASSUME IInv, NEW v \in Vcpus, NEW d \in Doorbell, Respond(v, d), d.async
    PROVE  IInv'
<1> USE DEF pipe, packet, held
<1>0. Types /\ Global /\ Good(v) /\ d \in atDevice[v]
  BY Zenon DEF IInv, Respond
<1>a. /\ done' = done \cup {<<v, d.op>>} /\ Retire(v)
      /\ UNCHANGED <<mailbox, ops, packet, held, reading, submitted, asyncVcpu, posted,
                     tickets, joined, fatal, ended>>
  BY Zenon DEF Respond
<1>b. /\ queue[v] \in Seq(1..MaxOps) /\ Len(queue[v]) \in Nat
      /\ completed[v] \in Nat /\ submitted[v] \in Nat /\ Held(v) \in Nat /\ inFlight \in Nat
      /\ d.op \in 1..MaxOps
  BY <1>0, LenProperties, DoorbellFacts, Zenon DEF Types, Held
<1>c. busy[v] /\ \A e \in atDevice[v] : e.async => e = d
  BY <1>0, Zenon DEF Good, Counts
<1>d. submitted[v] = completed[v] + Held(v) + Len(queue[v]) + 1
  BY <1>0, <1>c, Zenon DEF Good, Counts
<1>e. v = asyncVcpu /\ submitted[v] = completed[v] + inFlight /\ inFlight > 0
  <2>1. submitted[v] > completed[v]
    BY <1>b, <1>d, SMTT(30)
  <2>2. v = asyncVcpu
    BY <1>0, <1>b, <2>1, SMTT(30) DEF Global
  <2> QED
    BY <1>0, <1>b, <2>1, <2>2, SMTT(30) DEF Global
<1>f. /\ completed' = [completed EXCEPT ![v] = @ + 1] /\ completed'[v] = completed[v] + 1
      /\ inFlight' = inFlight - 1
  BY <1>0, <1>a, <1>e, Zenon DEF Retire, Types
<1>g. /\ queue' \in [Vcpus -> Seq(1..MaxOps)] /\ busy' \in [Vcpus -> BOOLEAN]
      /\ atDevice' \in [Vcpus -> SUBSET Doorbell] /\ guest' = guest
      /\ \A w \in Vcpus : w # v => SameSend(w)
      /\ \/ /\ queue[v] = <<>> /\ queue'[v] = <<>> /\ ~busy'[v]
            /\ atDevice'[v] = atDevice[v] \ {d}
         \/ /\ queue[v] # <<>> /\ queue'[v] = Tail(queue[v]) /\ busy'[v]
            /\ \E e \in Doorbell : /\ e.op = Head(queue[v]) /\ e.async
                                   /\ atDevice'[v] = (atDevice[v] \ {d}) \cup {e}
  <2>1. CASE queue[v] = <<>>
    <3>1. /\ atDevice' = [atDevice EXCEPT ![v] = @ \ {d}] /\ busy' = [busy EXCEPT ![v] = FALSE]
          /\ queue' = queue /\ guest' = guest
      BY <2>1, Zenon DEF Respond
    <3>2. atDevice' \in [Vcpus -> SUBSET Doorbell] /\ atDevice'[v] = atDevice[v] \ {d}
      BY <1>0, <3>1, Zenon DEF Types
    <3> QED
      BY <1>0, <2>1, <3>1, <3>2, Zenon DEF Types, SameSend
  <2>2. CASE queue[v] # <<>>
    <3>1. Head(queue[v]) \in 1..MaxOps /\ Tail(queue[v]) \in Seq(1..MaxOps)
      BY <1>b, <2>2, HeadTailProperties, Zenon
    <3>2. PICK e \in Doorbell : e = [op |-> Head(queue[v]), async |-> TRUE]
      BY <3>1, DoorbellFacts, Zenon
    <3>3. e.op = Head(queue[v]) /\ e.async
      BY <3>2, Zenon
    <3>a. ForwardDoorbell(v, e, TRUE, [queue EXCEPT ![v] = Tail(queue[v])],
                          [busy EXCEPT ![v] = FALSE], [atDevice EXCEPT ![v] = @ \ {d}])
      BY <2>2, <3>2, Zenon DEF Respond, Dequeue
    <3>4. /\ queue' = [queue EXCEPT ![v] = Tail(queue[v])] /\ guest' = guest
          /\ busy' = [[busy EXCEPT ![v] = FALSE] EXCEPT ![v] = @ \/ e.async]
          /\ atDevice' = [[atDevice EXCEPT ![v] = @ \ {d}] EXCEPT ![v] = @ \cup {e}]
      <4>1. ~[busy EXCEPT ![v] = FALSE][v]
        BY <1>0, Zenon DEF Types
      <4> QED
        BY <3>a, <4>1, Zenon DEF ForwardDoorbell
    <3>5. /\ atDevice' \in [Vcpus -> SUBSET Doorbell]
          /\ atDevice'[v] = (atDevice[v] \ {d}) \cup {e}
          /\ \A w \in Vcpus : w # v => atDevice'[w] = atDevice[w]
      BY <1>0, <3>4, Zenon DEF Types
    <3>6. /\ busy' \in [Vcpus -> BOOLEAN] /\ busy'[v]
          /\ \A w \in Vcpus : w # v => busy'[w] = busy[w]
      BY <1>0, <3>3, <3>4, Zenon DEF Types
    <3>7. /\ queue' \in [Vcpus -> Seq(1..MaxOps)] /\ queue'[v] = Tail(queue[v])
          /\ \A w \in Vcpus : w # v => queue'[w] = queue[w]
      BY <1>0, <3>1, <3>4, Zenon DEF Types
    <3> QED
      BY <2>2, <3>3, <3>4, <3>5, <3>6, <3>7, ZenonT(60) DEF SameSend
  <2> QED
    BY <2>1, <2>2, Zenon
<1>2. Types'
  <2>1. completed' \in [Vcpus -> Nat]
    BY <1>0, <1>f, SMTT(30) DEF Types
  <2>2. inFlight' \in Nat
    BY <1>b, <1>e, <1>f, SMTT(30)
  <2> QED
    BY <1>0, <1>a, <1>g, <2>1, <2>2, ZenonT(60) DEF Types
<1>3. ASSUME NEW w \in Vcpus, w # v PROVE Good(w)'
  <2>1. completed'[w] = completed[w]
    BY <1>0, <1>f, <1>3, Zenon DEF Types
  <2>2. Same(w)
    BY <1>a, <1>g, <1>3, <2>1, ZenonT(60) DEF Same, SameClient, SameHeld, SameCount, SamePacket, SameView
  <2> QED
    BY <2>2, GoodKept, Zenon DEF IInv
<1>4. Global'
  <2>1. submitted'[v] = completed'[v] + inFlight' /\ inFlight' <= Depth
    BY <1>0, <1>a, <1>b, <1>e, <1>f, DepthAssumption, SMTT(30) DEF Global
  <2>2. \A w \in Vcpus : w # v => submitted'[w] = 0
    BY <1>0, <1>a, <1>e, Zenon DEF Global
  <2>3. asyncVcpu' = v /\ v # None
    BY <1>a, <1>e, NoneAssumption, Zenon
  <2>4. JoinMeansDone' /\ HeldOpen'
    <3>1. ~ended
      BY Zenon DEF Respond, Alive
    <3> QED
      BY <1>0, <1>a, <3>1, Zenon DEF Global, JoinMeansDone, HeldOpen
  <2> QED
    BY <1>0, <1>a, <2>1, <2>2, <2>3, <2>4, ZenonT(60) DEF Global
<1>5. Good(v)'
  <2>a. \A n : (HeldBack(v, n)' <=> HeldBack(v, n)) /\ (InMemory(v, n)' <=> InMemory(v, n))
    BY <1>a, Zenon DEF HeldBack, InMemory
  <2>b. Held(v)' = Held(v)
    BY <1>a, Zenon DEF Held
  <2>c. /\ \A e \in atDevice'[v] : ~e.async => e \in atDevice[v]
        /\ \A e \in atDevice[v] : ~e.async => e \in atDevice'[v]
    BY <1>g, Zenon
  <2>1. ASSUME NEW n \in 1..MaxOps, Posted(v, n)'
        PROVE  queue[v] # <<>> /\ n = queue[v][1] /\ InQueue(v, n)
    <3>1. queue[v] # <<>> /\ n = Head(queue[v])
      BY <1>c, <1>g, <2>1, Zenon DEF Posted
    <3>2. Len(queue[v]) >= 1 /\ Head(queue[v]) = queue[v][1]
      BY <1>b, <3>1, EmptySeq, SMTT(30)
    <3> QED
      BY <1>b, <3>1, <3>2, SMTT(30) DEF InQueue
  <2>2. ASSUME NEW i \in 1..Len(queue'[v])
        PROVE  i + 1 \in 1..Len(queue[v]) /\ queue'[v][i] = queue[v][i + 1]
    <3>1. queue[v] # <<>> /\ queue'[v] = Tail(queue[v])
      BY <1>g, <2>2, EmptySeq, SMTT(30)
    <3>2. /\ Len(Tail(queue[v])) = Len(queue[v]) - 1
          /\ \A j \in 1..Len(Tail(queue[v])) : Tail(queue[v])[j] = queue[v][j + 1]
      BY <1>b, <3>1, HeadTailProperties, Zenon
    <3> QED
      BY <1>b, <2>2, <3>1, <3>2, SMTT(30)
  <2>3. \A n \in 1..MaxOps : InQueue(v, n)' => InQueue(v, n)
    BY <2>2, Zenon DEF InQueue
  <2>4. \A n \in 1..MaxOps : InQueue(v, n) => InQueue(v, n)' \/ Posted(v, n)'
    <3> SUFFICES ASSUME NEW n \in 1..MaxOps, NEW i \in 1..Len(queue[v]), queue[v][i] = n
                 PROVE  InQueue(v, n)' \/ Posted(v, n)'
      BY Zenon DEF InQueue
    <3>1. queue[v] # <<>>
      BY EmptySeq
    <3>2. /\ queue'[v] = Tail(queue[v]) /\ Len(Tail(queue[v])) = Len(queue[v]) - 1
          /\ \A j \in 1..Len(Tail(queue[v])) : Tail(queue[v])[j] = queue[v][j + 1]
      BY <1>b, <1>g, <3>1, HeadTailProperties, ZenonT(60)
    <3>3. CASE i = 1
      <4>1. Head(queue[v]) = n
        BY <3>3
      <4> QED
        BY <1>g, <3>1, <4>1, Zenon DEF Posted
    <3>4. CASE i # 1
      <4>1. i - 1 \in 1..Len(Tail(queue[v])) /\ Tail(queue[v])[i - 1] = queue[v][(i - 1) + 1]
        BY <1>b, <3>2, <3>4, SMTT(30)
      <4>2. (i - 1) + 1 = i
        OBVIOUS
      <4> QED
        BY <3>2, <4>1, <4>2, Zenon DEF InQueue
    <3> QED
      BY <3>3, <3>4, Zenon
  <2>5. \A e \in atDevice'[v] : e \in atDevice[v] \/ (e.async /\ e.op \in 1..MaxOps /\ InQueue(v, e.op))
    <3>1. ASSUME NEW e \in atDevice'[v], e \notin atDevice[v]
          PROVE  e.async /\ e.op \in 1..MaxOps /\ InQueue(v, e.op)
      <4>1. e \in Doorbell /\ e.async
        BY <1>g, <3>1, Zenon
      <4>2. e.op \in 1..MaxOps
        BY <4>1, DoorbellFacts, Zenon
      <4>3. Posted(v, e.op)'
        BY <3>1, <4>1, Zenon DEF Posted
      <4> QED
        BY <2>1, <4>1, <4>2, <4>3, Zenon
    <3> QED
      BY <3>1, Zenon
  <2>6. Data(v)'
    BY <1>0, <1>a, <2>a, <2>3, <2>5, ZenonT(60) DEF Good, Data
  <2>7. Pending(v)'
    <3>1. \A n \in 1..MaxOps : Posted(v, n) => n = d.op
      BY <1>c, Zenon DEF Posted
    <3> QED
      BY <1>0, <1>a, <2>a, <2>4, <3>1, ZenonT(60) DEF Good, Pending
  <2>8. Counts(v)'
    <3>1. \A e \in atDevice[v] \ {d} : ~e.async
      BY <1>c, Zenon
    <3>2. (busy'[v] <=> \E e \in atDevice'[v] : e.async)
          /\ \A e, g \in atDevice'[v] : e.async /\ g.async => e = g
      BY <1>g, <3>1, Zenon
    <3>3. submitted'[v] = completed'[v] + Held(v)' + Len(queue'[v]) + (IF busy'[v] THEN 1 ELSE 0)
      <4>1. CASE queue[v] = <<>>
        <5>1. Len(queue[v]) = 0 /\ Len(queue'[v]) = 0 /\ ~busy'[v]
          BY <1>g, <4>1, EmptySeq, Zenon
        <5>2. \A c, h \in Nat : c + h + 0 + 1 = c + 1 + h + 0 + 0
          OBVIOUS
        <5>3. submitted'[v] = completed[v] + Held(v) + 0 + 1
          BY <1>a, <1>d, <5>1, Zenon
        <5>4. submitted'[v] = completed[v] + 1 + Held(v) + 0 + 0
          BY <1>b, <5>2, <5>3, Zenon
        <5> QED
          BY <1>f, <2>b, <5>1, <5>4, Zenon
      <4>2. CASE queue[v] # <<>>
        <5>1. Len(queue'[v]) = Len(queue[v]) - 1 /\ busy'[v]
          BY <1>b, <1>g, <4>2, HeadTailProperties, ZenonT(60)
        <5>2. \A c, h, l \in Nat : c + h + l + 1 = c + 1 + h + (l - 1) + 1
          OBVIOUS
        <5>3. submitted'[v] = completed[v] + Held(v) + Len(queue[v]) + 1
          BY <1>a, <1>d, Zenon
        <5>4. submitted'[v] = completed[v] + 1 + Held(v) + (Len(queue[v]) - 1) + 1
          BY <1>b, <5>2, <5>3, ZenonT(30)
        <5> QED
          BY <1>f, <2>b, <5>1, <5>4, ZenonT(60)
      <4> QED
        BY <4>1, <4>2, Zenon
    <3>4. queue'[v] # <<>> => busy'[v]
      BY <1>g, Zenon
    <3> QED
      BY <3>2, <3>3, <3>4, Zenon DEF Counts
  <2>9. Order(v)'
    <3> SUFFICES ASSUME NEW n \in 1..MaxOps, NEW t \in Nat, <<<<v, n>>, t>> \in tickets
                 PROVE  /\ <<v, n>> \in posted
                        /\ Posted(v, n)' => t > completed'[v]
                        /\ \A i \in 1..Len(queue'[v]) : queue'[v][i] = n => t > completed'[v] + i
      BY <1>a, Zenon DEF Order
    <3>1. /\ <<v, n>> \in posted
          /\ \A i \in 1..Len(queue[v]) : queue[v][i] = n => t > completed[v] + i
      BY <1>0, Zenon DEF Good, Order
    <3>2. Posted(v, n)' => t > completed[v] + 1
      <4> HAVE Posted(v, n)'
      <4>1. queue[v] # <<>> /\ n = queue[v][1]
        BY <2>1, Zenon
      <4>2. 1 \in 1..Len(queue[v])
        BY <1>b, <4>1, EmptySeq, SMTT(30)
      <4> QED
        BY <3>1, <4>1, <4>2, Zenon
    <3>3. ASSUME NEW i \in 1..Len(queue'[v]), queue'[v][i] = n
          PROVE  t > completed[v] + 1 + i
      <4>1. t > completed[v] + (i + 1)
        BY <2>2, <3>1, <3>3, Zenon
      <4> QED
        BY <1>b, <4>1, SMTT(30)
    <3> QED
      BY <1>f, <3>1, <3>2, <3>3, Zenon
  <2>10. Phase(v)'
    <3>1. (Plain(v)' <=> Plain(v)) /\ (Calm(v)' <=> Calm(v))
      BY <1>a, <2>c, Zenon DEF Plain, Calm
    <3>2. Fresh(v) => Fresh(v)'
      <4>1. ops[v] >= 1 => ops[v] \in 1..MaxOps
        BY <1>0, SMTT(30) DEF Types
      <4> QED
        BY <1>a, <2>3, <2>5, <4>1, ZenonT(60) DEF Fresh
    <3>3. (\A e \in atDevice[v] : ~e.async => e.op = ops[v])
            => \A e \in atDevice'[v] : ~e.async => e.op = ops[v]
      BY <2>c, Zenon
    <3>4. CutOff(v, ops[v]) => CutOff(v, ops[v])'
      BY <1>a, Zenon DEF CutOff
    <3> QED
      BY <1>0, <1>a, <1>g, <3>1, <3>2, <3>3, <3>4, ZenonT(60)
      DEF Good, Phase, Idle, InMailbox, IsArmed, IsFlushing, IsSent, IsReading
  <2> QED
    BY <2>6, <2>7, <2>8, <2>9, <2>10, ZenonT(60) DEF Good
<1> QED
  BY <1>2, <1>3, <1>4, <1>5, ZenonT(60) DEF IInv

-----------------------------------------------------------------------------
LEMMA NextIInv == IInv /\ [Next]_vars => IInv'
<1> SUFFICES ASSUME IInv, [Next]_vars PROVE IInv'
  OBVIOUS
<1>1. CASE UNCHANGED vars
  <2> USE <1>1 DEF vars, client, pipe, packet, held, engine, view
  <2>1. ASSUME NEW w \in Vcpus PROVE Good(w)'
    <3>1. Same(w)
      BY Zenon DEF Same, SameClient, SameHeld, SameSend, SameCount, SamePacket, SameView
    <3> QED
      BY <3>1, GoodKept, Zenon DEF IInv
  <2>2. Types' /\ Global'
    BY Zenon DEF IInv, Types, Global, JoinMeansDone, HeldOpen
  <2> QED
    BY <2>1, <2>2, Zenon DEF IInv
<1>2. ASSUME NEW v \in Vcpus, Core(v) PROVE IInv'
  BY <1>2, FeedStep, SettleStep, HaltStep, Zenon DEF Core
<1>3. ASSUME NEW v \in Vcpus, Port(v) PROVE IInv'
  <2>1. ASSUME RefuseFlush(v) \/ FlushFails(v) PROVE IInv'
    <3>1. Alive /\ (Abort("range") \/ Abort("response"))
      BY <2>1, Zenon DEF RefuseFlush, FlushFails
    <3>2. "range" # "nested" /\ "response" # "nested"
      OBVIOUS
    <3> QED
      BY <3>1, <3>2, AbortStep, Zenon
  <2> QED
    BY <1>3, <2>1, HandleReadStep, HandleDoorbellStep, RefuseStep, ReadStep, IgnoreStep, SubmitStep,
       ProcessStep, FlushStep, RespondReadStep, ZenonT(60) DEF Port
<1>4. ASSUME NEW v \in Vcpus, NEW d \in Doorbell, Respond(v, d) PROVE IInv'
  BY <1>4, PlainResponse, PostedResponse, Zenon
<1> QED
  BY <1>1, <1>2, <1>3, <1>4, IssueStep, EndSimStep, ZenonT(60) DEF Next

\* What Good says of each vCPU and Global of the port holds in every state.
THEOREM Invariance == Spec => []IInv
BY InitIInv, NextIInv, PTL DEF Spec

-----------------------------------------------------------------------------
\* The device finds every packet in memory: a doorbell is sent or queued only
\* after the drain and all its flushes (process, issueDoorbellFlushes).  The one
\* exception is a packet whose core halted before it had issued the stores
\* (isDrained is true of a halted core).
THEOREM PacketsReachMemory == Spec => []PacketInMemory
<1>1. IInv => PacketInMemory
  <2> SUFFICES ASSUME IInv, NEW v \in HasMem, NEW n \in 1..MaxOps,
                      lines > 0 \/ <<v, n>> \in posted,
                      \/ \E d \in atDevice[v] : d.op = n
                      \/ \E i \in DOMAIN queue[v] : queue[v][i] = n
               PROVE  InMemory(v, n)
    BY Zenon DEF PacketInMemory, InMemory, Whole, CutOff
  <2>0. v \in Vcpus /\ Types /\ Good(v)
    BY HasMemAssumption, Zenon DEF IInv
  <2>1. CASE \E i \in DOMAIN queue[v] : queue[v][i] = n
    <3>1. DOMAIN queue[v] = 1..Len(queue[v])
      BY <2>0, LenProperties, Zenon DEF Types
    <3> QED
      BY <2>0, <2>1, <3>1, Zenon DEF Good, Data, InQueue
  <2>2. CASE \E d \in atDevice[v] : d.op = n
    <3>1. PICK d \in atDevice[v] : d.op = n
      BY <2>2, Zenon
    <3>2. CASE d.async \/ lines > 0
      BY <2>0, <3>1, <3>2, Zenon DEF Good, Data
    <3>3. CASE ~d.async /\ ~(lines > 0)
      <4>1. IsSent(v)
        BY <2>0, <3>3, Zenon DEF Good, Phase, Idle, InMailbox, IsArmed, IsFlushing, IsReading, Calm, Plain
      <4> QED
        BY <3>1, <3>3, <4>1, Zenon DEF IsSent
    <3> QED
      BY <3>2, <3>3, Zenon
  <2> QED
    BY <2>1, <2>2, Zenon
<1> QED
  BY <1>1, Invariance, PTL

\* STATUS, TICKET and COMPLETED agree with the queue, async_busy_ and pending_,
\* and what is in flight never exceeds async_completion_depth.
THEOREM CountersAgree == Spec => []Accounting
<1>1. IInv => Accounting
  <2> SUFFICES ASSUME IInv, NEW v \in Vcpus
               PROVE  /\ submitted[v] - completed[v]
                           = Held(v) + Len(queue[v]) + (IF busy[v] THEN 1 ELSE 0)
                      /\ v = asyncVcpu => inFlight = submitted[v] - completed[v]
                      /\ v # asyncVcpu => submitted[v] = 0
                      /\ queue[v] # <<>> => busy[v]
                      /\ busy[v] <=> \E d \in atDevice[v] : d.async
    BY Zenon DEF IInv, Global, Accounting
  <2>0. Types /\ Global /\ Good(v)
    BY Zenon DEF IInv
  <2>1. /\ completed[v] \in Nat /\ Held(v) \in Nat /\ Len(queue[v]) \in Nat /\ inFlight \in Nat
        /\ (IF busy[v] THEN 1 ELSE 0) \in Nat
    BY <2>0, LenProperties, Zenon DEF Types, Held
  <2>2. submitted[v] = completed[v] + Held(v) + Len(queue[v]) + (IF busy[v] THEN 1 ELSE 0)
    BY <2>0, Zenon DEF Good, Counts
  <2>3. \A c, h, l, b \in Nat : c + h + l + b - c = h + l + b
    BY SMTT(30)
  <2>4. submitted[v] - completed[v] = Held(v) + Len(queue[v]) + (IF busy[v] THEN 1 ELSE 0)
    BY <2>1, <2>2, <2>3, SMTT(30)
  <2>5. v = asyncVcpu => inFlight = submitted[v] - completed[v]
    BY <2>0, <2>1 DEF Global
  <2> QED
    BY <2>0, <2>4, <2>5, Zenon DEF Good, Counts, Global
<1> QED
  BY <1>1, Invariance, PTL

\* A blocked vCPU waits for exactly one thing and any other is owed nothing, so
\* each command is answered once; the "nested doorbell" aborts never happen.
THEOREM OneAnswerDue == Spec => []Awaited
<1>1. IInv => Awaited
  <2> SUFFICES ASSUME IInv, NEW v \in Vcpus
               PROVE  Cardinality(Places(v)) = IF guest[v] = "wait" THEN 1 ELSE 0
    BY Zenon DEF IInv, Global, Awaited
  <2>0. Phase(v)
    BY Zenon DEF IInv, Good
  <2>1. /\ "mailbox" \in Places(v) <=> mailbox[v] # None
        /\ "armed" \in Places(v) <=> armed[v] # None
        /\ "flushing" \in Places(v) <=> flushing[v] # None
        /\ "device" \in Places(v) <=> Plain(v)
        /\ "reading" \in Places(v) <=> v \in reading
        /\ \A p \in Places(v) : p \in {"mailbox", "armed", "flushing", "device", "reading"}
    BY Zenon DEF Places, Plain
  <2>2. CASE guest[v] # "wait"
    <3>1. Places(v) = {}
      BY <2>0, <2>1, <2>2, Running, Zenon DEF Idle, Calm
    <3> QED
      BY <2>2, <3>1, FS_EmptySet, Zenon
  <2>3. CASE guest[v] = "wait"
    <3>1. \E p : Places(v) = {p}
      <4>1. CASE InMailbox(v)
        <5>1. Places(v) = {"mailbox"}
          BY <2>1, <4>1, Zenon DEF InMailbox, Calm
        <5> QED
          BY <5>1, Zenon
      <4>2. CASE IsArmed(v)
        <5>1. Places(v) = {"armed"}
          BY <2>1, <4>2, Zenon DEF IsArmed, Calm
        <5> QED
          BY <5>1, Zenon
      <4>3. CASE IsFlushing(v)
        <5>1. Places(v) = {"flushing"}
          BY <2>1, <4>3, Zenon DEF IsFlushing, Calm
        <5> QED
          BY <5>1, Zenon
      <4>4. CASE IsSent(v)
        <5>1. Places(v) = {"device"}
          BY <2>1, <4>4, Zenon DEF IsSent
        <5> QED
          BY <5>1, Zenon
      <4>5. CASE IsReading(v)
        <5>1. Places(v) = {"reading"}
          BY <2>1, <4>5, ZenonT(60) DEF IsReading
        <5> QED
          BY <5>1, Zenon
      <4> QED
        BY <2>0, <2>3, <4>1, <4>2, <4>3, <4>4, <4>5, ZenonT(60) DEF Phase, Idle
    <3> QED
      BY <2>3, <3>1, FS_Singleton, Zenon
  <2> QED
    BY <2>2, <2>3, Zenon
<1> QED
  BY <1>1, Invariance, PTL

\* COMPLETED reaches a ticket only when the operation is done.
THEOREM TicketsJoin == Spec => []JoinMeansDone
<1>1. IInv => JoinMeansDone
  BY Zenon DEF IInv, Global
<1> QED
  BY <1>1, Invariance, PTL

\* The simulation does not end before every submit is done.
THEOREM SubmitsHoldTheEnd == Spec => []HeldOpen
<1>1. IInv => HeldOpen
  BY Zenon DEF IInv, Global
<1> QED
  BY <1>1, Invariance, PTL


-----------------------------------------------------------------------------
(* Division.                                                               *)

\* Quotient and remainder, and the equation that determines them.
Divided(n, d, q, r) == n = d * q + r

\* They exist ...
LEMMA DivMod ==
    ASSUME NEW n \in Int, NEW d \in Nat \ {0}
    PROVE  \E q \in Int, r \in 0..d - 1 : n \div d = q /\ n % d = r /\ Divided(n, d, q, r)
<1>1. n \div d \in Int /\ n % d \in 0..d - 1 /\ Divided(n, d, n \div d, n % d)
  BY SMT DEF Divided
<1> QED
  BY <1>1, Zenon

\* ... and are unique.
LEMMA DivUnique ==
    ASSUME NEW n \in Int, NEW d \in Nat \ {0}, NEW q \in Int, NEW r \in 0..d - 1, Divided(n, d, q, r)
    PROVE  n \div d = q /\ n % d = r
BY SMTT(30) DEF Divided

\* The quotient of a natural number is one.
LEMMA DivNat ==
    ASSUME NEW n \in Nat, NEW d \in Nat \ {0}
    PROVE  n \div d \in Nat /\ d * (n \div d) <= n
BY SMTT(30)

\* Multiples of d are d apart.
LEMMA Apart ==
    ASSUME NEW a \in Int, NEW b \in Int, NEW d \in Nat \ {0}
    PROVE  /\ a <= b => d * a <= d * b
           /\ a < b => d * a + d <= d * b
           /\ d * a < d * b => a < b
           /\ d * (b - a) = d * b - d * a /\ d * (a + 1) = d * a + d
BY SMT

LEMMA NoWrap ==
    ASSUME NEW n \in Nat, n < Top
    PROVE  Wrap(n) = n
BY TopAssumption DEF Wrap


-----------------------------------------------------------------------------
(* The lines of a packet: AccessSplit, computeBalarFlushRange.             *)

\* The packet ends at a machine word, and its first and its last byte are in
\* the lines f and l, counted from zero.
LinesOfPacket(addr, size, line, f, l) ==
    /\ addr + size < Top
    /\ f = addr \div line
    /\ l = (addr + size - 1) \div line

\* A packet within the address space has such lines.
LEMMA PacketHasLines ==
    ASSUME NEW addr \in Nat, NEW size \in Nat \ {0}, NEW line \in Nat \ {0}, addr + size < Top
    PROVE  \E f \in Nat, l \in Nat : LinesOfPacket(addr, size, line, f, l)
<1>1. PICK e \in Nat : e = addr + size - 1
  OBVIOUS
<1>2. addr \div line \in Nat /\ e \div line \in Nat
  BY DivNat, Zenon
<1> QED
  BY <1>1, <1>2, Zenon DEF LinesOfPacket

\* The packet lies in the lines from f to l, and LineCount is their number.
LEMMA FlushLines ==
    ASSUME NEW addr \in Nat, NEW size \in Nat \ {0}, NEW line \in Nat \ {0},
           NEW f \in Nat, NEW l \in Nat, LinesOfPacket(addr, size, line, f, l)
    PROVE  /\ f <= l
           /\ FirstLine(addr, line) = line * f
           /\ line * f <= addr /\ addr < line * f + line
           /\ line * l <= addr + size - 1 /\ addr + size - 1 < line * l + line
           /\ LineCount(addr, size, line) = l - f + 1
<1>0. /\ addr \in Nat /\ size \in Nat /\ addr + size \in Nat /\ addr + size - 1 \in Nat /\ Top \in Nat
  BY TopAssumption
<1>1. addr + size < Top /\ f = addr \div line /\ l = (addr + size - 1) \div line
  BY Zenon DEF LinesOfPacket
<1>a. PICK F \in Nat, L \in Nat : F = line * f /\ L = line * l
  OBVIOUS
<1>b. F <= addr /\ addr < F + line
  <2>1. PICK q \in Int, m \in 0..line - 1 : f = q /\ Divided(addr, line, q, m)
    <3>1. addr \in Int
      OBVIOUS
    <3> QED
      BY <1>1, <3>1, DivMod, Zenon
  <2> QED
    BY <1>a, <2>1, SMTT(30) DEF Divided
<1>c. L <= addr + size - 1 /\ addr + size - 1 < L + line
  <2>1. PICK e \in Nat : e = addr + size - 1
    BY <1>0, Zenon
  <2>2. PICK q \in Int, m \in 0..line - 1 : l = q /\ Divided(e, line, q, m)
    <3>1. e \in Int
      OBVIOUS
    <3>2. l = e \div line
      BY <1>1, <2>1, Zenon
    <3> QED
      BY <3>1, <3>2, DivMod, Zenon
  <2> QED
    BY <1>a, <2>1, <2>2, SMTT(30) DEF Divided
<1>2. f <= l
  <2>1. line * f < line * (l + 1)
    BY <1>0, <1>a, <1>b, <1>c, Apart, SMTT(30)
  <2> QED
    BY <2>1, Apart, SMTT(30)
<1>3. FirstLine(addr, line) = F
  BY <1>1, <1>a, SMTT(30) DEF FirstLine
<1>4. PICK r \in 0..line - 1 : addr + size - 1 = L + r
  <2>1. (addr + size - 1) - L \in 0..line - 1
    BY <1>0, <1>c, SMTT(30)
  <2> QED
    BY <1>0, <2>1, SMTT(30)
<1>5. PICK span \in Nat : span = addr + size - F /\ span < Top
  BY <1>0, <1>1, <1>b, SMTT(30)
<1>6. PICK g \in Nat : g = l - f
  <2>1. l - f \in Nat
    BY <1>2
  <2> QED
    BY <2>1, Zenon
<1>7. span = line * g + r + 1
  <2>1. line * (l - f) = L - F
    BY <1>a, Apart, SMTT(30)
  <2> QED
    BY <1>0, <1>4, <1>5, <1>6, <2>1, SMTT(30)
<1>d. LineCount(addr, size, line) = (span \div line) + (IF span % line # 0 THEN 1 ELSE 0)
  <2>1. Wrap(Wrap(addr + size) - FirstLine(addr, line)) = span
    BY <1>0, <1>1, <1>3, <1>5, NoWrap, SMTT(30)
  <2>2. size # 0
    OBVIOUS
  <2> QED
    BY <2>1, <2>2, Zenon DEF LineCount
<1>8. LineCount(addr, size, line) = g + 1
  <2>1. CASE r + 1 = line
    <3>1. Divided(span, line, g + 1, 0)
      BY <1>7, <2>1, Apart, SMTT(30) DEF Divided
    <3>2. span \in Int /\ g + 1 \in Int /\ 0 \in 0..line - 1
      OBVIOUS
    <3>3. span \div line = g + 1 /\ span % line = 0
      BY <3>1, <3>2, DivUnique, Zenon
    <3> QED
      BY <1>d, <3>3, SMTT(30)
  <2>2. CASE r + 1 # line
    <3>1. PICK s \in 0..line - 1 : s = r + 1 /\ s # 0
      BY <2>2
    <3>2. Divided(span, line, g, s)
      BY <1>7, <3>1, SMTT(30) DEF Divided
    <3>3. span \in Int /\ g \in Int
      OBVIOUS
    <3>4. span \div line = g /\ span % line = s
      BY <3>2, <3>3, DivUnique, Zenon
    <3> QED
      BY <1>d, <3>1, <3>4, Zenon
  <2> QED
    BY <2>1, <2>2, Zenon
<1> QED
  BY <1>2, <1>3, <1>a, <1>b, <1>c, <1>6, <1>8, ZenonT(60)

\* Whether the access fits in the address space, in the integers.
Fits(a) ==
    IF a.kind = "flush"
    THEN /\ a.line > 0
         /\ a.addr + a.size < Top
         /\ a.size > 0 => ((a.addr + a.size - 1) \div a.line + 1) * a.line < Top
    ELSE a.addr + IssueSize(a) <= Top

\* computeBalarFlushRange refuses exactly what does not fit.
LEMMA FlushRefused ==
    ASSUME NEW addr \in Nat, NEW size \in Nat, NEW line \in Nat, addr < Top
    PROVE  Refuses(addr, size, line) <=>
               ~(/\ line > 0 /\ addr + size < Top
                 /\ size > 0 => ((addr + size - 1) \div line + 1) * line < Top)
<1>0. Top \in Nat /\ MaxWord = Top - 1
  BY TopAssumption, Zenon DEF MaxWord
<1>1. CASE line = 0 \/ addr + size >= Top
  BY <1>0, <1>1, SMTT(30) DEF Refuses
<1>2. CASE line > 0 /\ addr + size < Top /\ size = 0
  <2>1. LineCount(addr, size, line) - 1 = -1
    BY <1>2, SMTT(30) DEF LineCount
  <2> QED
    BY <1>0, <1>2, <2>1, SMTT(30) DEF Refuses
<1>3. CASE line > 0 /\ addr + size < Top /\ size > 0
  <2>1. size \in Nat \ {0} /\ line \in Nat \ {0}
    BY <1>3
  <2>2. PICK f \in Nat, l \in Nat : LinesOfPacket(addr, size, line, f, l)
    BY <1>3, <2>1, PacketHasLines, Zenon
  <2>a. /\ f <= l /\ FirstLine(addr, line) = line * f
        /\ line * f <= addr /\ line * l <= addr + size - 1
        /\ LineCount(addr, size, line) = l - f + 1
    BY <2>1, <2>2, FlushLines, SMTT(30)
  <2>3. PICK F \in Nat, L \in Nat, g \in Nat : F = line * f /\ L = line * l /\ g = l - f
    BY <2>a
  <2>4. g * line = L - F
    BY <2>3, Apart, SMTT(30)
  <2>5. Wrap(F + g * line) = L
    <3>1. F + g * line = L
      BY <2>3, <2>4
    <3>2. L \in Nat /\ L < Top
      BY <1>0, <1>3, <2>a, <2>3
    <3> QED
      BY <3>1, <3>2, NoWrap, Zenon
  <2>6. ~(g > (MaxWord - F) \div line)
    <3>1. PICK m \in Nat : m = MaxWord - F
      BY <1>0, <1>3, <2>a, <2>3, SMTT(30)
    <3>2. PICK q \in Nat : q = m \div line
      BY <1>3, DivNat, SMTT(30)
    <3>3. m < line * (q + 1)
      <4>1. m \in Int /\ line \in Nat \ {0}
        BY <1>3
      <4>2. PICK r \in 0..line - 1 : Divided(m, line, q, r)
        BY <3>2, <4>1, DivMod, Zenon
      <4> QED
        BY <4>1, <4>2, Apart, SMTT(30) DEF Divided
    <3>4. line * g <= m
      BY <1>0, <1>3, <2>a, <2>3, <2>4, <3>1, SMTT(30)
    <3>5. line * g < line * (q + 1)
      BY <3>3, <3>4, SMTT(30)
    <3>6. g < q + 1
      BY <1>3, <3>5, Apart, SMTT(30)
    <3> QED
      BY <3>1, <3>2, <3>6, SMTT(30)
  <2>7. (((addr + size - 1) \div line) + 1) * line = L + line
    BY <2>2, <2>3, Apart, SMTT(30) DEF LinesOfPacket
  <2>8. Refuses(addr, size, line) <=> line > MaxWord - L
    BY <1>0, <1>3, <2>a, <2>3, <2>5, <2>6, SMTT(30) DEF Refuses
  <2> QED
    BY <1>0, <1>3, <2>7, <2>8, SMTT(30)
<1> QED
  BY <1>0, <1>1, <1>2, <1>3, SMTT(30)

-----------------------------------------------------------------------------
(* The chunks of an access: AccessSplit, quetz_memory_span.h.              *)

IsChunk(addr, rest, line, chunk) == chunk = MemoryChunkSize(addr, rest, line, rest)

\* A chunk is not empty, stays in its line and within what remains, and ends
\* at the end of the line unless it is the last one.
InLine(addr, rest, line, chunk) ==
    /\ chunk \in 1..line /\ chunk <= rest
    /\ (addr % line) + chunk <= line
    /\ addr \div line = (addr + chunk - 1) \div line
    /\ chunk # rest => (addr + chunk) % line = 0

LEMMA ChunkInLine ==
    ASSUME NEW addr \in Nat, NEW rest \in Nat \ {0}, NEW line \in Nat \ {0},
           NEW chunk, IsChunk(addr, rest, line, chunk)
    PROVE  InLine(addr, rest, line, chunk)
<1>0. addr \in Int
  OBVIOUS
<1>1. PICK q \in Int, m \in 0..line - 1 : addr \div line = q /\ addr % line = m /\ Divided(addr, line, q, m)
  BY <1>0, DivMod, Zenon
<1>2. chunk = IF rest < line - m THEN rest ELSE line - m
  BY <1>1 DEF IsChunk, MemoryChunkSize, Least
<1>3. chunk \in Nat /\ chunk \in 1..line /\ chunk <= rest /\ m + chunk <= line /\ (chunk # rest => chunk = line - m)
  BY <1>2
<1>4. PICK e \in Int, s \in 0..line - 1 : e = addr + chunk - 1 /\ s = m + chunk - 1
  BY <1>3
<1>5. (addr + chunk - 1) \div line = q
  <2>1. Divided(e, line, q, s)
    <3>1. Divided(addr, line, q, m)
      BY <1>1, Zenon
    <3> QED
      BY <1>3, <1>4, <3>1, SMTT(30) DEF Divided
  <2> QED
    BY <1>4, <2>1, DivUnique, Zenon
<1>6. ASSUME chunk # rest PROVE (addr + chunk) % line = 0
  <2>1. PICK n \in Int : n = addr + chunk
    BY <1>3, SMTT(30)
  <2>2. Divided(n, line, q + 1, 0)
    BY <1>1, <1>3, <1>6, <2>1, Apart, SMTT(30) DEF Divided
  <2>3. q + 1 \in Int /\ 0 \in 0..line - 1
    OBVIOUS
  <2> QED
    BY <2>1, <2>2, <2>3, DivUnique, ZenonT(60)
<1> QED
  BY <1>1, <1>3, <1>5, <1>6, Zenon DEF InLine

\* One more chunk is one more slot: slotsNeeded counts the chunks.
LEMMA SlotsGrow ==
    ASSUME NEW addr \in Nat, NEW upTo \in Nat, NEW line \in Nat \ {0}, NEW chunk \in 1..line,
           upTo = 0 => (addr % line) + chunk <= line,
           upTo > 0 => (addr + upTo) % line = 0
    PROVE  MemorySlots(addr, upTo + chunk, line) = MemorySlots(addr, upTo, line) + 1
<1>0. addr \in Int /\ addr + upTo \in Int /\ chunk \in Nat /\ chunk >= 1 /\ chunk <= line
  OBVIOUS
<1>1. PICK q \in Int, m \in 0..line - 1 : addr % line = m /\ Divided(addr, line, q, m)
  BY <1>0, DivMod, Zenon
<1>2. CASE upTo = 0
  <2>1. PICK e \in Int, s \in 0..line - 1 : e = m + chunk - 1 /\ e = s /\ Divided(e, line, 0, s)
    BY <1>0, <1>1, <1>2, SMTT(30) DEF Divided
  <2>2. e \div line = 0
    BY <2>1, DivUnique, SMTT(30)
  <2>3. MemorySlots(addr, chunk, line) = 1
    BY <1>0, <1>1, <2>1, <2>2, SMTT(30) DEF MemorySlots
  <2> QED
    BY <1>0, <1>2, <2>3, SMTT(30) DEF MemorySlots
<1>3. CASE upTo > 0
  <2>1. PICK k \in Int : Divided(addr + upTo, line, k, 0)
    BY <1>0, <1>3, DivMod, Zenon
  <2>2. PICK j \in Int : j = k - q
    OBVIOUS
  <2>3. m + upTo = line * j
    BY <1>1, <2>1, <2>2, Apart, SMTT(30) DEF Divided
  <2>4. PICK u \in Int, v \in 0..line - 1 : u = m + upTo - 1 /\ v = line - 1 /\ Divided(u, line, j - 1, v)
    BY <2>3, Apart, SMTT(30) DEF Divided
  <2>5. PICK w \in Int, z \in 0..line - 1 :
            w = m + (upTo + chunk) - 1 /\ z = chunk - 1 /\ Divided(w, line, j, z)
    BY <1>0, <2>3, SMTT(30) DEF Divided
  <2>6. u \div line = j - 1 /\ w \div line = j
    <3>1. j - 1 \in Int
      OBVIOUS
    <3> QED
      BY <2>4, <2>5, <3>1, DivUnique, ZenonT(60)
  <2>7. MemorySlots(addr, upTo, line) = 1 + (j - 1)
    BY <1>1, <1>3, <2>4, <2>6, SMTT(30) DEF MemorySlots
  <2>8. MemorySlots(addr, upTo + chunk, line) = 1 + j
    BY <1>0, <1>1, <1>3, <2>5, <2>6, SMTT(30) DEF MemorySlots
  <2> QED
    BY <2>7, <2>8, SMTT(30)
<1> QED
  BY <1>2, <1>3, SMTT(30)

-----------------------------------------------------------------------------
(* The invariant of AccessSplit.                                           *)

\* The bytes sent so far.
Pos == IF status = "done" THEN IssueSize(access) ELSE offset

Chunks ==
    \A i \in DOMAIN sent :
        /\ sent[i][2] > 0
        /\ sent[i][1] \div access.line = (sent[i][1] + sent[i][2] - 1) \div access.line
        /\ sent[i][1] = IF i = 1 THEN access.addr ELSE sent[i - 1][1] + sent[i - 1][2]

\* The chunks end where the cursor is, which is the end of a line until the
\* last of them is sent.
TileInv ==
    /\ Pos \in 0..IssueSize(access)
    /\ status = "issue" => offset < IssueSize(access)
    /\ status = "done" => offset = access.size
    /\ Chunks
    /\ access.addr + Pos =
          IF sent = << >> THEN access.addr ELSE sent[Len(sent)][1] + sent[Len(sent)][2]
    /\ UNION {Bytes(sent[i]) : i \in DOMAIN sent} = access.addr..access.addr + Pos - 1
    /\ Len(sent) = MemorySlots(access.addr, Pos, access.line)
    /\ status = "issue" /\ Pos > 0 => (access.addr + Pos) % access.line = 0

\* The lines sent are the first lines of the packet, in order.
FlushInv ==
    LET f == access.addr \div access.line
        lineCount == LineCount(access.addr, access.size, access.line)
    IN  /\ \A i \in DOMAIN sent : sent[i] = <<access.line * (f + i - 1), access.line>>
        /\ status = "issue" => access.size > 0 /\ Len(sent) < lineCount
        /\ status = "done" => Len(sent) = lineCount

SplitInv ==
    /\ access \in Access
    /\ status \in {"start", "issue", "done", "fatal"}
    /\ sent \in Seq(Nat \X Nat) /\ offset \in Nat
    /\ status = "start" => sent = << >> /\ offset = 0
    /\ status = "fatal" => sent = << >> /\ ~Fits(access)
    /\ status \in {"issue", "done"} => Fits(access) /\ IF access.kind = "flush" THEN FlushInv ELSE TileInv

LEMMA AccessFacts ==
    ASSUME access \in Access
    PROVE  /\ access.addr \in Nat /\ access.size \in Nat /\ access.line \in Nat
           /\ access.addr < Top /\ access.size < Top /\ access.line < Top
           /\ access.kind # "flush" => access.line \in Nat \ {0}
           /\ IssueSize(access) \in Nat /\ IssueSize(access) <= access.size
           /\ IssueSize(access) = 0 <=> access.size = 0
<1>1. Top \in Nat \ {0} /\ DataCap \in Nat \ {0} /\ Lines \subseteq 0..Top - 1
  BY TopAssumption, DataCapAssumption, LineSizesAssumption, Zenon
<1>2. access.addr \in 0..Top - 1 /\ access.size \in 0..Top - 1 /\ access.line \in Lines
  BY Zenon DEF Access, Word
<1>3. access.kind # "flush" => access.line # 0
  BY Zenon DEF Access
<1>4. /\ access.addr \in Nat /\ access.size \in Nat /\ access.line \in Nat
      /\ access.addr < Top /\ access.size < Top /\ access.line < Top
  <2>1. access.line \in 0..Top - 1
    BY <1>1, <1>2, Zenon
  <2> QED
    BY <1>1, <1>2, <2>1, SMTT(30)
<1>5. IssueSize(access) = access.size \/ (IssueSize(access) = DataCap /\ ~(access.size < DataCap))
  BY Zenon DEF IssueSize, Least
<1>6. IssueSize(access) \in Nat /\ IssueSize(access) <= access.size /\ (IssueSize(access) = 0 <=> access.size = 0)
  BY <1>1, <1>4, <1>5, SMTT(30)
<1> QED
  BY <1>3, <1>4, <1>6, Zenon

\* The checks of the first step decide Fits.
LEMMA CheckStep ==
    ASSUME SplitInv, Check
    PROVE  SplitInv'
<1>1. /\ status = "start" /\ access' = access /\ offset' = 0 /\ sent' = << >> /\ access \in Access
  BY Zenon DEF SplitInv, Check
<1>2. /\ access.addr \in Nat /\ access.size \in Nat /\ access.line \in Nat /\ access.addr < Top
      /\ access.kind # "flush" => access.line \in Nat \ {0}
      /\ IssueSize(access) \in Nat /\ IssueSize(access) <= access.size
      /\ IssueSize(access) = 0 <=> access.size = 0
  BY <1>1, AccessFacts, Zenon
<1>3. Top \in Nat /\ MaxWord = Top - 1
  BY TopAssumption, Zenon DEF MaxWord
<1>4. CASE access.kind = "flush"
  <2>1. Refuses(access.addr, access.size, access.line) <=> ~Fits(access)
    BY <1>2, <1>4, FlushRefused, Zenon DEF Fits
  <2>2. status' = IF ~Fits(access) THEN "fatal" ELSE IF access.size = 0 THEN "done" ELSE "issue"
    BY <1>4, <2>1, Zenon DEF Check
  <2>3. ASSUME Fits(access) PROVE FlushInv'
    <3>1. /\ access.line \in Nat \ {0} /\ access.addr + access.size < Top
      BY <1>2, <1>4, <2>3, SMTT(30) DEF Fits
    <3>2. CASE access.size = 0
      <4>1. LineCount(access.addr, access.size, access.line) = 0
        BY <3>2, Zenon DEF LineCount
      <4> QED
        BY <1>1, <2>2, <2>3, <3>2, <4>1, SMTT(30) DEF FlushInv
    <3>3. CASE access.size # 0
      <4>1. PICK a \in Nat, s \in Nat \ {0}, n \in Nat \ {0} : a = access.addr /\ s = access.size /\ n = access.line
        BY <1>2, <3>1, <3>3, Zenon
      <4>2. PICK f \in Nat, l \in Nat : LinesOfPacket(a, s, n, f, l)
        BY <3>1, <4>1, PacketHasLines, ZenonT(60)
      <4>3. f <= l /\ LineCount(a, s, n) = l - f + 1
        BY <4>2, FlushLines, SMTT(30)
      <4>4. 0 < LineCount(a, s, n)
        BY <4>3
      <4>5. status' = "issue"
        BY <2>2, <2>3, <3>3, Zenon
      <4>6. DOMAIN sent' = {} /\ Len(sent') = 0
        BY <1>1
      <4>7. access.size > 0
        BY <4>1
      <4> QED
        BY <1>1, <4>1, <4>4, <4>5, <4>6, <4>7, ZenonT(60) DEF FlushInv
    <3> QED
      BY <3>2, <3>3, Zenon
  <2> QED
    BY <1>1, <1>4, <2>2, <2>3, Zenon DEF SplitInv
<1>5. CASE access.kind # "flush"
  <2>1. MemorySpanValid(access.addr, IssueSize(access)) <=> Fits(access)
    BY <1>2, <1>3, <1>5, SMTT(30) DEF MemorySpanValid, Fits
  <2>2. status' = IF access.size = 0 THEN "done" ELSE IF ~Fits(access) THEN "fatal" ELSE "issue"
    BY <1>5, <2>1, Zenon DEF Check
  <2>3. access.size = 0 => Fits(access)
    BY <1>2, <1>3, <1>5, SMTT(30) DEF Fits
  <2>4. ASSUME Fits(access) PROVE TileInv'
    <3>1. Pos' = 0 /\ IssueSize(access)' = IssueSize(access)
      BY <1>1, <1>2, <2>2, <2>4, ZenonT(60) DEF Pos
    <3>2. UNION {Bytes(sent[i]) : i \in DOMAIN sent}' = {}
      BY <1>1, SMTT(30)
    <3>3. access.addr..access.addr + 0 - 1 = {}
      BY <1>2
    <3>4. MemorySlots(access.addr, 0, access.line) = 0
      BY Zenon DEF MemorySlots
    <3>5. Chunks'
      BY <1>1 DEF Chunks
    <3>6. sent' = << >> /\ Len(sent') = 0
      BY <1>1
    <3>7. 0 \in 0..IssueSize(access) /\ access.addr + 0 = access.addr
      BY <1>2
    <3>8. access.size # 0 => 0 < IssueSize(access)
      BY <1>2
    <3>9. /\ status' = "issue" => offset' < IssueSize(access)'
          /\ status' = "done" => offset' = access'.size
      BY <1>1, <2>2, <2>4, <3>1, <3>8, Zenon
    <3>10. (Pos \in 0..IssueSize(access))'
      BY <3>1, <3>7, Zenon
    <3>11. (access.addr + Pos =
               IF sent = << >> THEN access.addr ELSE sent[Len(sent)][1] + sent[Len(sent)][2])'
      BY <1>1, <3>1, <3>6, <3>7, Zenon
    <3>12. (UNION {Bytes(sent[i]) : i \in DOMAIN sent} = access.addr..access.addr + Pos - 1)'
      BY <1>1, <3>1, <3>2, <3>3, Zenon
    <3>13. (Len(sent) = MemorySlots(access.addr, Pos, access.line))'
      BY <1>1, <3>1, <3>4, <3>6, Zenon
    <3>14. ~(Pos' > 0)
      BY <3>1
    <3> QED
      BY <3>5, <3>9, <3>10, <3>11, <3>12, <3>13, <3>14, Zenon DEF TileInv
  <2> QED
    BY <1>1, <1>5, <2>2, <2>3, <2>4, ZenonT(60) DEF SplitInv
<1> QED
  BY <1>4, <1>5, Zenon

\* The next line of a packet that fits does not wrap, and its loop's own
\* overflow check does not fire.
LEMMA FlushLineStep ==
    ASSUME SplitInv, FlushLine
    PROVE  SplitInv'
<1>1. /\ status = "issue" /\ access.kind = "flush" /\ access' = access /\ offset' = offset
      /\ access \in Access /\ sent \in Seq(Nat \X Nat) /\ offset \in Nat /\ Fits(access) /\ FlushInv
  BY Zenon DEF SplitInv, FlushLine
<1>2. /\ access.addr \in Nat /\ access.size \in Nat /\ access.line \in Nat /\ access.addr < Top
  BY <1>1, AccessFacts, ZenonT(60)
<1>3. Top \in Nat /\ MaxWord = Top - 1
  BY TopAssumption, Zenon DEF MaxWord
<1>4. PICK a \in Nat, s \in Nat \ {0}, n \in Nat \ {0} :
          /\ a = access.addr /\ s = access.size /\ n = access.line /\ a + s < Top
  BY <1>1, <1>2, SMTT(30) DEF Fits, FlushInv
<1>5. PICK f \in Nat, l \in Nat : LinesOfPacket(a, s, n, f, l)
  BY <1>4, PacketHasLines, Zenon
<1>6. /\ FirstLine(a, n) = n * f /\ n * l <= a + s - 1 /\ LineCount(a, s, n) = l - f + 1 /\ f <= l
  BY <1>5, FlushLines, SMTT(30)
<1>7. f = access.addr \div access.line
  BY <1>4, <1>5, Zenon DEF LinesOfPacket
<1>8. PICK i \in Nat : i = Len(sent) /\ i < l - f + 1
  <2>1. Len(sent) < LineCount(a, s, n)
    BY <1>1, <1>4, Zenon DEF FlushInv
  <2> QED
    BY <1>1, <1>6, <2>1, SMTT(30)
<1>9. PICK p \in Nat : p = n * (f + i) /\ p < Top /\ (i < l - f => p <= MaxWord - n)
  <2>1. n * (f + i) <= n * l
    BY <1>6, <1>8, Apart, SMTT(30)
  <2>2. i < l - f => n * (f + i) + n <= n * l
    BY <1>6, <1>8, Apart, SMTT(30)
  <2>3. n * (f + i) \in Nat /\ n * l \in Nat
    OBVIOUS
  <2> QED
    BY <1>3, <1>4, <1>6, <2>1, <2>2, <2>3, SMTT(30)
<1>10. Wrap(FirstLine(access.addr, access.line) + i * access.line) = p
  <2>1. n * f + i * n = p
    BY <1>9
  <2>2. Wrap(p) = p
    BY <1>9, NoWrap, Zenon
  <2> QED
    BY <1>4, <1>6, <2>1, <2>2, ZenonT(60)
<1>11. /\ sent' = Append(sent, <<p, n>>)
       /\ status' = IF ~(i + 1 < LineCount(a, s, n)) THEN "done"
                    ELSE IF p > MaxWord - n THEN "fatal" ELSE "issue"
  BY <1>1, <1>4, <1>8, <1>10, ZenonT(60) DEF FlushLine
<1>12. status' = IF i + 1 < l - f + 1 THEN "issue" ELSE "done"
  BY <1>3, <1>6, <1>9, <1>11, SMTT(30)
<1>13. /\ sent' \in Seq(Nat \X Nat) /\ Len(sent') = i + 1 /\ sent'[i + 1] = <<p, n>>
       /\ DOMAIN sent = 1..i /\ DOMAIN sent' = 1..i + 1
       /\ \A j \in 1..i : sent'[j] = sent[j]
  BY <1>1, <1>8, <1>11, SMTT(40)
<1>14. FlushInv'
  <2>1. ASSUME NEW j \in DOMAIN sent' PROVE sent'[j] = <<n * (f + j - 1), n>>
    <3>1. CASE j = i + 1
      <4>1. f + j - 1 = f + i
        BY <3>1, SMTT(30)
      <4> QED
        BY <1>9, <1>13, <3>1, <4>1, ZenonT(60)
    <3>2. CASE j # i + 1
      <4>1. j \in 1..i /\ j \in DOMAIN sent
        BY <1>13, <2>1, <3>2, SMTT(30)
      <4> QED
        BY <1>1, <1>4, <1>7, <1>13, <4>1, ZenonT(60) DEF FlushInv
    <3> QED
      BY <3>1, <3>2, Zenon
  <2>2. status' = "issue" => Len(sent') < LineCount(a, s, n)
    BY <1>6, <1>12, <1>13, ZenonT(60)
  <2>3. status' = "done" => Len(sent') = LineCount(a, s, n)
    BY <1>6, <1>8, <1>12, <1>13, SMTT(30)
  <2>4. s > 0
    OBVIOUS
  <2> QED
    BY <1>1, <1>4, <1>7, <2>1, <2>2, <2>3, <2>4, ZenonT(60) DEF FlushInv
<1> QED
  BY <1>1, <1>12, <1>13, <1>14, ZenonT(60) DEF SplitInv

\* The next chunk begins where the last one ended, ends with its line or with
\* the access, and is one more slot.
LEMMA ChunkStep ==
    ASSUME SplitInv, IssueChunk
    PROVE  SplitInv'
<1>1. /\ status = "issue" /\ access.kind # "flush" /\ access' = access /\ access \in Access
      /\ sent \in Seq(Nat \X Nat) /\ offset \in Nat /\ Fits(access) /\ TileInv
  BY Zenon DEF SplitInv, IssueChunk
<1>2. Top \in Nat
  BY TopAssumption, Zenon
<1>3. PICK a \in Nat, n \in Nat \ {0}, s \in Nat \ {0}, o \in Nat :
          /\ a = access.addr /\ n = access.line /\ s = IssueSize(access) /\ o = offset /\ o < s
          /\ a + s <= Top /\ s <= access.size /\ access.size \in Nat
  <2>1. /\ access.addr \in Nat /\ access.line \in Nat \ {0} /\ access.size \in Nat
        /\ IssueSize(access) \in Nat /\ IssueSize(access) <= access.size
    BY <1>1, AccessFacts, Zenon
  <2>2. offset < IssueSize(access) /\ access.addr + IssueSize(access) <= Top
    BY <1>1, Zenon DEF Fits, TileInv
  <2> QED
    BY <1>1, <2>1, <2>2, SMTT(30)
<1>4. PICK r \in Nat \ {0}, p \in Nat : r = s - o /\ p = a + o /\ p < Top
  BY <1>2, <1>3, SMTT(30)
<1>5. Wrap(access.addr + offset) = p
  BY <1>3, <1>4, NoWrap, Zenon
<1>6. PICK chunk : IsChunk(p, r, n, chunk)
  BY Zenon DEF IsChunk
<1>7. /\ chunk \in 1..n /\ chunk <= r /\ (p % n) + chunk <= n
      /\ p \div n = (p + chunk - 1) \div n
      /\ chunk # r => (p + chunk) % n = 0
  <2>1. InLine(p, r, n, chunk)
    BY <1>6, ChunkInLine, Zenon
  <2> QED
    BY <2>1, Zenon DEF InLine
<1>8. chunk \in Nat /\ chunk > 0 /\ (o + chunk = s <=> chunk = r) /\ o + chunk <= s
  <2>1. chunk \in 1..n /\ chunk <= r
    BY <1>7, Zenon
  <2> QED
    BY <1>3, <1>4, <2>1, SMTT(30)
<1>9. /\ sent' = Append(sent, <<p, chunk>>)
      /\ offset' = IF o + chunk = s THEN access.size ELSE o + chunk
      /\ status' = IF o + chunk = s THEN "done" ELSE "issue"
  <2>1. chunk = MemoryChunkSize(p, r, n, r)
    BY <1>6, Zenon DEF IsChunk
  <2> QED
    BY <1>1, <1>3, <1>4, <1>5, <2>1, ZenonT(60) DEF IssueChunk
<1>10. IssueSize(access)' = s /\ Pos = o /\ Pos' = o + chunk /\ offset' \in Nat
  BY <1>1, <1>3, <1>8, <1>9, SMTT(30) DEF Pos
<1>11. PICK k \in Nat : k = Len(sent) /\ DOMAIN sent = 1..k
  BY <1>1, SMTT(30)
<1>12. /\ sent' \in Seq(Nat \X Nat) /\ Len(sent') = k + 1 /\ sent'[k + 1] = <<p, chunk>>
       /\ DOMAIN sent' = 1..k + 1
       /\ \A j \in 1..k : sent'[j] = sent[j]
  <2>1. <<p, chunk>> \in Nat \X Nat /\ sent' = Append(sent, <<p, chunk>>)
    BY <1>8, <1>9, Zenon
  <2> QED
    BY <1>1, <1>11, <2>1, SMTT(30)
<1>13. p = IF k = 0 THEN a ELSE sent[k][1] + sent[k][2]
  <2>1. sent = << >> <=> k = 0
    BY <1>1, <1>11, SMTT(30)
  <2> QED
    BY <1>1, <1>3, <1>4, <1>10, <1>11, <2>1, ZenonT(60) DEF TileInv
<1>14. Chunks'
  <2> SUFFICES ASSUME NEW j \in 1..k + 1
               PROVE  /\ sent'[j][2] > 0
                      /\ sent'[j][1] \div n = (sent'[j][1] + sent'[j][2] - 1) \div n
                      /\ sent'[j][1] = IF j = 1 THEN a ELSE sent'[j - 1][1] + sent'[j - 1][2]
    BY <1>1, <1>3, <1>12, ZenonT(60) DEF Chunks
  <2>1. CASE j = k + 1
    <3>1. sent'[j][1] = p /\ sent'[j][2] = chunk
      BY <1>12, <2>1, SMTT(30)
    <3>2. p = IF j = 1 THEN a ELSE sent'[j - 1][1] + sent'[j - 1][2]
      <4>1. k = 0 <=> j = 1
        BY <2>1, SMTT(30)
      <4>2. k # 0 => k \in 1..k /\ j - 1 = k
        BY <2>1, SMTT(30)
      <4> QED
        BY <1>12, <1>13, <4>1, <4>2, ZenonT(60)
    <3> QED
      BY <1>7, <1>8, <3>1, <3>2, ZenonT(60)
  <2>2. CASE j # k + 1
    <3>1. j \in 1..k /\ (j # 1 => j - 1 \in 1..k)
      BY <2>2, SMTT(30)
    <3> QED
      BY <1>1, <1>3, <1>11, <1>12, <3>1, ZenonT(60) DEF TileInv, Chunks
  <2> QED
    BY <2>1, <2>2, Zenon
<1>15. UNION {Bytes(sent[i]) : i \in DOMAIN sent}' = a..a + (o + chunk) - 1
  <2>1. UNION {Bytes(sent[i]) : i \in DOMAIN sent} = a..a + o - 1
    BY <1>1, <1>3, <1>10, ZenonT(60) DEF TileInv
  <2>2. Bytes(sent'[k + 1]) = p..p + chunk - 1
    BY <1>12, SMTT(30) DEF Bytes
  <2>3. UNION {Bytes(sent'[i]) : i \in 1..k + 1} = (a..a + o - 1) \cup (p..p + chunk - 1)
    <3>1. \A i \in 1..k : Bytes(sent'[i]) = Bytes(sent[i])
      BY <1>12, Zenon DEF Bytes
    <3>2. 1..k + 1 = (1..k) \cup {k + 1}
      OBVIOUS
    <3>3. UNION {Bytes(sent[i]) : i \in 1..k} = a..a + o - 1
      BY <1>11, <2>1, Zenon
    <3>4. ASSUME NEW b PROVE b \in UNION {Bytes(sent'[i]) : i \in 1..k + 1}
                             <=> b \in UNION {Bytes(sent[i]) : i \in 1..k} \/ b \in Bytes(sent'[k + 1])
      BY <3>1, <3>2, Zenon
    <3> QED
      BY <2>2, <3>3, <3>4, ZenonT(60)
  <2>4. (a..a + o - 1) \cup (p..p + chunk - 1) = a..a + (o + chunk) - 1
    BY <1>4, <1>8, SMTT(30)
  <2> QED
    BY <1>12, <2>3, <2>4, ZenonT(60)
<1>16. Len(sent') = MemorySlots(a, o + chunk, n)
  <2>1. k = MemorySlots(a, o, n)
    BY <1>1, <1>3, <1>10, <1>11, ZenonT(60) DEF TileInv
  <2>2. o > 0 => (a + o) % n = 0
    BY <1>1, <1>3, <1>10, ZenonT(60) DEF TileInv
  <2>3. o = 0 => (a % n) + chunk <= n
    <3>1. o = 0 => p = a
      BY <1>4, SMTT(30)
    <3> QED
      BY <1>7, <3>1, Zenon
  <2>4. MemorySlots(a, o + chunk, n) = MemorySlots(a, o, n) + 1
    BY <1>7, <2>2, <2>3, SlotsGrow, ZenonT(60)
  <2> QED
    BY <1>12, <2>1, <2>4, ZenonT(60)
<1>17. TileInv'
  <2>1. /\ o + chunk \in 0..s
        /\ status' = "issue" => offset' < s
        /\ status' = "done" => offset' = access'.size
    <3>1. o + chunk \in 0..s /\ (o + chunk # s => o + chunk < s)
      BY <1>8, SMTT(30)
    <3> QED
      BY <1>1, <1>9, <3>1, ZenonT(60)
  <2>2. a + (o + chunk) = p + chunk /\ sent' # << >>
    BY <1>4, <1>8, <1>12, SMTT(30)
  <2>3. status' = "issue" => (a + (o + chunk)) % n = 0
    BY <1>7, <1>8, <1>9, <2>2, ZenonT(60)
  <2>4. access'.addr + Pos' = IF sent' = << >> THEN access'.addr ELSE sent'[Len(sent')][1] + sent'[Len(sent')][2]
    BY <1>1, <1>3, <1>10, <1>12, <2>2, SMTT(30)
  <2> QED
    BY <1>1, <1>3, <1>10, <1>14, <1>15, <1>16, <2>1, <2>3, <2>4, Zenon DEF TileInv
<1>18. status' \in {"issue", "done"} /\ Fits(access)'
  BY <1>1, <1>9, ZenonT(60)
<1> QED
  BY <1>1, <1>10, <1>12, <1>17, <1>18, ZenonT(60) DEF SplitInv


\* Each request of SplitInv's flush is an aligned line that holds a byte of the
\* packet, and a byte of the packet is in one of the lines from f to l.
LEMMA FlushedLines ==
    ASSUME SplitInv, access.kind = "flush", status \in {"issue", "done"}, access.size > 0
    PROVE  Flushed
<1>1. /\ access \in Access /\ sent \in Seq(Nat \X Nat) /\ Fits(access) /\ FlushInv
  BY Zenon DEF SplitInv
<1>2. access.addr \in Nat /\ access.size \in Nat /\ access.line \in Nat /\ access.addr < Top
  BY <1>1, AccessFacts, ZenonT(60)
<1>3. PICK a \in Nat, s \in Nat \ {0}, n \in Nat \ {0} :
          /\ a = access.addr /\ s = access.size /\ n = access.line /\ a + s < Top
  BY <1>1, <1>2, SMTT(30) DEF Fits
<1>4. PICK f \in Nat, l \in Nat : LinesOfPacket(a, s, n, f, l)
  BY <1>3, PacketHasLines, ZenonT(60)
<1>5. /\ n * f <= a /\ a < n * f + n /\ n * l <= a + s - 1 /\ a + s - 1 < n * l + n
      /\ LineCount(a, s, n) = l - f + 1 /\ f <= l
  BY <1>4, FlushLines, SMTT(30)
<1>6. f = access.addr \div access.line
  BY <1>3, <1>4, Zenon DEF LinesOfPacket
<1>7. PICK c \in Nat : DOMAIN sent = 1..c /\ c <= l - f + 1 /\ (status = "done" => c = l - f + 1)
  <2>1. status = "issue" => Len(sent) < LineCount(a, s, n)
    BY <1>1, <1>3, Zenon DEF FlushInv
  <2>2. status = "done" => Len(sent) = LineCount(a, s, n)
    BY <1>1, <1>3, Zenon DEF FlushInv
  <2>3. Len(sent) \in Nat /\ DOMAIN sent = 1..Len(sent)
    BY <1>1, SMTT(30)
  <2>4. Len(sent) <= l - f + 1 /\ (status = "done" => Len(sent) = l - f + 1)
    BY <1>5, <2>1, <2>2, <2>3, SMTT(30)
  <2> QED
    BY <2>3, <2>4, Zenon
<1>8. \A i \in 1..c : sent[i] = <<n * (f + i - 1), n>>
  BY <1>1, <1>3, <1>6, <1>7, ZenonT(60) DEF FlushInv
<1>9. \A k \in Nat : Bytes(<<n * k, n>>) = n * k..n * k + n - 1
  BY ZenonT(60) DEF Bytes
<1>10. ASSUME NEW i \in 1..c PROVE sent[i][1] % n = 0 /\ Bytes(sent[i]) \cap (a..a + s - 1) # {}
  <2>1. PICK k \in Nat : k = f + i - 1 /\ f <= k /\ k <= l
    BY <1>7, SMTT(30)
  <2>2. PICK z \in Nat : z = n * k /\ sent[i] = <<z, n>>
    BY <1>8, <2>1, SMTT(30)
  <2>3. z % n = 0
    <3>1. Divided(z, n, k, 0)
      BY <2>2, SMTT(30) DEF Divided
    <3>2. z \in Int /\ k \in Int /\ 0 \in 0..n - 1
      OBVIOUS
    <3> QED
      BY <3>1, <3>2, DivUnique, ZenonT(60)
  <2>4. Bytes(sent[i]) = z..z + n - 1
    BY <2>2, SMTT(30) DEF Bytes
  <2>5. z <= a + s - 1 /\ a < z + n
    <3>1. n * k <= n * l /\ n * f <= n * k
      BY <2>1, Apart, SMTT(30)
    <3>2. PICK F \in Nat, L \in Nat : F = n * f /\ L = n * l
      OBVIOUS
    <3> QED
      BY <1>5, <2>2, <3>1, <3>2, SMTT(30)
  <2>s. sent[i][1] = z
    BY <2>2, SMTT(30)
  <2>6. CASE a < z
    <3>1. z \in z..z + n - 1 /\ z \in a..a + s - 1
      BY <2>5, <2>6, SMTT(30)
    <3> QED
      BY <2>s, <2>3, <2>4, <3>1, ZenonT(60)
  <2>7. CASE z <= a
    <3>1. a \in z..z + n - 1 /\ a \in a..a + s - 1
      BY <2>5, <2>7, SMTT(30)
    <3> QED
      BY <2>s, <2>3, <2>4, <3>1, ZenonT(60)
  <2> QED
    BY <2>6, <2>7, SMTT(30)
<1>11. ASSUME NEW i \in 1..c, NEW j \in 1..c, i # j PROVE sent[i] # sent[j]
  <2>1. PICK k \in Nat, m \in Nat : k = f + i - 1 /\ m = f + j - 1 /\ k # m
    BY <1>7, <1>11, SMTT(30)
  <2>2. n * k # n * m
    BY <2>1, Apart, SMTT(30)
  <2> QED
    BY <1>8, <2>1, <2>2, SMTT(30)
<1>12. ASSUME status = "done", NEW b \in a..a + s - 1
       PROVE  \E i \in 1..c : b \in Bytes(sent[i])
  <2>1. b \in Int
    OBVIOUS
  <2>2. PICK k \in Int, r \in 0..n - 1 : Divided(b, n, k, r)
    BY <2>1, DivMod, Zenon
  <2>3. PICK z \in Int, F \in Int, L \in Int : z = n * k /\ F = n * f /\ L = n * l
    OBVIOUS
  <2>4. b = z + r
    BY <2>2, <2>3, ZenonT(60) DEF Divided
  <2>5. F < z + n /\ z < L + n
    BY <1>5, <2>3, <2>4, SMTT(30)
  <2>6. n * (k + 1) = z + n /\ n * (l + 1) = L + n
    BY <2>3, Apart, SMTT(30)
  <2>7. f < k + 1 /\ k < l + 1
    <3>1. n * f < n * (k + 1) /\ n * k < n * (l + 1)
      BY <2>3, <2>5, <2>6, ZenonT(60)
    <3>2. k + 1 \in Int /\ l + 1 \in Int /\ f \in Int
      OBVIOUS
    <3> QED
      BY <3>1, <3>2, Apart, ZenonT(60)
  <2>8. PICK i \in 1..c : i = k - f + 1
    BY <1>7, <1>12, <2>7, SMTT(30)
  <2>9. sent[i] = <<z, n>>
    <3>1. f + i - 1 = k
      BY <2>8, SMTT(30)
    <3> QED
      BY <1>8, <2>3, <3>1, ZenonT(60)
  <2>10. b \in Bytes(sent[i])
    BY <2>4, <2>9, SMTT(30) DEF Bytes
  <2> QED
    BY <2>10, Zenon
<1>13. status = "done" => a..a + s - 1 \subseteq UNION {Bytes(sent[i]) : i \in 1..c}
  BY <1>12, ZenonT(60)
<1> QED
  BY <1>3, <1>7, <1>10, <1>11, <1>13, ZenonT(60) DEF Flushed

LEMMA SplitInvariant == SplitSpec => []SplitInv
<1>1. SplitInit => SplitInv
  BY DEF SplitInit, SplitInv
<1>2. SplitInv /\ [SplitNext]_splitVars => SplitInv'
  <2>1. SplitInv /\ SplitNext => SplitInv'
    BY CheckStep, ChunkStep, FlushLineStep, ZenonT(60) DEF SplitNext
  <2>2. SplitInv /\ UNCHANGED splitVars => SplitInv'
    <3> SUFFICES ASSUME SplitInv, UNCHANGED splitVars PROVE SplitInv'
      OBVIOUS
    <3>1. access' = access /\ offset' = offset /\ sent' = sent /\ status' = status
      BY Zenon DEF splitVars
    <3>2. FlushInv => FlushInv'
      BY <3>1, ZenonT(60) DEF FlushInv
    <3>3. TileInv => TileInv'
      BY <3>1, SMTT(40) DEF TileInv, Chunks, Pos
    <3> QED
      BY <3>1, <3>2, <3>3, ZenonT(60) DEF SplitInv
  <2> QED
    BY <2>1, <2>2, Zenon
<1> QED
  BY <1>1, <1>2, PTL DEF SplitSpec

\* An access is refused exactly if it does not fit in the address space, and
\* before any of its requests is sent, for every width of a machine word and
\* every line size (computeBalarFlushRange, memorySpanValid).
THEOREM RefusalsAreExact == SplitSpec => []RefusedExactly
<1>1. SplitInv => RefusedExactly
  BY Zenon DEF SplitInv, RefusedExactly, Fits
<1> QED
  BY <1>1, SplitInvariant, PTL

\* The requests of a load or store tile it without crossing a line, in as many
\* requests as slotsNeeded says, and the lines of a flush are those that hold a
\* byte of the packet, each once, for every width of a machine word and every
\* line size (issueReadWindow, issueWriteWindow, issueDoorbellFlushes).
THEOREM RequestsCover == SplitSpec => []Covers
<1>1. SplitInv => Covers
  <2> SUFFICES ASSUME SplitInv, status # "start" PROVE IF access.kind = "flush" THEN Flushed ELSE Tiled
    BY Zenon DEF Covers
  <2>1. CASE status = "fatal"
    <3>1. sent = << >>
      BY <2>1, Zenon DEF SplitInv
    <3> QED
      BY <2>1, <3>1, SMTT(40) DEF Flushed, Tiled
  <2>2. CASE status \in {"issue", "done"} /\ access.kind # "flush"
    <3>1. TileInv
      BY <2>2, Zenon DEF SplitInv
    <3> QED
      BY <2>2, <3>1, ZenonT(60) DEF TileInv, Chunks, Tiled, Pos
  <2>3. CASE status \in {"issue", "done"} /\ access.kind = "flush"
    <3>1. FlushInv /\ access \in Access /\ sent \in Seq(Nat \X Nat)
      BY <2>3, Zenon DEF SplitInv
    <3>2. access.addr \in Nat /\ access.size \in Nat
      BY <3>1, AccessFacts, Zenon
    <3>3. CASE access.size = 0
      <4>1. LineCount(access.addr, access.size, access.line) = 0
        BY <3>3, ZenonT(60) DEF LineCount
      <4>2. status = "done"
        BY <2>3, <3>1, <3>3, SMTT(30) DEF FlushInv
      <4>3. Len(sent) = 0
        BY <3>1, <4>1, <4>2, ZenonT(60) DEF FlushInv
      <4>4. DOMAIN sent = {}
        BY <3>1, <4>3, SMTT(30)
      <4>5. access.addr..access.addr + access.size - 1 = {}
        BY <3>2, <3>3, SMTT(30)
      <4> QED
        BY <2>3, <4>4, <4>5, ZenonT(60) DEF Flushed
    <3>4. CASE access.size # 0
      <4>1. access.size > 0
        BY <3>2, <3>4, SMTT(30)
      <4> QED
        BY <2>3, <4>1, FlushedLines, ZenonT(60)
    <3> QED
      BY <3>3, <3>4, ZenonT(60)
  <2> QED
    BY <2>1, <2>2, <2>3, Zenon DEF SplitInv
<1> QED
  BY <1>1, SplitInvariant, PTL
=============================================================================
