------------------------ MODULE BalarPortInvariant -------------------------
(***************************************************************************)
(* The five invariants of BalarPort, for any number of vCPUs, any packet   *)
(* size and any async_completion_depth.                                    *)
(*                                                                         *)
(* None of them is inductive.  Good(v) adds what each one needs of vCPU v: *)
(* which of six phases its command is in (Phase), what is known of its     *)
(* packets (Data), where its submits are (Pending), that the counters      *)
(* count them (Counts), and that a ticket is beyond COMPLETED while its    *)
(* operation is queued or at the device (Order).                           *)
(*                                                                         *)
(* This module has the invariant, the initial states, the steps of the     *)
(* guest, the registers, the end, and what forwarding a doorbell does.     *)
(* BalarPortProofs has the other steps and the conclusions.                *)
(***************************************************************************)
EXTENDS BalarPort, FiniteSetTheorems, SequenceTheorems, TLAPS

Types ==
    /\ guest \in [Vcpus -> {"run", "wait"}]
    /\ mailbox \in [Vcpus -> Command \cup {None}]
    /\ ops \in [Vcpus -> 0..MaxOps]
    /\ pending \in [Vcpus -> BOOLEAN]
    /\ fed \in [Vcpus -> Nat]
    /\ visible \in [Op -> Nat]
    /\ lines \in Nat
    /\ armed \in [Vcpus -> Doorbell \cup {None}]
    /\ flushing \in [Vcpus -> Flush \cup {None}]
    /\ atDevice \in [Vcpus -> SUBSET Doorbell]
    /\ queue \in [Vcpus -> Seq(1..MaxOps)]
    /\ busy \in [Vcpus -> BOOLEAN]
    /\ submitted \in [Vcpus -> Nat]
    /\ completed \in [Vcpus -> Nat]
    /\ inFlight \in Nat
    /\ asyncVcpu \in Vcpus \cup {None}
    /\ posted \subseteq Op
    /\ tickets \subseteq Op \X Nat
    /\ ended \in BOOLEAN

InMemory(v, n) ==
    \/ <<v, n>> \in packets /\ visible[<<v, n>>] = lines
    \/ v \in halted /\ n > fed[v]
InQueue(v, n)  == \E i \in 1..Len(queue[v]) : queue[v][i] = n
Plain(v)       == \E d \in atDevice[v] : ~d.async
Posted(v, n)   == \E d \in atDevice[v] : d.async /\ d.op = n
HeldBack(v, n) ==
    \/ armed[v] # None /\ armed[v].async /\ armed[v].op = n
    \/ flushing[v] # None /\ flushing[v].async /\ flushing[v].op = n

\* The packet of the current command has not been flushed, sent or queued.
Fresh(v) ==
    /\ ops[v] >= 1
    /\ \A d \in atDevice[v] : d.op # ops[v]
    /\ ~InQueue(v, ops[v])
    /\ \A t \in Nat : <<<<v, ops[v]>>, t>> \notin tickets

Calm(v) == ~Plain(v) /\ v \notin reading

\* The phases of a vCPU's command.
Idle(v) ==
    /\ guest[v] # "wait" /\ mailbox[v] = None /\ armed[v] = None /\ flushing[v] = None
    /\ Calm(v)

InMailbox(v) ==
    /\ guest[v] = "wait" /\ mailbox[v] # None /\ armed[v] = None /\ flushing[v] = None
    /\ Calm(v)
    /\ mailbox[v].kind \in Ringing =>
         Fresh(v) /\ visible[<<v, ops[v]>>] = 0 /\ <<v, ops[v]>> \notin posted

IsArmed(v) ==
    /\ guest[v] = "wait" /\ mailbox[v] = None /\ armed[v] # None /\ flushing[v] = None
    /\ Calm(v)
    /\ v \in HasMem /\ armed[v].op = ops[v]
    /\ armed[v].async <=> <<v, ops[v]>> \in posted
    /\ Fresh(v) /\ visible[<<v, ops[v]>>] = 0

IsFlushing(v) ==
    /\ guest[v] = "wait" /\ mailbox[v] = None /\ armed[v] = None /\ flushing[v] # None
    /\ Calm(v)
    /\ v \in HasMem /\ flushing[v].op = ops[v]
    /\ flushing[v].async <=> <<v, ops[v]>> \in posted
    /\ Fresh(v)
    /\ \/ <<v, ops[v]>> \in packets /\ visible[<<v, ops[v]>>] + flushing[v].remaining = lines
       \/ CutOff(v, ops[v])

IsSent(v) ==
    /\ guest[v] = "wait" /\ mailbox[v] = None /\ armed[v] = None /\ flushing[v] = None
    /\ Plain(v) /\ v \notin reading
    /\ \A d \in atDevice[v] : ~d.async => d.op = ops[v]
    /\ <<v, ops[v]>> \notin posted

IsReading(v) ==
    /\ guest[v] = "wait" /\ mailbox[v] = None /\ armed[v] = None /\ flushing[v] = None
    /\ ~Plain(v) /\ v \in reading

Phase(v) ==
    Idle(v) \/ InMailbox(v) \/ IsArmed(v) \/ IsFlushing(v) \/ IsSent(v) \/ IsReading(v)

Data(v) ==
    /\ \A d \in atDevice[v] : d.op <= ops[v]
    /\ \A n \in 1..MaxOps : InQueue(v, n) => n <= ops[v]
    /\ fed[v] <= ops[v]
    /\ ~pending[v] => \A n \in 1..MaxOps : n <= fed[v] => <<v, n>> \in packets
    /\ \A n \in 1..MaxOps : n > ops[v] => visible[<<v, n>>] = 0 /\ <<v, n>> \notin posted
    /\ \A d \in atDevice[v] : d.async \/ (lines > 0 /\ v \in HasMem) => InMemory(v, d.op)
    /\ \A n \in 1..MaxOps : InQueue(v, n) => InMemory(v, n)

Pending(v) ==
    \A n \in 1..MaxOps : <<v, n>> \in posted =>
        <<v, n>> \in done \/ HeldBack(v, n) \/ InQueue(v, n) \/ Posted(v, n)

Counts(v) ==
    /\ submitted[v] = completed[v] + Held(v) + Len(queue[v]) + (IF busy[v] THEN 1 ELSE 0)
    /\ queue[v] # <<>> => busy[v]
    /\ busy[v] <=> \E d \in atDevice[v] : d.async
    /\ \A d, e \in atDevice[v] : d.async /\ e.async => d = e

Order(v) ==
    \A n \in 1..MaxOps : \A t \in Nat : <<<<v, n>>, t>> \in tickets =>
        /\ <<v, n>> \in posted
        /\ Posted(v, n) => t > completed[v]
        /\ \A i \in 1..Len(queue[v]) : queue[v][i] = n => t > completed[v] + i

Good(v) == Phase(v) /\ Data(v) /\ Pending(v) /\ Counts(v) /\ Order(v)

Global ==
    /\ inFlight <= Depth
    /\ asyncVcpu = None => inFlight = 0
    /\ \A v \in Vcpus :
          IF v = asyncVcpu THEN submitted[v] = completed[v] + inFlight ELSE submitted[v] = 0
    /\ JoinMeansDone
    /\ HeldOpen
    /\ fatal # "nested"

IInv == Types /\ Global /\ \A v \in Vcpus : Good(v)

-----------------------------------------------------------------------------
(* What a step may leave alone of a vCPU, and the parts of Good it keeps.  *)

SameClient(w) ==
    /\ guest'[w] = guest[w] /\ mailbox'[w] = mailbox[w] /\ ops'[w] = ops[w]
    /\ w \in reading' <=> w \in reading
SameHeld(w)  == armed'[w] = armed[w] /\ flushing'[w] = flushing[w]
SameSend(w)  == atDevice'[w] = atDevice[w] /\ queue'[w] = queue[w] /\ busy'[w] = busy[w]
SameCount(w) == submitted'[w] = submitted[w] /\ completed'[w] = completed[w]
SamePacket(w) ==
    /\ pending'[w] = pending[w] /\ fed'[w] = fed[w] /\ lines' = lines
    /\ w \in halted' <=> w \in halted
    /\ \A n \in 1..MaxOps :
          /\ <<w, n>> \in packets' <=> <<w, n>> \in packets
          /\ visible'[<<w, n>>] = visible[<<w, n>>]
SameView(w) ==
    \A n \in 1..MaxOps :
        /\ <<w, n>> \in posted' <=> <<w, n>> \in posted
        /\ <<w, n>> \in done => <<w, n>> \in done'
        /\ \A t \in Nat : <<<<w, n>>, t>> \in tickets' <=> <<<<w, n>>, t>> \in tickets

Same(w) ==
    SameClient(w) /\ SameHeld(w) /\ SameSend(w) /\ SameCount(w) /\ SamePacket(w) /\ SameView(w)

LEMMA DataKept ==
    ASSUME Types, NEW w \in Vcpus, Data(w),
           ops'[w] = ops[w], SameSend(w), SamePacket(w), SameView(w)
    PROVE  Data(w)'
<1>1. \A n \in 1..MaxOps : /\ InMemory(w, n)' <=> InMemory(w, n)
                           /\ InQueue(w, n)' <=> InQueue(w, n)
  BY Zenon DEF SameSend, SamePacket, InMemory, InQueue
<1>2. \A d \in atDevice[w] : d.op \in 1..MaxOps
  BY DEF Types, Doorbell
<1>3. \A n \in 1..MaxOps : /\ visible'[<<w, n>>] = visible[<<w, n>>]
                           /\ <<w, n>> \in packets' <=> <<w, n>> \in packets
                           /\ <<w, n>> \in posted' <=> <<w, n>> \in posted
  BY Zenon DEF SamePacket, SameView
<1>4. atDevice'[w] = atDevice[w] /\ pending'[w] = pending[w] /\ fed'[w] = fed[w] /\ lines' = lines
  BY Zenon DEF SameSend, SamePacket
<1> QED
  BY <1>1, <1>2, <1>3, <1>4, Zenon DEF Data

LEMMA PendingKept ==
    ASSUME Types, NEW w \in Vcpus, Pending(w), SameHeld(w), SameSend(w), SameView(w)
    PROVE  Pending(w)'
BY ZenonT(60) DEF Pending, SameHeld, SameSend, SameView, HeldBack, InQueue, Posted

LEMMA CountsKept ==
    ASSUME Types, NEW w \in Vcpus, Counts(w), SameHeld(w), SameSend(w), SameCount(w)
    PROVE  Counts(w)'
BY Zenon DEF Counts, SameHeld, SameSend, SameCount, Held

LEMMA OrderKept ==
    ASSUME Types, NEW w \in Vcpus, Order(w), SameSend(w), SameCount(w), SameView(w)
    PROVE  Order(w)'
BY Zenon DEF Order, SameSend, SameCount, SameView, Posted

LEMMA FreshKept ==
    ASSUME Types, NEW w \in Vcpus, Fresh(w), ops'[w] = ops[w], SameSend(w), SameView(w)
    PROVE  Fresh(w)'
BY DEF Types, Fresh, SameSend, SameView, InQueue

LEMMA PhaseKept ==
    ASSUME Types, NEW w \in Vcpus, Phase(w), Same(w)
    PROVE  Phase(w)'
<1> USE DEF Same, SameClient, SameHeld
<1>0. (Plain(w) <=> Plain(w)') /\ (Calm(w) <=> Calm(w)')
  BY Zenon DEF Plain, Calm, SameSend
<1>1. ops[w] >= 1 => /\ visible'[<<w, ops[w]>>] = visible[<<w, ops[w]>>]
                     /\ <<w, ops[w]>> \in posted' <=> <<w, ops[w]>> \in posted
                     /\ <<w, ops[w]>> \in packets' <=> <<w, ops[w]>> \in packets
  BY DEF Types, SamePacket, SameView
<1>2. Fresh(w) => Fresh(w)' /\ ops[w] >= 1
  BY FreshKept, Zenon DEF Fresh
<1>3. CASE Idle(w)
  BY <1>0, <1>3, Zenon DEF Idle, Phase
<1>4. CASE InMailbox(w)
  BY <1>0, <1>1, <1>2, <1>4, Zenon DEF InMailbox, Phase
<1>5. CASE IsArmed(w)
  BY <1>0, <1>1, <1>2, <1>5, Zenon DEF IsArmed, Phase
<1>6. CASE IsFlushing(w)
  <2>1. lines' = lines /\ (CutOff(w, ops[w]) => CutOff(w, ops[w])')
    BY Zenon DEF SamePacket, CutOff
  <2> QED
    BY <1>0, <1>1, <1>2, <1>6, <2>1, ZenonT(60) DEF IsFlushing, Phase
<1>7. CASE IsSent(w)
  <2>1. ops[w] >= 1
    BY <1>7 DEF IsSent, Plain, Types, Doorbell
  <2>2. IsSent(w)'
    BY <1>0, <1>1, <1>7, <2>1, Zenon DEF IsSent, SameSend
  <2> QED
    BY <2>2, Zenon DEF Phase
<1>8. CASE IsReading(w)
  BY <1>0, <1>8, Zenon DEF IsReading, Phase
<1> QED
  BY <1>3, <1>4, <1>5, <1>6, <1>7, <1>8, Zenon DEF Phase

LEMMA GoodKept ==
    ASSUME Types, NEW w \in Vcpus, Good(w), Same(w)
    PROVE  Good(w)'
BY DataKept, PendingKept, CountsKept, OrderKept, PhaseKept, Zenon DEF Good, Same, SameClient

-----------------------------------------------------------------------------
(* The initial states, and the steps of the guest.                         *)

\* Adding up the submissions of one vCPU, for the two ways its counters move.
LEMMA Sums ==
    /\ \A c, l \in Nat : c + 1 + l + 1 = c + 0 + (l + 1) + 1
    /\ \A c, l \in Nat : c + 1 + l + 0 = c + 0 + l + 1
    /\ \A s, c, h, l \in Nat : s = c + h + l + 1 => s >= c + l + 1
    /\ \A t, c, l \in Nat : t >= c + l + 1 => t > c /\ \A i \in 1..l : t > c + i
    /\ \A m, n \in Nat : n > m => n # m
    /\ \A m \in Nat : m <= m
    /\ \A l, j \in Nat : j \in 1..(l + 1) /\ j # l + 1 => j \in 1..l
    /\ \A l \in Nat : 1..(l + 1) = (1..l) \cup {l + 1}
  OBVIOUS

\* An appended element is last, and the others keep their places.
LEMMA AppendFacts ==
    \A q \in Seq(1..MaxOps) : \A n \in 1..MaxOps :
        /\ Len(Append(q, n)) = Len(q) + 1 /\ Append(q, n) # <<>>
        /\ \A i \in 1..Len(q) : Append(q, n)[i] = q[i]
        /\ Append(q, n)[Len(q) + 1] = n
  BY AppendProperties

\* The empty queue has no positions.
LEMMA EmptyFacts == 1..Len(<<>>) = {}
  BY EmptySeq

\* The invariant holds before the first command.
LEMMA InitIInv == Init => IInv
<1> SUFFICES ASSUME Init PROVE IInv
  OBVIOUS
<1>1. Types
  <2>1. lines \in Nat
    BY LinesAssumption, Zenon DEF Init
  <2>2. queue \in [Vcpus -> Seq(1..MaxOps)]
    BY EmptySeq, Zenon DEF Init
  <2>3. ops \in [Vcpus -> 0..MaxOps] /\ inFlight \in Nat
    <3>1. ops = [v \in Vcpus |-> 0] /\ inFlight = 0
      BY Zenon DEF Init
    <3> QED
      BY <3>1, MaxOpsAssumption
  <2>4. visible \in [Op -> Nat]
    BY Zenon DEF Init
  <2>5. submitted \in [Vcpus -> Nat] /\ completed \in [Vcpus -> Nat]
    BY Zenon DEF Init
  <2>6. /\ busy \in [Vcpus -> BOOLEAN] /\ pending \in [Vcpus -> BOOLEAN] /\ ended \in BOOLEAN
        /\ fed \in [Vcpus -> Nat]
    BY Zenon DEF Init
  <2> QED
    BY <2>1, <2>2, <2>3, <2>4, <2>5, <2>6, Zenon DEF Init, Types
<1>2. Global
  <2>1. inFlight = 0 /\ \A v \in Vcpus : submitted[v] = 0 /\ v # asyncVcpu
    BY NoneAssumption, Zenon DEF Init
  <2>2. fatal # "nested" /\ JoinMeansDone /\ HeldOpen
    BY Zenon DEF Init, JoinMeansDone, HeldOpen
  <2> QED
    BY <2>1, <2>2, DepthAssumption DEF Global
<1>3. ASSUME NEW v \in Vcpus PROVE Good(v)
  <2>0. Len(queue[v]) = 0
    BY EmptySeq, Zenon DEF Init
  <2>1. Phase(v)
    BY Zenon DEF Init, Phase, Idle, Calm, Plain
  <2>2. Data(v)
    <3>1. \A n \in 1..MaxOps : visible[<<v, n>>] = 0 /\ ~InQueue(v, n)
      <4>1. visible = [o \in Op |-> 0]
        BY Zenon DEF Init
      <4>2. \A n \in 1..MaxOps : <<v, n>> \in Op
        BY Zenon DEF Op
      <4> QED
        BY <2>0, <4>1, <4>2 DEF InQueue
    <3>2. ops[v] = 0 /\ fed[v] = 0 /\ atDevice[v] = {} /\ posted = {}
      BY Zenon DEF Init
    <3>3. fed[v] <= ops[v] /\ \A n \in 1..MaxOps : ~(n <= ops[v]) /\ ~(n <= fed[v])
      BY <3>2, MaxOpsAssumption
    <3> QED
      BY <3>1, <3>2, <3>3, Zenon DEF Data
  <2>3. Pending(v) /\ Order(v)
    BY Zenon DEF Init, Pending, Order
  <2>4. Counts(v)
    <3>1. Held(v) = 0 /\ ~busy[v] /\ queue[v] = <<>> /\ atDevice[v] = {}
      BY Zenon DEF Init, Held
    <3>2. submitted[v] = 0 /\ completed[v] = 0
      BY Zenon DEF Init
    <3> QED
      BY <2>0, <3>1, <3>2 DEF Counts
  <2> QED
    BY <2>1, <2>2, <2>3, <2>4, Zenon DEF Good
<1> QED
  BY <1>1, <1>2, <1>3, Zenon DEF IInv

\* The bound on all operations bounds those of each vCPU.
LEMMA OpsBound ==
    ASSUME Types, NEW v \in Vcpus,
           Cardinality({o \in Op : o[2] <= ops[o[1]]}) < MaxOps
    PROVE  ops[v] + 1 \in 1..MaxOps
<1> DEFINE Begun == {o \in Op : o[2] <= ops[o[1]]}
           Own   == {v} \X (1..MaxOps)
<1>1. ops[v] \in 0..MaxOps
  BY Zenon DEF Types
<1>2. SUFFICES ASSUME ops[v] = MaxOps PROVE FALSE
  BY <1>1, <1>2, MaxOpsAssumption
<1>3. IsFiniteSet(1..MaxOps) /\ Cardinality(1..MaxOps) = MaxOps
  BY FS_Interval, MaxOpsAssumption
<1>4. IsFiniteSet({v}) /\ Cardinality({v}) = 1
  BY FS_Singleton, Zenon
<1>5. IsFiniteSet(Own) /\ Cardinality(Own) = MaxOps
  BY <1>3, <1>4, FS_Product, MaxOpsAssumption
<1>6. IsFiniteSet(Begun)
  <2>1. IsFiniteSet(Op)
    BY <1>3, FS_Product, VcpusAssumption, Zenon DEF Op
  <2> QED
    BY <2>1, FS_Subset, Zenon
<1>7. Own \subseteq Begun
  BY <1>2 DEF Op
<1>8. Cardinality(Own) <= Cardinality(Begun)
  BY <1>6, <1>7, FS_Subset, Zenon
<1>9. Cardinality(Begun) \in Nat
  BY <1>6, FS_CardinalityType, Zenon
<1> QED
  BY <1>5, <1>8, <1>9, MaxOpsAssumption

LEMMA Running ==
    ASSUME NEW v \in Vcpus, Phase(v), guest[v] # "wait"
    PROVE  Idle(v)
BY Zenon DEF Phase, Idle, InMailbox, IsArmed, IsFlushing, IsSent, IsReading

LEMMA IssueStep ==
    ASSUME IInv, NEW v \in Vcpus, NEW c \in Command, Issue(v, c)
    PROVE  IInv'
<1> USE DEF pipe, packet, held, engine, view
<1>0. Types /\ Global /\ Good(v) /\ Idle(v)
  BY Running, Zenon DEF IInv, Good, Issue
<1>a. ops[v] \in 0..MaxOps
  BY <1>0, Zenon DEF Types
<1>b. c.kind \in Ringing => ops[v] + 1 \in 1..MaxOps
  BY <1>0, OpsBound, Zenon DEF Issue
<1>c. /\ guest'[v] = "wait" /\ mailbox'[v] = c
      /\ ops'[v] = IF c.kind \in Ringing THEN ops[v] + 1 ELSE ops[v]
  BY <1>0, Zenon DEF Issue, Types
<1>d. /\ SameHeld(v) /\ SameSend(v) /\ SameCount(v) /\ SameView(v) /\ SamePacket(v)
      /\ packets' = packets /\ visible' = visible /\ lines' = lines /\ reading' = reading
      /\ halted' = halted /\ pending' = pending /\ fed' = fed
  BY Zenon DEF Issue, SameHeld, SameSend, SameCount, SameView, SamePacket
<1>1. Types'
  <2>1. guest' \in [Vcpus -> {"run", "wait"}]
    BY <1>0, Zenon DEF Types, Issue
  <2>2. mailbox' \in [Vcpus -> Command \cup {None}]
    BY <1>0, Zenon DEF Types, Issue
  <2>3. ops' \in [Vcpus -> 0..MaxOps]
    BY <1>0, <1>b, MaxOpsAssumption DEF Types, Issue
  <2> QED
    BY <1>0, <2>1, <2>2, <2>3, Zenon DEF Types, Issue
<1>2. ASSUME NEW w \in Vcpus, w # v PROVE Good(w)'
  <2>1. SameClient(w)
    BY <1>0, <1>2, Zenon DEF Issue, Types, SameClient
  <2>2. Same(w)
    BY <2>1, Zenon DEF Issue, Same, SameHeld, SameSend, SameCount, SamePacket, SameView
  <2> QED
    BY <2>2, GoodKept, Zenon DEF IInv
<1>3. Good(v)'
  <2>1. Pending(v)' /\ Counts(v)' /\ Order(v)'
    BY <1>0, <1>d, PendingKept, CountsKept, OrderKept, Zenon DEF Good
  <2>2. Data(v)'
    <3>1. CASE c.kind \notin Ringing
      BY <1>0, <1>c, <1>d, <3>1, DataKept, Zenon DEF Good
    <3>2. CASE c.kind \in Ringing
      <4>1. ops'[v] = ops[v] + 1 /\ fed[v] \in Nat
        BY <1>0, <1>c, <3>2, Zenon DEF Types
      <4>2. \A n : /\ InQueue(v, n)' <=> InQueue(v, n)
                   /\ InMemory(v, n)' <=> InMemory(v, n)
        BY <1>d, Zenon DEF SameSend, InQueue, InMemory
      <4>3. atDevice'[v] = atDevice[v] /\ \A d \in atDevice[v] : d.op \in 1..MaxOps
        BY <1>0, <1>d DEF Types, SameSend, Doorbell
      <4>4. posted' = posted
        BY Zenon DEF Issue
      <4> QED
        BY <1>0, <1>a, <1>d, <4>1, <4>2, <4>3, <4>4, SMTT(30) DEF Good, Data
    <3> QED
      BY <3>1, <3>2, Zenon
  <2>3. Phase(v)'
    <3>1. mailbox'[v] # None /\ armed'[v] = None /\ flushing'[v] = None /\ Calm(v)'
      BY <1>0, <1>c, <1>d, NoneAssumption, Zenon DEF Idle, SameHeld, SameSend, Calm, Plain
    <3>2. ASSUME c.kind \in Ringing
          PROVE  Fresh(v)' /\ visible'[<<v, ops'[v]>>] = 0 /\ <<v, ops'[v]>> \notin posted'
      <4>1. ops'[v] = ops[v] + 1 /\ ops'[v] \in 1..MaxOps
        BY <1>b, <1>c, <3>2, Zenon
      <4>2. visible'[<<v, ops'[v]>>] = 0 /\ <<v, ops'[v]>> \notin posted'
        BY <1>0, <1>a, <1>d, <4>1, SMTT(30) DEF Good, Data, SameView
      <4>3. \A d \in atDevice'[v] : d.op # ops'[v]
        BY <1>0, <1>a, <1>d, <4>1, SMTT(30) DEF Good, Data, SameSend, Types, Doorbell
      <4>4. ~InQueue(v, ops'[v])
        BY <1>0, <1>a, <4>1 DEF Good, Data
      <4>5. \A t \in Nat : <<<<v, ops'[v]>>, t>> \notin tickets'
        BY <1>0, <1>d, <4>1, <4>2, Zenon DEF Good, Order, SameView
      <4> QED
        BY <1>a, <1>d, <4>1, <4>2, <4>3, <4>4, <4>5, SMTT(30) DEF Fresh, InQueue, SameSend
    <3> QED
      BY <1>c, <3>1, <3>2, Zenon DEF Phase, InMailbox
  <2> QED
    BY <2>1, <2>2, <2>3, Zenon DEF Good
<1>4. Global'
  BY <1>0, Zenon DEF Issue, Global, JoinMeansDone, HeldOpen
<1> QED
  BY <1>1, <1>2, <1>3, <1>4, Zenon DEF IInv

\* A core halts: the packets it has not issued are cut off.
LEMMA HaltStep ==
    ASSUME IInv, NEW v \in Vcpus, Halt(v)
    PROVE  IInv'
<1> USE DEF client, held, engine, view
<1>0. Types /\ Global /\ Good(v)
  BY Zenon DEF IInv
<1>1. Types'
  BY <1>0, Zenon DEF Types, Halt
<1>2. ASSUME NEW w \in Vcpus, w # v PROVE Good(w)'
  <2>1. w \in halted' <=> w \in halted
    BY <1>2, Zenon DEF Halt
  <2>2. Same(w)
    BY <2>1, Zenon DEF Halt, Same, SameClient, SameHeld, SameSend, SameCount, SamePacket, SameView
  <2> QED
    BY <2>2, GoodKept, Zenon DEF IInv
<1>3. Good(v)'
  <2>1. halted \subseteq halted'
    BY Zenon DEF Halt
  <2>2. Pending(v)' /\ Counts(v)' /\ Order(v)'
    BY <1>0, PendingKept, CountsKept, OrderKept, Zenon
    DEF Good, Halt, SameHeld, SameSend, SameCount, SameView
  <2>3. Data(v)'
    <3>1. \A n : InMemory(v, n) => InMemory(v, n)'
      BY <2>1, Zenon DEF InMemory, Halt
    <3>2. \A n : InQueue(v, n)' <=> InQueue(v, n)
      BY Zenon DEF InQueue, Halt
    <3> QED
      BY <1>0, <3>1, <3>2, Zenon DEF Good, Data, Halt
  <2>4. Phase(v)'
    <3>1. (Plain(v)' <=> Plain(v)) /\ (Calm(v)' <=> Calm(v)) /\ (Fresh(v)' <=> Fresh(v))
      BY Zenon DEF Halt, Plain, Calm, Fresh, InQueue
    <3>2. CutOff(v, ops[v]) => CutOff(v, ops[v])'
      BY <2>1, Zenon DEF CutOff, Halt
    <3> QED
      BY <1>0, <3>1, <3>2, ZenonT(60)
      DEF Good, Phase, Idle, InMailbox, IsArmed, IsFlushing, IsSent, IsReading, Halt
  <2> QED
    BY <2>2, <2>3, <2>4, Zenon DEF Good
<1>4. Global'
  BY <1>0, Zenon DEF Halt, Global, JoinMeansDone, HeldOpen
<1> QED
  BY <1>1, <1>2, <1>3, <1>4, Zenon DEF IInv

\* A core that issues stores has not halted, so none of its packets is cut off.
LEMMA FeedStep ==
    ASSUME IInv, NEW v \in Vcpus, Feed(v)
    PROVE  IInv'
<1> USE DEF client, held, engine, view
<1>0. Types /\ Global /\ Good(v) /\ v \notin halted
  BY Zenon DEF IInv, Feed
<1>a. PICK k \in fed[v]..ops[v] : fed' = [fed EXCEPT ![v] = k]
  BY Zenon DEF Feed
<1>b. k \in Nat /\ k <= ops[v] /\ fed'[v] = k
  <2>1. fed \in [Vcpus -> Nat] /\ ops[v] \in 0..MaxOps
    BY <1>0, Zenon DEF Types
  <2>2. fed[v] \in Nat
    BY <2>1
  <2> QED
    BY <1>a, <2>1, <2>2, MaxOpsAssumption
<1>c. pending' = [pending EXCEPT ![v] = TRUE] /\ pending'[v]
  BY <1>0, Zenon DEF Feed, Types
<1>1. Types'
  <2>1. fed' \in [Vcpus -> Nat] /\ pending' \in [Vcpus -> BOOLEAN]
    BY <1>0, <1>a, <1>b, <1>c, Zenon DEF Types
  <2> QED
    BY <1>0, <2>1, Zenon DEF Types, Feed
<1>2. ASSUME NEW w \in Vcpus, w # v PROVE Good(w)'
  <2>1. pending'[w] = pending[w] /\ fed'[w] = fed[w]
    BY <1>0, <1>2, <1>a, <1>c, Zenon DEF Types
  <2>2. Same(w)
    BY <2>1, Zenon DEF Feed, Same, SameClient, SameHeld, SameSend, SameCount, SamePacket, SameView
  <2> QED
    BY <2>2, GoodKept, Zenon DEF IInv
<1>3. Good(v)'
  <2>1. Pending(v)' /\ Counts(v)' /\ Order(v)'
    BY <1>0, PendingKept, CountsKept, OrderKept, Zenon
    DEF Good, Feed, SameHeld, SameSend, SameCount, SameView
  <2>2. Data(v)'
    <3>1. \A n : InMemory(v, n) => InMemory(v, n)'
      BY <1>0, Zenon DEF InMemory, Feed
    <3>2. \A n : InQueue(v, n)' <=> InQueue(v, n)
      BY Zenon DEF InQueue, Feed
    <3> QED
      BY <1>0, <1>b, <1>c, <3>1, <3>2, ZenonT(60) DEF Good, Data, Feed
  <2>3. Phase(v)'
    <3>1. (Plain(v)' <=> Plain(v)) /\ (Calm(v)' <=> Calm(v)) /\ (Fresh(v)' <=> Fresh(v))
      BY Zenon DEF Feed, Plain, Calm, Fresh, InQueue
    <3>2. ~CutOff(v, ops[v])
      BY <1>0, Zenon DEF CutOff
    <3> QED
      BY <1>0, <3>1, <3>2, ZenonT(60)
      DEF Good, Phase, Idle, InMailbox, IsArmed, IsFlushing, IsSent, IsReading, Feed
  <2> QED
    BY <2>1, <2>2, <2>3, Zenon DEF Good
<1>4. Global'
  BY <1>0, Zenon DEF Feed, Global, JoinMeansDone, HeldOpen
<1> QED
  BY <1>1, <1>2, <1>3, <1>4, Zenon DEF IInv

\* The answers put the packets that were issued in the cache.
LEMMA SettleStep ==
    ASSUME IInv, NEW v \in Vcpus, Settle(v)
    PROVE  IInv'
<1> USE DEF client, held, engine, view
<1>0. Types /\ Global /\ Good(v)
  BY Zenon DEF IInv
<1>1. Types'
  <2>1. pending' \in [Vcpus -> BOOLEAN]
    BY <1>0, Zenon DEF Types, Settle
  <2> QED
    BY <1>0, <2>1, ZenonT(30) DEF Types, Settle
<1>2. ASSUME NEW w \in Vcpus, w # v PROVE Good(w)'
  <2>1. pending'[w] = pending[w]
    BY <1>0, <1>2, Zenon DEF Settle, Types
  <2>2. \A n : <<w, n>> \in packets' <=> <<w, n>> \in packets
    BY <1>2, Zenon DEF Settle
  <2>3. Same(w)
    BY <2>1, <2>2, Zenon
    DEF Settle, Same, SameClient, SameHeld, SameSend, SameCount, SamePacket, SameView
  <2> QED
    BY <2>3, GoodKept, Zenon DEF IInv
<1>3. Good(v)'
  <2>1. \A n \in 1..MaxOps : n <= fed[v] => <<v, n>> \in packets'
    BY <1>0 DEF Settle, Types
  <2>2. packets \subseteq packets'
    BY Zenon DEF Settle
  <2>3. Pending(v)' /\ Counts(v)' /\ Order(v)'
    BY <1>0, PendingKept, CountsKept, OrderKept, Zenon
    DEF Good, Settle, SameHeld, SameSend, SameCount, SameView
  <2>4. Data(v)'
    <3>1. \A n : InMemory(v, n) => InMemory(v, n)'
      BY <2>2, Zenon DEF InMemory, Settle
    <3>2. \A n : InQueue(v, n)' <=> InQueue(v, n)
      BY Zenon DEF InQueue, Settle
    <3> QED
      BY <1>0, <2>1, <3>1, <3>2, Zenon DEF Good, Data, Settle
  <2>5. Phase(v)'
    <3>1. (Plain(v)' <=> Plain(v)) /\ (Calm(v)' <=> Calm(v)) /\ (Fresh(v)' <=> Fresh(v))
      BY Zenon DEF Settle, Plain, Calm, Fresh, InQueue
    <3>2. CutOff(v, ops[v]) => CutOff(v, ops[v])'
      BY Zenon DEF CutOff, Settle
    <3> QED
      BY <1>0, <2>2, <3>1, <3>2, ZenonT(60)
      DEF Good, Phase, Idle, InMailbox, IsArmed, IsFlushing, IsSent, IsReading, Settle
  <2> QED
    BY <2>3, <2>4, <2>5, Zenon DEF Good
<1>4. Global'
  BY <1>0, Zenon DEF Settle, Global, JoinMeansDone, HeldOpen
<1> QED
  BY <1>1, <1>2, <1>3, <1>4, Zenon DEF IInv

-----------------------------------------------------------------------------
(* Steps that end the simulation.                                          *)

LEMMA AbortStep ==
    ASSUME IInv, NEW why, why # "nested", Alive, Abort(why)
    PROVE  IInv'
<1> USE DEF client, pipe, packet, held, engine, view
<1>1. ASSUME NEW w \in Vcpus PROVE Good(w)'
  <2>1. Same(w)
    BY Zenon DEF Abort, Same, SameClient, SameHeld, SameSend, SameCount, SamePacket, SameView
  <2> QED
    BY <2>1, GoodKept, Zenon DEF IInv
<1>2. Types' /\ Global'
  BY Zenon DEF IInv, Types, Global, Abort, JoinMeansDone, HeldOpen
<1> QED
  BY <1>1, <1>2, Zenon DEF IInv

\* Nothing is in flight when the simulation ends, so every submit is done.
LEMMA EndSimStep ==
    ASSUME IInv, EndSim
    PROVE  IInv'
<1> USE DEF client, pipe, packet, held, engine, view
<1>0. Types /\ Global /\ \A v \in Vcpus : Good(v)
  BY Zenon DEF IInv
<1>1. ASSUME NEW w \in Vcpus PROVE Good(w)'
  <2>1. Same(w)
    BY Zenon DEF EndSim, Same, SameClient, SameHeld, SameSend, SameCount, SamePacket, SameView
  <2> QED
    BY <2>1, GoodKept, Zenon DEF IInv
<1>2. Types'
  BY <1>0, Zenon DEF Types, EndSim
<1>3. inFlight = 0
  BY <1>0 DEF EndSim, HasOutstanding, Types
<1>4. posted \subseteq done
  <2> SUFFICES ASSUME NEW v \in Vcpus, NEW n \in 1..MaxOps, <<v, n>> \in posted
               PROVE  <<v, n>> \in done
    BY <1>0 DEF Types, Op
  <2>1. submitted[v] = completed[v]
    <3>1. CASE v = asyncVcpu
      BY <1>0, <1>3, <3>1 DEF Global, Types
    <3>2. CASE v # asyncVcpu
      <4>1. submitted[v] = 0 /\ completed[v] \in Nat /\ Len(queue[v]) \in Nat
        BY <1>0, <3>2, LenProperties, Zenon DEF Global, Types
      <4>2. submitted[v] = completed[v] + Held(v) + Len(queue[v]) + (IF busy[v] THEN 1 ELSE 0)
        BY <1>0, Zenon DEF Good, Counts
      <4> QED
        BY <4>1, <4>2, SMTT(30) DEF Held
    <3> QED
      BY <3>1, <3>2, Zenon
  <2>2. Len(queue[v]) \in Nat /\ completed[v] \in Nat
    BY <1>0, LenProperties, Zenon DEF Types
  <2>3. Held(v) = 0 /\ Len(queue[v]) = 0 /\ ~busy[v]
    BY <1>0, <2>1, <2>2, SMTT(30) DEF Good, Counts, Held
  <2>4. ~HeldBack(v, n) /\ ~InQueue(v, n) /\ ~Posted(v, n)
    BY <1>0, <2>3 DEF Good, Counts, Held, HeldBack, InQueue, Posted
  <2> QED
    BY <1>0, <2>4, Zenon DEF Good, Pending
<1>5. Global'
  BY <1>0, <1>4, Zenon DEF Global, EndSim, JoinMeansDone, HeldOpen
<1> QED
  BY <1>1, <1>2, <1>5, Zenon DEF IInv

-----------------------------------------------------------------------------
(* Reads, and the registers of the async aperture.                         *)

LEMMA Polled ==
    ASSUME NEW v \in Vcpus, Phase(v), mailbox[v] # None
    PROVE  InMailbox(v)
BY Zenon DEF Phase, Idle, InMailbox, IsArmed, IsFlushing, IsSent, IsReading

LEMMA HandleReadStep ==
    ASSUME IInv, NEW v \in Vcpus, HandleRead(v)
    PROVE  IInv'
<1> USE DEF pipe, packet, held, engine, view
<1>0. Types /\ Global /\ Good(v) /\ InMailbox(v)
  BY Polled, Zenon DEF IInv, Good, HandleRead
<1>1. Types'
  <2>1. mailbox' \in [Vcpus -> Command \cup {None}]
    BY <1>0, Zenon DEF Types, HandleRead, Take
  <2> QED
    BY <1>0, <2>1, Zenon DEF Types, HandleRead
<1>2. ASSUME NEW w \in Vcpus, w # v PROVE Good(w)'
  <2>1. mailbox'[w] = mailbox[w] /\ (w \in reading' <=> w \in reading)
    BY <1>0, <1>2, Zenon DEF HandleRead, Take, Types
  <2>2. Same(w)
    BY <2>1, Zenon DEF HandleRead, Same, SameClient, SameHeld, SameSend, SameCount, SamePacket, SameView
  <2> QED
    BY <2>2, GoodKept, Zenon DEF IInv
<1>3. Good(v)'
  <2>1. mailbox'[v] = None /\ v \in reading'
    BY <1>0, Zenon DEF HandleRead, Take, Types
  <2>2. Pending(v)' /\ Counts(v)' /\ Order(v)' /\ Data(v)'
    BY <1>0, PendingKept, CountsKept, OrderKept, DataKept, Zenon
    DEF Good, HandleRead, SameHeld, SameSend, SameCount, SameView, SamePacket
  <2>3. Phase(v)'
    BY <1>0, <2>1, Zenon DEF Phase, InMailbox, IsReading, HandleRead, Calm, Plain
  <2> QED
    BY <2>2, <2>3, Zenon DEF Good
<1>4. Global'
  BY <1>0, Zenon DEF HandleRead, Global, JoinMeansDone, HeldOpen
<1> QED
  BY <1>1, <1>2, <1>3, <1>4, Zenon DEF IInv

LEMMA RespondReadStep ==
    ASSUME IInv, NEW v \in Vcpus, RespondRead(v)
    PROVE  IInv'
<1> USE DEF pipe, packet, held, engine, view
<1>0. Types /\ Global /\ Good(v) /\ IsReading(v)
  BY Zenon DEF IInv, Good, RespondRead, Phase, Idle, InMailbox, IsArmed, IsFlushing, IsSent, Calm
<1>1. Types'
  <2>1. guest' \in [Vcpus -> {"run", "wait"}]
    BY <1>0, Zenon DEF Types, RespondRead, PostResponse
  <2> QED
    BY <1>0, <2>1, Zenon DEF Types, RespondRead
<1>2. ASSUME NEW w \in Vcpus, w # v PROVE Good(w)'
  <2>1. guest'[w] = guest[w] /\ (w \in reading' <=> w \in reading)
    BY <1>0, <1>2, Zenon DEF RespondRead, PostResponse, Types
  <2>2. Same(w)
    BY <2>1, Zenon DEF RespondRead, Same, SameClient, SameHeld, SameSend, SameCount, SamePacket, SameView
  <2> QED
    BY <2>2, GoodKept, Zenon DEF IInv
<1>3. Good(v)'
  <2>1. guest'[v] = "run" /\ v \notin reading'
    BY <1>0, Zenon DEF RespondRead, PostResponse, Types
  <2>2. Pending(v)' /\ Counts(v)' /\ Order(v)' /\ Data(v)'
    BY <1>0, PendingKept, CountsKept, OrderKept, DataKept, Zenon
    DEF Good, RespondRead, SameHeld, SameSend, SameCount, SameView, SamePacket
  <2>3. Phase(v)'
    BY <1>0, <2>1, Zenon DEF Phase, IsReading, Idle, RespondRead, Calm, Plain
  <2> QED
    BY <2>2, <2>3, Zenon DEF Good
<1>4. Global'
  BY <1>0, Zenon DEF RespondRead, Global, JoinMeansDone, HeldOpen
<1> QED
  BY <1>1, <1>2, <1>3, <1>4, Zenon DEF IInv

LEMMA RefusalFacts ==
    ASSUME NEW v \in Vcpus
    PROVE  /\ Refusal(v) = "" =>
                /\ asyncVcpu = None \/ asyncVcpu = v
                /\ mailbox[v].kind = "submit" => v \in HasMem /\ ~(inFlight + 1 > Depth)
           /\ Refusal(v) = "nested" => armed[v] # None \/ flushing[v] # None
BY Zenon DEF Refusal

\* The first vCPU to use the aperture owns the counters.
LEMMA Claim ==
    ASSUME Types, Global, NEW v \in Vcpus, Good(v), asyncVcpu = None \/ asyncVcpu = v
    PROVE  /\ submitted[v] = completed[v] + inFlight
           /\ \A w \in Vcpus : w # v => w # asyncVcpu /\ submitted[w] = 0
<1>1. CASE asyncVcpu = v
  BY <1>1, Zenon DEF Global
<1>2. CASE asyncVcpu = None
  <2>1. inFlight = 0 /\ \A w \in Vcpus : w # asyncVcpu /\ submitted[w] = 0
    BY <1>2, NoneAssumption, Zenon DEF Global
  <2>2. completed[v] \in Nat /\ Len(queue[v]) \in Nat
    BY LenProperties, Zenon DEF Types
  <2>3. completed[v] = 0
    BY <2>1, <2>2 DEF Good, Counts, Held
  <2> QED
    BY <2>1, <2>3
<1> QED
  BY <1>1, <1>2, Zenon

LEMMA RefuseStep ==
    ASSUME IInv, NEW v \in Vcpus, RefuseAsync(v)
    PROVE  IInv'
<1>1. InMailbox(v)
  BY Polled, Zenon DEF IInv, Good, RefuseAsync, InAperture
<1>2. Refusal(v) # "nested"
  BY <1>1, RefusalFacts, Zenon DEF InMailbox
<1> QED
  BY <1>2, AbortStep, Zenon DEF RefuseAsync

LEMMA IgnoreStep ==
    ASSUME IInv, NEW v \in Vcpus, IgnoreWrite(v)
    PROVE  IInv'
<1> USE DEF pipe, packet, held, view
<1>0. Types /\ Global /\ Good(v) /\ InMailbox(v) /\ (asyncVcpu = None \/ asyncVcpu = v)
  BY Polled, RefusalFacts, Zenon DEF IInv, Good, IgnoreWrite, InAperture
<1>1. Types'
  <2>1. guest' \in [Vcpus -> {"run", "wait"}]
    BY <1>0, Zenon DEF Types, IgnoreWrite, PostResponse
  <2>2. mailbox' \in [Vcpus -> Command \cup {None}]
    BY <1>0, Zenon DEF Types, IgnoreWrite, Take
  <2> QED
    BY <1>0, <2>1, <2>2, Zenon DEF Types, IgnoreWrite
<1>2. ASSUME NEW w \in Vcpus, w # v PROVE Good(w)'
  <2>1. guest'[w] = guest[w] /\ mailbox'[w] = mailbox[w]
    BY <1>0, <1>2, Zenon DEF IgnoreWrite, Take, PostResponse, Types
  <2>2. Same(w)
    BY <2>1, Zenon DEF IgnoreWrite, Same, SameClient, SameHeld, SameSend, SameCount, SamePacket, SameView
  <2> QED
    BY <2>2, GoodKept, Zenon DEF IInv
<1>3. Good(v)'
  <2>1. guest'[v] = "run" /\ mailbox'[v] = None
    BY <1>0, Zenon DEF IgnoreWrite, PostResponse, Take, Types
  <2>2. Pending(v)' /\ Counts(v)' /\ Order(v)' /\ Data(v)'
    BY <1>0, PendingKept, CountsKept, OrderKept, DataKept, Zenon
    DEF Good, IgnoreWrite, SameHeld, SameSend, SameCount, SameView, SamePacket
  <2>3. Phase(v)'
    BY <1>0, <2>1, Zenon DEF Phase, InMailbox, Idle, IgnoreWrite, Calm, Plain
  <2> QED
    BY <2>2, <2>3, Zenon DEF Good
<1>4. Global'
  <2>1. /\ submitted[v] = completed[v] + inFlight
        /\ \A w \in Vcpus : w # v => submitted[w] = 0
    BY <1>0, Claim, Zenon
  <2>2. asyncVcpu' = v /\ v # None
    BY NoneAssumption, Zenon DEF IgnoreWrite
  <2> QED
    BY <1>0, <2>1, <2>2, Zenon DEF IgnoreWrite, Global, JoinMeansDone, HeldOpen
<1> QED
  BY <1>1, <1>2, <1>3, <1>4, Zenon DEF IInv

\* A ticket is TICKET, which is beyond COMPLETED by at least the operation and
\* all that is queued up to it; so COMPLETED reaches it when the operation is done.
LEMMA ReadStep ==
    ASSUME IInv, NEW v \in Vcpus, ReadRegister(v)
    PROVE  IInv'
<1> USE DEF pipe, packet, held
<1>0. Types /\ Global /\ Good(v) /\ InMailbox(v) /\ (asyncVcpu = None \/ asyncVcpu = v)
  BY Polled, RefusalFacts, Zenon DEF IInv, Good, ReadRegister, InAperture
<1>a. PICK off, value :
        /\ off = TICKET => value = submitted[v]
        /\ off = COMPLETED => value = completed[v]
        /\ tickets' = IF off = TICKET THEN tickets \cup NewTicket(v, value) ELSE tickets
        /\ joined' = IF off = COMPLETED
                     THEN joined \cup {t[1] : t \in {u \in tickets : u[1][1] = v /\ u[2] <= value}}
                     ELSE joined
  <2>1. mailbox[v].off = TICKET => RegValue(v, mailbox[v].off) = submitted[v]
    BY DEF RegValue, TICKET, STATUS, COMPLETED, RESULT
  <2>2. mailbox[v].off = COMPLETED => RegValue(v, mailbox[v].off) = completed[v]
    BY DEF RegValue, TICKET, STATUS, COMPLETED, RESULT
  <2> QED
    BY <2>1, <2>2, Zenon DEF ReadRegister
<1>b. \A w, n, t : <<<<w, n>>, t>> \in tickets' /\ <<<<w, n>>, t>> \notin tickets =>
        w = v /\ n \in 1..MaxOps /\ t = submitted[v] /\ <<v, n>> \in posted
  <2>1. \A u \in NewTicket(v, value) : \E n \in 1..MaxOps :
          u = <<<<v, n>>, value>> /\ <<v, n>> \in posted
    BY Zenon DEF NewTicket
  <2>2. ASSUME NEW w, NEW n, NEW t, <<<<w, n>>, t>> \in tickets', <<<<w, n>>, t>> \notin tickets
        PROVE  w = v /\ n \in 1..MaxOps /\ t = submitted[v] /\ <<v, n>> \in posted
    <3>1. off = TICKET /\ <<<<w, n>>, t>> \in NewTicket(v, value)
      BY <1>a, <2>2, Zenon
    <3>2. PICK m \in 1..MaxOps : <<<<w, n>>, t>> = <<<<v, m>>, value>> /\ <<v, m>> \in posted
      BY <2>1, <3>1, Zenon
    <3> QED
      BY <1>a, <3>1, <3>2, Zenon
  <2> QED
    BY <2>2, Zenon
<1>c. tickets \subseteq tickets'
  BY <1>a, Zenon
<1>1. Types'
  <2>1. guest' \in [Vcpus -> {"run", "wait"}]
    BY <1>0, Zenon DEF Types, ReadRegister, PostResponse
  <2>2. mailbox' \in [Vcpus -> Command \cup {None}]
    BY <1>0, Zenon DEF Types, ReadRegister, Take
  <2>3. tickets' \subseteq Op \X Nat
    <3>1. submitted[v] \in Nat
      BY <1>0, Zenon DEF Types
    <3> QED
      <4>1. \A t \in NewTicket(v, submitted[v]) : \E n \in 1..MaxOps : t = <<<<v, n>>, submitted[v]>>
        BY Zenon DEF NewTicket
      <4>2. NewTicket(v, submitted[v]) \subseteq Op \X Nat
        BY <3>1, <4>1 DEF Op
      <4> QED
        BY <1>0, <1>a, <4>2, Zenon DEF Types
  <2> QED
    BY <1>0, <2>1, <2>2, <2>3, Zenon DEF Types, ReadRegister
<1>2. ASSUME NEW w \in Vcpus, w # v PROVE Good(w)'
  <2>1. guest'[w] = guest[w] /\ mailbox'[w] = mailbox[w]
    BY <1>0, <1>2, Zenon DEF ReadRegister, Take, PostResponse, Types
  <2>2. SameView(w)
    BY <1>b, <1>c, <1>2, Zenon DEF SameView, ReadRegister
  <2>3. Same(w)
    BY <2>1, <2>2, Zenon DEF ReadRegister, Same, SameClient, SameHeld, SameSend, SameCount, SamePacket
  <2> QED
    BY <2>3, GoodKept, Zenon DEF IInv
<1>3. Good(v)'
  <2>1. guest'[v] = "run" /\ mailbox'[v] = None
    BY <1>0, Zenon DEF ReadRegister, PostResponse, Take, Types
  <2>2. Pending(v)' /\ Data(v)'
    BY <1>0, Zenon DEF Good, ReadRegister, Pending, Data, InMemory, InQueue, HeldBack, Posted
  <2>3. Counts(v)'
    BY <1>0, CountsKept, Zenon DEF Good, ReadRegister, SameHeld, SameSend, SameCount
  <2>4. Order(v)'
    <3>1. SUFFICES ASSUME NEW n \in 1..MaxOps, NEW t \in Nat, <<<<v, n>>, t>> \in tickets'
                   PROVE  /\ <<v, n>> \in posted
                          /\ Posted(v, n) => t > completed[v]
                          /\ \A i \in 1..Len(queue[v]) : queue[v][i] = n => t > completed[v] + i
      BY Zenon DEF Order, ReadRegister, Posted
    <3>2. CASE <<<<v, n>>, t>> \in tickets
      BY <1>0, <3>2, Zenon DEF Good, Order
    <3>3. CASE <<<<v, n>>, t>> \notin tickets
      <4>1. t = submitted[v] /\ <<v, n>> \in posted
        BY <1>b, <3>1, <3>3, SMTT(30)
      <4>2. Len(queue[v]) \in Nat /\ completed[v] \in Nat /\ Held(v) \in Nat
        BY <1>0, LenProperties, Zenon DEF Types, Held
      <4>3. busy[v] => t >= completed[v] + Len(queue[v]) + 1
        <5>1. submitted[v] \in Nat
          BY <1>0, Zenon DEF Types
        <5>2. busy[v] => submitted[v] = completed[v] + Held(v) + Len(queue[v]) + 1
          BY <1>0, Zenon DEF Good, Counts
        <5> QED
          BY <4>1, <4>2, <5>1, <5>2, Sums, Zenon
      <4>4. Posted(v, n) => busy[v]
        BY <1>0, Zenon DEF Good, Counts, Posted
      <4>5. \A i \in 1..Len(queue[v]) : busy[v]
        <5>1. queue[v] = <<>> => 1..Len(queue[v]) = {}
          BY EmptyFacts, Zenon
        <5> QED
          BY <1>0, <5>1, Zenon DEF Good, Counts
      <4> QED
        BY <3>1, <4>1, <4>2, <4>3, <4>4, <4>5, Sums, ZenonT(60)
    <3> QED
      BY <3>2, <3>3, Zenon
  <2>5. Phase(v)'
    BY <1>0, <2>1, Zenon DEF Phase, InMailbox, Idle, ReadRegister, Calm, Plain
  <2> QED
    BY <2>2, <2>3, <2>4, <2>5, Zenon DEF Good
<1>4. Global'
  <2>1. /\ submitted[v] = completed[v] + inFlight
        /\ \A w \in Vcpus : w # v => submitted[w] = 0
    BY <1>0, Claim, Zenon
  <2>2. asyncVcpu' = v /\ v # None
    BY NoneAssumption, Zenon DEF ReadRegister
  <2>3. ASSUME off = COMPLETED, NEW u \in tickets, u[1][1] = v, u[2] <= completed[v]
        PROVE  u[1] \in done
    <3>1. PICK n \in 1..MaxOps, t \in Nat : u = <<<<v, n>>, t>>
      BY <1>0, <2>3, SMTT(30) DEF Types, Op
    <3>2. completed[v] \in Nat /\ t <= completed[v]
      BY <1>0, <2>3, <3>1, SMTT(30) DEF Types
    <3>3. <<v, n>> \in posted /\ ~Posted(v, n) /\ ~InQueue(v, n)
      <4>1. /\ <<v, n>> \in posted
            /\ Posted(v, n) => t > completed[v]
            /\ \A i \in 1..Len(queue[v]) : queue[v][i] = n => t > completed[v] + i
        BY <1>0, <2>3, <3>1, Zenon DEF Good, Order
      <4>2. ~(t > completed[v]) /\ \A i \in 1..Len(queue[v]) : ~(t > completed[v] + i)
        BY <3>2
      <4> QED
        BY <4>1, <4>2, Zenon DEF InQueue
    <3>4. ~HeldBack(v, n)
      BY <1>0, Zenon DEF InMailbox, HeldBack
    <3> QED
      BY <1>0, <3>1, <3>3, <3>4, Zenon DEF Good, Pending
  <2>4. joined' \subseteq done
    BY <1>0, <1>a, <2>3, Zenon DEF Global, JoinMeansDone
  <2> QED
    BY <1>0, <2>1, <2>2, <2>4, ZenonT(60) DEF ReadRegister, Global, JoinMeansDone, HeldOpen
<1> QED
  BY <1>1, <1>2, <1>3, <1>4, Zenon DEF IInv

-----------------------------------------------------------------------------
(* Forwarding a doorbell.                                                  *)

LEMMA DoorbellFacts ==
    /\ \A d \in Doorbell : d.op \in 1..MaxOps /\ d.async \in BOOLEAN /\ d # None
    /\ \A d \in Flush : /\ d.op \in 1..MaxOps /\ d.async \in BOOLEAN /\ d # None
                        /\ d.remaining \in Nat \ {0}
    /\ \A n \in 1..MaxOps : \A b \in BOOLEAN : [op |-> n, async |-> b] \in Doorbell
BY NoneAssumption, Zenon DEF Doorbell, Flush

LEMMA ForwardOthers ==
    ASSUME Types, NEW v \in Vcpus, NEW d \in Doorbell,
           ForwardDoorbell(v, d, FALSE, queue, busy, atDevice)
    PROVE  /\ guest' \in [Vcpus -> {"run", "wait"}]
           /\ queue' \in [Vcpus -> Seq(1..MaxOps)]
           /\ busy' \in [Vcpus -> BOOLEAN]
           /\ atDevice' \in [Vcpus -> SUBSET Doorbell]
           /\ \A w \in Vcpus : w # v => guest'[w] = guest[w] /\ SameSend(w)
<1>0. d.op \in 1..MaxOps /\ d.async \in BOOLEAN
  BY DoorbellFacts, Zenon
<1>1. guest' \in [Vcpus -> {"run", "wait"}] /\ \A w \in Vcpus : w # v => guest'[w] = guest[w]
  BY Zenon DEF ForwardDoorbell, PostResponse, Types
<1>2. queue' \in [Vcpus -> Seq(1..MaxOps)] /\ \A w \in Vcpus : w # v => queue'[w] = queue[w]
  <2>1. Append(queue[v], d.op) \in Seq(1..MaxOps)
    BY <1>0, AppendProperties, Zenon DEF Types
  <2> QED
    BY <2>1, ZenonT(30) DEF ForwardDoorbell, Types
<1>3. busy' \in [Vcpus -> BOOLEAN] /\ \A w \in Vcpus : w # v => busy'[w] = busy[w]
  BY <1>0, Zenon DEF ForwardDoorbell, Types
<1>4. /\ atDevice' \in [Vcpus -> SUBSET Doorbell]
      /\ \A w \in Vcpus : w # v => atDevice'[w] = atDevice[w]
  <2>1. /\ atDevice \in [Vcpus -> SUBSET Doorbell]
        /\ \/ atDevice' = atDevice
           \/ atDevice' = [atDevice EXCEPT ![v] = @ \cup {d}]
    BY Zenon DEF ForwardDoorbell, Types
  <2>2. atDevice[v] \cup {d} \in SUBSET Doorbell
    BY <2>1, Zenon
  <2> QED
    BY <2>1, <2>2, Zenon
<1> QED
  BY <1>1, <1>2, <1>3, <1>4, Zenon DEF SameSend

\* v waits for the answer to its current command, and d is that command's doorbell.
Sendable(v, d) ==
    /\ Fresh(v) /\ Calm(v) /\ guest[v] = "wait"
    /\ d.op = ops[v] /\ (d.async <=> <<v, ops[v]>> \in posted)
    /\ Held(v) = IF d.async THEN 1 ELSE 0
    /\ \A n \in 1..MaxOps : HeldBack(v, n) => d.async /\ n = ops[v]

\* The step forwards d and changes nothing else of v that the invariant reads,
\* except that it may fill the packet of the current command.
Forwards(v, d) ==
    /\ ForwardDoorbell(v, d, FALSE, queue, busy, atDevice)
    /\ mailbox'[v] = None /\ armed'[v] = None /\ flushing'[v] = None /\ ops'[v] = ops[v]
    /\ reading' = reading /\ SameCount(v) /\ SameView(v)
    /\ pending'[v] = pending[v] /\ fed'[v] = fed[v] /\ lines' = lines /\ packets' = packets
    /\ v \in halted' <=> v \in halted
    /\ \A n \in 1..MaxOps : n # ops[v] => visible'[<<v, n>>] = visible[<<v, n>>]
    /\ d.async \/ (lines > 0 /\ v \in HasMem) => InMemory(v, ops[v])'

\* What forwarding the doorbell of v's current command does to v.
LEMMA ForwardGood ==
    ASSUME Types, NEW v \in Vcpus, NEW d \in Doorbell,
           Good(v), Sendable(v, d), Forwards(v, d)
    PROVE  Good(v)'
<1>0. /\ d.op \in 1..MaxOps /\ ops[v] \in 1..MaxOps /\ d.async \in BOOLEAN
      /\ \A e \in atDevice[v] : e \in Doorbell /\ e.op \in 1..MaxOps /\ e.async \in BOOLEAN
  BY DoorbellFacts, Zenon DEF Types, Sendable
<1>n. ops[v] \in Nat /\ \A n \in 1..MaxOps : n \in Nat
  BY <1>0
<1>a. queue[v] \in Seq(1..MaxOps) /\ Len(queue[v]) \in Nat /\ completed[v] \in Nat /\ Held(v) \in Nat
  BY LenProperties, Zenon DEF Types, Held
<1>b. Held(v)' = 0 /\ \A n \in 1..MaxOps : ~HeldBack(v, n)'
  BY Zenon DEF Held, HeldBack, Forwards
<1>c. \A n \in 1..MaxOps : n # ops[v] => (InMemory(v, n)' <=> InMemory(v, n))
  BY Zenon DEF InMemory, Forwards
<1>d. /\ \A n \in 1..MaxOps : n > ops[v] => visible'[<<v, n>>] = 0 /\ <<v, n>> \notin posted'
      /\ fed'[v] <= ops[v]
      /\ ~pending'[v] => \A n \in 1..MaxOps : n <= fed'[v] => <<v, n>> \in packets'
  <2>1. \A n \in 1..MaxOps : n > ops[v] => n # ops[v]
    BY <1>n, Sums, Zenon
  <2> QED
    BY <2>1, Zenon DEF Good, Data, SameView, Forwards
<1>1. CASE d.async /\ busy[v]
  <2>0. /\ queue'[v] = Append(queue[v], ops[v]) /\ busy'[v] = busy[v]
        /\ atDevice'[v] = atDevice[v] /\ guest'[v] = "run"
    <3>1. /\ queue' = [queue EXCEPT ![v] = Append(queue[v], ops[v])]
          /\ busy' = busy /\ atDevice' = atDevice /\ guest' = [guest EXCEPT ![v] = "run"]
      BY <1>1, Zenon DEF ForwardDoorbell, PostResponse, Forwards, Sendable
    <3>2. queue \in [Vcpus -> Seq(1..MaxOps)] /\ guest \in [Vcpus -> {"run", "wait"}]
      BY Zenon DEF Types
    <3> QED
      BY <3>1, <3>2, Zenon
  <2>a. /\ Len(queue'[v]) = Len(queue[v]) + 1 /\ queue'[v] # <<>>
        /\ \A i \in 1..Len(queue[v]) : queue'[v][i] = queue[v][i]
        /\ queue'[v][Len(queue[v]) + 1] = ops[v]
    <3>1. /\ Len(Append(queue[v], ops[v])) = Len(queue[v]) + 1 /\ Append(queue[v], ops[v]) # <<>>
          /\ \A i \in 1..Len(queue[v]) : Append(queue[v], ops[v])[i] = queue[v][i]
          /\ Append(queue[v], ops[v])[Len(queue[v]) + 1] = ops[v]
      BY <1>0, <1>a, AppendFacts, Zenon
    <3> QED
      BY <2>0, <3>1, Zenon
  <2>b. \A n : InQueue(v, n)' <=> InQueue(v, n) \/ n = ops[v]
    <3>1. 1..Len(queue'[v]) = (1..Len(queue[v])) \cup {Len(queue[v]) + 1}
      BY <1>a, <2>a, Sums, Zenon
    <3> QED
      BY <2>a, <3>1, Zenon DEF InQueue
  <2>c. \A n : Posted(v, n)' <=> Posted(v, n)
    BY <2>0, Zenon DEF Posted
  <2>1. Phase(v)'
    BY <2>0, Zenon DEF Phase, Idle, Calm, Plain, Sendable, Forwards
  <2>2. Data(v)'
    <3>1. \A n \in 1..MaxOps : InQueue(v, n)' => n <= ops[v] /\ InMemory(v, n)'
      <4>1. ASSUME NEW n \in 1..MaxOps, n = ops[v] PROVE n <= ops[v] /\ InMemory(v, n)'
        <5>1. InMemory(v, ops[v])' /\ ops'[v] = ops[v]
          BY <1>1, Zenon DEF Forwards
        <5>2. n = ops'[v] /\ n <= ops[v]
          BY <1>n, <4>1, <5>1, Sums
        <5> QED
          BY <5>1, <5>2, SMTT(30) DEF InMemory
      <4> QED
        <5>1. ASSUME NEW n \in 1..MaxOps, InQueue(v, n)', n # ops[v]
              PROVE  n <= ops[v] /\ InMemory(v, n)'
          BY <1>c, <2>b, <5>1, Zenon DEF Good, Data
        <5> QED
          BY <4>1, <5>1, Zenon
    <3>2. \A e \in atDevice[v] : e.op <= ops[v]
      BY Zenon DEF Good, Data
    <3>3. \A e \in atDevice[v] : e.async \/ (lines > 0 /\ v \in HasMem) => InMemory(v, e.op)'
      BY <1>0, <1>c, Zenon DEF Good, Data, Fresh, Sendable, Forwards
    <3> QED
      BY <1>d, <2>0, <3>1, <3>2, <3>3, Zenon DEF Data, Forwards
  <2>3. Pending(v)'
    BY <2>b, <2>c, Zenon DEF Good, Pending, SameView, Sendable, Forwards
  <2>4. Counts(v)'
    <3>1. submitted'[v] = completed'[v] + Held(v)' + Len(queue'[v]) + (IF busy'[v] THEN 1 ELSE 0)
      <4>1. submitted[v] = completed[v] + Held(v) + Len(queue[v]) + (IF busy[v] THEN 1 ELSE 0)
        BY Zenon DEF Good, Counts
      <4>2. Held(v) = 1 /\ busy[v] /\ busy'[v]
        BY <1>1, <2>0, Zenon DEF Sendable
      <4>3. submitted[v] = completed[v] + 0 + (Len(queue[v]) + 1) + 1
        <5>1. (IF busy[v] THEN 1 ELSE 0) = 1
          BY <4>2, Zenon
        <5>2. submitted[v] = completed[v] + 1 + Len(queue[v]) + 1
          BY <4>1, <4>2, <5>1, Zenon
        <5> QED
          BY <1>a, <5>2, Sums, ZenonT(60)
      <4>4. Len(queue'[v]) = Len(queue[v]) + 1 /\ Held(v)' = 0
        BY <1>b, <2>a, Zenon
      <4>5. submitted'[v] = submitted[v] /\ completed'[v] = completed[v]
        BY Zenon DEF SameCount, Forwards
      <4> QED
        BY <4>2, <4>3, <4>4, <4>5, Zenon
    <3> QED
      BY <1>1, <2>0, <3>1, Zenon DEF Good, Counts
  <2>5. Order(v)'
    <3>1. SUFFICES ASSUME NEW n \in 1..MaxOps, NEW t \in Nat, <<<<v, n>>, t>> \in tickets
                   PROVE  /\ <<v, n>> \in posted
                          /\ Posted(v, n) => t > completed[v]
                          /\ \A i \in 1..Len(queue'[v]) : queue'[v][i] = n => t > completed[v] + i
      BY <2>c, Zenon DEF Order, SameView, SameCount, Forwards
    <3>2. n # ops[v]
      BY <3>1, Zenon DEF Fresh, Sendable
    <3>3. \A i \in 1..Len(queue'[v]) : queue'[v][i] = n => i \in 1..Len(queue[v]) /\ queue[v][i] = n
      <4>1. ASSUME NEW i \in 1..Len(queue'[v]), queue'[v][i] = n
            PROVE  i \in 1..Len(queue[v])
        <5>1. i # Len(queue[v]) + 1
          BY <2>a, <3>2, <4>1, Zenon
        <5>2. i \in Nat
          BY <1>a, <2>a, SMTT(30)
        <5> QED
          BY <1>a, <2>a, <5>1, <5>2, Sums, Zenon
      <4> QED
        BY <2>a, <4>1, Zenon
    <3> QED
      BY <3>1, <3>3, Zenon DEF Good, Order
  <2> QED
    BY <2>1, <2>2, <2>3, <2>4, <2>5, Zenon DEF Good
<1>2. CASE ~(d.async /\ busy[v])
  <2>0. /\ queue'[v] = queue[v] /\ (busy'[v] <=> busy[v] \/ d.async)
        /\ atDevice'[v] = atDevice[v] \cup {d}
        /\ guest'[v] = IF d.async THEN "run" ELSE "wait"
    BY <1>2, Zenon DEF ForwardDoorbell, PostResponse, Types, Forwards, Sendable
  <2>b. \A n : InQueue(v, n)' <=> InQueue(v, n)
    BY <2>0, Zenon DEF InQueue
  <2>c. \A n : Posted(v, n)' <=> Posted(v, n) \/ (d.async /\ n = ops[v])
    BY <2>0, Zenon DEF Posted, Sendable
  <2>1. Phase(v)'
    <3>1. CASE d.async
      BY <2>0, <3>1, Zenon DEF Phase, Idle, Calm, Plain, Sendable, Forwards
    <3>2. CASE ~d.async
      <4>1. <<v, ops[v]>> \notin posted'
        BY <1>0, <3>2, Zenon DEF SameView, Sendable, Forwards
      <4> QED
        BY <2>0, <3>2, <4>1, Zenon DEF Phase, IsSent, Calm, Plain, Sendable, Forwards
    <3> QED
      BY <3>1, <3>2, Zenon
  <2>2. Data(v)'
    <3>1. \A n \in 1..MaxOps : InQueue(v, n)' => n <= ops[v] /\ InMemory(v, n)'
      BY <1>0, <1>c, <2>b, Zenon DEF Good, Data, Fresh, Sendable, Forwards
    <3>2. \A e \in atDevice'[v] : e.op <= ops[v]
      <4>1. d.op <= ops[v]
        BY <1>n, Sums, Zenon DEF Sendable
      <4> QED
        BY <2>0, <4>1, Zenon DEF Good, Data
    <3>3. \A e \in atDevice'[v] : e.async \/ (lines > 0 /\ v \in HasMem) => InMemory(v, e.op)'
      BY <1>0, <1>c, <2>0, Zenon DEF Good, Data, Fresh, Sendable, Forwards
    <3> QED
      BY <1>d, <3>1, <3>2, <3>3, Zenon DEF Data, Forwards
  <2>3. Pending(v)'
    BY <2>b, <2>c, Zenon DEF Good, Pending, SameView, Sendable, Forwards
  <2>4. Counts(v)'
    <3>1. submitted'[v] = completed'[v] + Held(v)' + Len(queue'[v]) + (IF busy'[v] THEN 1 ELSE 0)
      <4>1. submitted[v] = completed[v] + Held(v) + Len(queue[v]) + (IF busy[v] THEN 1 ELSE 0)
        BY Zenon DEF Good, Counts
      <4>2. /\ submitted'[v] = submitted[v] /\ completed'[v] = completed[v]
            /\ Len(queue'[v]) = Len(queue[v]) /\ Held(v)' = 0
        BY <1>b, <2>0, Zenon DEF SameCount, Forwards
      <4>3. CASE d.async
        <5>1. (IF busy[v] THEN 1 ELSE 0) = 0 /\ (IF busy'[v] THEN 1 ELSE 0) = 1 /\ Held(v) = 1
          BY <1>2, <2>0, <4>3, Zenon DEF Sendable
        <5>2. submitted[v] = completed[v] + 1 + Len(queue[v]) + 0
          BY <4>1, <5>1, Zenon
        <5>3. submitted[v] = completed[v] + 0 + Len(queue[v]) + 1
          BY <1>a, <5>2, Sums, Zenon
        <5> QED
          BY <4>2, <5>1, <5>3, Zenon
      <4>4. CASE ~d.async
        <5>1. (IF busy'[v] THEN 1 ELSE 0) = (IF busy[v] THEN 1 ELSE 0) /\ Held(v) = 0
          BY <2>0, <4>4, Zenon DEF Sendable
        <5> QED
          BY <4>1, <4>2, <5>1, Zenon
      <4> QED
        BY <4>3, <4>4, Zenon
    <3>2. queue'[v] # <<>> => busy'[v]
      BY <2>0, Zenon DEF Good, Counts
    <3>3. busy'[v] <=> \E e \in atDevice'[v] : e.async
      BY <2>0, Zenon DEF Good, Counts
    <3>4. \A e, g \in atDevice'[v] : e.async /\ g.async => e = g
      BY <1>2, <2>0, Zenon DEF Good, Counts
    <3> QED
      BY <3>1, <3>2, <3>3, <3>4, Zenon DEF Counts
  <2>5. Order(v)'
    <3>1. SUFFICES ASSUME NEW n \in 1..MaxOps, NEW t \in Nat, <<<<v, n>>, t>> \in tickets
                   PROVE  /\ <<v, n>> \in posted
                          /\ Posted(v, n)' => t > completed[v]
                          /\ \A i \in 1..Len(queue[v]) : queue[v][i] = n => t > completed[v] + i
      BY <2>0, Zenon DEF Order, SameView, SameCount, Forwards
    <3>2. n # ops[v]
      BY <3>1, Zenon DEF Fresh, Sendable
    <3> QED
      <4>1. Posted(v, n)' => Posted(v, n)
        BY <2>c, <3>2, Zenon
      <4> QED
        BY <3>1, <4>1, Zenon DEF Good, Order
  <2> QED
    BY <2>1, <2>2, <2>3, <2>4, <2>5, Zenon DEF Good
<1> QED
  BY <1>1, <1>2, Zenon
=============================================================================
