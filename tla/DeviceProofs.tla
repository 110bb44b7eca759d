---------------------------- MODULE DeviceProofs ----------------------------
(***************************************************************************)
(* Proofs about the devices on SST's side of the MMIO mailbox.             *)
(*                                                                         *)
(* First the safety invariants of the doorbell device, for every queue     *)
(* limit, DMA window, buffer size and mixture of latencies, by induction   *)
(* with IInv.                                                              *)
(*                                                                         *)
(* Then LineIsLevel and FileIsCapture of StreamToSink, for every file      *)
(* size, pace, cap and bound.  Both hold whatever the guest does between   *)
(* its register accesses, so the guest's program appears only through the  *)
(* device action each of its steps takes.                                  *)
(***************************************************************************)
EXTENDS GpuDevice, StreamToSink, FiniteSetTheorems, SequenceTheorems, WellFoundedInduction, TLAPS

-----------------------------------------------------------------------------
(* The inductive invariant, in three parts that are predicates of a device *)
(* state, so that they can be asserted of the states inside a handler.     *)

Delays == Latencies \union {KernelLatency}

\* Every combination of values of the fields.
Dev == [busy : BOOLEAN, left : Nat, id : Nat, submit : Nat, rejected : Nat,
        override : Latencies, queue : Seq(Delays), hold : BOOLEAN,
        held : Requesters \union {None}, line : BOOLEAN, events : Nat,
        phase : {"idle", "reading", "writing"}, op : Ops, next : Nat,
        out : SUBSET Nat, got : SUBSET (1..InChunks), written : SUBSET (1..OutChunks),
        last : {"none", "done", "rejected"}, fatal : BOOLEAN]

\* Of a transfer of total requests the first n are issued: g have arrived, o are
\* in flight, and the window holds.
Transfer(g, o, n, total) ==
    /\ g \union o = 1..n /\ g \intersect o = {}
    /\ n <= total
    /\ Cardinality(o) <= Window

\* What each phase of an operation has read and written.
Dma(d) ==
    /\ d.phase = "idle" => d.out = {}
    /\ d.phase = "reading" => /\ Transfer(d.got, d.out, d.next, InChunks) /\ d.written = {}
                              /\ d.busy => d.out = {} /\ d.next = InChunks
    /\ d.phase = "writing" => /\ Transfer(d.written, d.out, d.next, OutChunks) /\ d.got = 1..InChunks
                              /\ ~d.busy
    /\ d.last = "done" /\ d.phase = "idle" => d.got = 1..InChunks /\ d.written = 1..OutChunks

\* Accepted doorbells that have neither retired nor been rejected.
Open(d) == IF kernel THEN IF d.phase = "idle" THEN 0 ELSE 1
           ELSE Len(d.queue) + IF d.busy THEN 1 ELSE 0

\* Every accepted doorbell is accounted for, each mode uses its own fields, and
\* nothing waits in an idle device.
Ledger(d) ==
    /\ d.submit = d.id + d.rejected + Open(d) /\ d.submit <= MaxSubmits
    /\ kernel => d.queue = << >> /\ (d.busy => d.phase = "reading")
    /\ ~kernel => d.phase = "idle" /\ d.last = "none" /\ (d.queue # << >> => d.busy)

\* All completions but the last n, which are still to be raised, are consumed or
\* counted.
Due(d, a, n) ==
    IF irq THEN (d.line <=> d.events > 0) /\ d.id = a + d.events + n
    ELSE ~d.line /\ d.events = 0 /\ a = 0

Good(d, a) == d \in Dev /\ Dma(d) /\ Ledger(d) /\ Due(d, a, 0)

\* True between two handlers, not inside one.
Settled(d) ==
    /\ d.busy => d.left > 0
    /\ Work(d) => d.hold

IInv ==
    /\ config \in BOOLEAN \X BOOLEAN \X Kernels /\ acked \in Nat
    /\ Good(dev, acked) /\ Settled(dev)

-----------------------------------------------------------------------------
(* Numbers, windows and queues.                                            *)

LEMMA Least ==
    ASSUME NEW T \in SUBSET Nat, T # {}
    PROVE  \E m \in T : \A n \in T : m <= n
<1> DEFINE R == {ss \in Nat \X Nat : ss[1] < ss[2]}
<1>1. IsWellFoundedOn(R, Nat)
  BY NatLessThanWellFounded, Zenon DEF OpToRel
<1> HIDE DEF R
<1>2. PICK m \in T : \A n \in T : <<n, m>> \notin R
  BY <1>1, WFMin, Zenon
<1>3. \A x, y \in Nat : x < y => <<x, y>> \in R
  BY Zenon DEF R
<1>4. ASSUME NEW n \in T PROVE m <= n
  <2>1. ~(n < m)
    BY <1>2, <1>3, Zenon
  <2> QED
    BY <2>1
<1> QED
  BY <1>4, Zenon

\* The launches of latency 0 at the front of a queue.
LEMMA ZerosExist ==
    ASSUME NEW S, NEW q \in Seq(S)
    PROVE  \E k \in 0..Len(q) : /\ \A i \in 1..k : q[i] = 0
                                /\ k < Len(q) => q[k + 1] # 0
<1> DEFINE T == {i \in 1..Len(q) : q[i] # 0}
<1>0. Len(q) \in Nat
  BY LenProperties, Zenon
<1>1. CASE T = {}
  <2>1. \A i \in 1..Len(q) : q[i] = 0
    BY <1>1, Zenon
  <2>2. Len(q) \in 0..Len(q) /\ ~(Len(q) < Len(q))
    BY <1>0
  <2> QED
    BY <2>1, <2>2, Zenon
<1>2. CASE T # {}
  <2>1. PICK m \in T : \A n \in T : m <= n
    BY <1>2, Least, T \in SUBSET Nat, Zenon
  <2>2. m \in 1..Len(q) /\ q[m] # 0 /\ m - 1 \in 0..Len(q) /\ (m - 1) + 1 = m
    BY <1>0, <2>1
  <2>3. ASSUME NEW i \in 1..(m - 1) PROVE q[i] = 0
    <3>1. i \in 1..Len(q) /\ ~(m <= i)
      BY <1>0, <2>2
    <3> QED
      BY <2>1, <3>1, Zenon
  <2> QED
    BY <2>2, <2>3, Zenon
<1> QED
  BY <1>1, <1>2, Zenon

\* The requests Issue adds to o, of which n were issued before.
WindowRoom(o, n, total) ==
    IF Window - Cardinality(o) < total - n THEN Window - Cardinality(o) ELSE total - n

\* Filling the window keeps it, skips no request and issues none twice.
LEMMA Filled ==
    ASSUME NEW o \in SUBSET Nat, NEW g \in SUBSET Nat, NEW n \in Nat, NEW total \in Nat,
           Transfer(g, o, n, total), NEW room, room = WindowRoom(o, n, total)
    PROVE  /\ room \in Nat
           /\ o \union (n + 1)..(n + room) \in SUBSET Nat
           /\ Transfer(g, o \union (n + 1)..(n + room), n + room, total)
<1>0. g \union o = 1..n /\ g \intersect o = {} /\ n <= total /\ Cardinality(o) <= Window
  BY Zenon DEF Transfer
<1> DEFINE i == (n + 1)..(n + room)
<1>1. IsFiniteSet(o) /\ Cardinality(o) \in Nat
  <2>1. 1 \in Int /\ n \in Int /\ o \in SUBSET (1..n)
    BY <1>0
  <2>2. IsFiniteSet(1..n)
    BY <2>1, FS_Interval, Zenon
  <2> QED
    BY <2>1, <2>2, FS_Subset, FS_CardinalityType, Zenon
<1>2. room \in Nat /\ n + room <= total /\ room <= Window - Cardinality(o)
  BY <1>0, <1>1, GpuAssumption DEF WindowRoom
<1>3. IsFiniteSet(i) /\ Cardinality(i) = room
  <2>1. n + 1 \in Int /\ n + room \in Int
    BY <1>2
  <2>2. ASSUME NEW x \in Int, NEW y \in Int, x = n + 1, y = n + room
        PROVE  IsFiniteSet(x..y) /\ Cardinality(x..y) = room
    <3>1. IsFiniteSet(x..y) /\ Cardinality(x..y) = IF x > y THEN 0 ELSE y - x + 1
      BY FS_Interval, Zenon
    <3> QED
      BY <1>2, <2>2, <3>1
  <2> QED
    BY <2>1, <2>2, Zenon
<1> HIDE DEF i
<1>4. \A x \in o : x <= n
  BY <1>0
<1>5. o \intersect i = {}
  BY <1>2, <1>4 DEF i
<1>6. Cardinality(o \union i) = Cardinality(o) + room
  <2>1. Cardinality(o \union i) = Cardinality(o) + Cardinality(i) - Cardinality(o \intersect i)
    BY <1>1, <1>3, FS_Union, Zenon
  <2>2. Cardinality(o \intersect i) = 0
    BY <1>5, FS_EmptySet, Zenon
  <2> QED
    BY <1>1, <1>2, <1>3, <2>1, <2>2, SMTT(30)
<1>7. Cardinality(o \union i) <= Window
  BY <1>1, <1>2, <1>6, GpuAssumption, SMTT(30)
<1>8. i \in SUBSET Nat /\ 1..n \union i = 1..(n + room) /\ (1..n) \intersect i = {}
  BY <1>2 DEF i
<1>9. g \union (o \union i) = 1..(n + room) /\ g \intersect (o \union i) = {}
  <2>1. g \union (o \union i) = (g \union o) \union i /\ g \in SUBSET (1..n)
    BY <1>0, Zenon
  <2> QED
    BY <1>0, <1>8, <2>1, Zenon
<1> QED
  BY <1>2, <1>7, <1>8, <1>9, Zenon DEF i, Transfer

-----------------------------------------------------------------------------
(* The functions of the device.                                            *)

\* updatePrimaryHold settles the hold and touches nothing else.
LEMMA HoldKeeps ==
    ASSUME NEW d \in Dev, NEW b \in BOOLEAN, NEW a
    PROVE  /\ Hold(d, b) \in Dev
           /\ Dma(Hold(d, b)) <=> Dma(d)
           /\ Ledger(Hold(d, b)) <=> Ledger(d)
           /\ Due(Hold(d, b), a, 0) <=> Due(d, a, 0)
           /\ Work(Hold(d, b)) => Hold(d, b).hold
           /\ Hold(d, b).busy = d.busy /\ Hold(d, b).left = d.left
<1> DEFINE e == Hold(d, b)
<1>1. e = [d EXCEPT !.hold = Work(d) \/ (d.hold /\ ~b)]
  BY Zenon DEF Hold
<1>2. Work(d) \/ (d.hold /\ ~b) \in BOOLEAN
  BY Zenon DEF Dev
<1>3. e \in Dev
  BY <1>1, <1>2, ZenonT(60) DEF Dev
<1>4. /\ e.busy = d.busy /\ e.left = d.left /\ e.id = d.id /\ e.submit = d.submit
      /\ e.rejected = d.rejected /\ e.queue = d.queue /\ e.line = d.line
      /\ e.events = d.events /\ e.phase = d.phase /\ e.next = d.next /\ e.out = d.out
      /\ e.got = d.got /\ e.written = d.written /\ e.last = d.last
      /\ e.hold = (Work(d) \/ (d.hold /\ ~b))
  BY <1>1, <1>2, ZenonT(60) DEF Dev
<1> HIDE DEF e
<1>5. Dma(e) <=> Dma(d)
  BY <1>4, Zenon DEF Dma
<1>6. Ledger(e) <=> Ledger(d)
  BY <1>4, ZenonT(60) DEF Ledger, Open
<1>7. Due(e, a, 0) <=> Due(d, a, 0)
  BY <1>4, Zenon DEF Due
<1>8. Work(e) => e.hold
  BY <1>4, Zenon DEF Work
<1> QED
  BY <1>3, <1>4, <1>5, <1>6, <1>7, <1>8, Zenon DEF e

LEMMA HoldSettles ==
    ASSUME NEW d, NEW b \in BOOLEAN, NEW a, Good(d, a), d.busy => d.left > 0
    PROVE  Good(Hold(d, b), a) /\ Settled(Hold(d, b))
<1>1. d \in Dev
  BY Zenon DEF Good
<1>2. Good(Hold(d, b), a)
  BY <1>1, HoldKeeps, Zenon DEF Good
<1>3. Hold(d, b).busy = d.busy /\ Hold(d, b).left = d.left /\ (Work(Hold(d, b)) => Hold(d, b).hold)
  BY <1>1, HoldKeeps, Zenon
<1> QED
  BY <1>2, <1>3, Zenon DEF Settled

\* raiseIrqOnRetire counts the completions that were due.
LEMMA RaiseKeeps ==
    ASSUME NEW d \in Dev, NEW n \in Nat, NEW a \in Nat, Due(d, a, n)
    PROVE  /\ Raise(d, n) \in Dev
           /\ Dma(Raise(d, n)) <=> Dma(d)
           /\ Ledger(Raise(d, n)) <=> Ledger(d)
           /\ Due(Raise(d, n), a, 0)
           /\ Settled(Raise(d, n)) <=> Settled(d)
           /\ Work(Raise(d, n)) <=> Work(d)
           /\ Raise(d, n).queue = d.queue
<1> DEFINE e == Raise(d, n)
<1>1. CASE ~irq \/ n = 0
  <2>1. e = d
    BY <1>1, Zenon DEF Raise
  <2>2. Due(d, a, 0)
    BY <1>1, Zenon DEF Due, Dev
  <2> QED
    BY <2>1, <2>2, Zenon
<1>2. CASE irq /\ n # 0
  <2>1. e = [d EXCEPT !.events = d.events + n, !.line = TRUE]
    BY <1>2, Zenon DEF Raise
  <2>2. d.events \in Nat /\ d.events + n \in Nat /\ d.events + n > 0 /\ d.id = a + d.events + n
    BY <1>2, SMTT(30) DEF Dev, Due
  <2>3. e \in Dev
    BY <2>1, <2>2, ZenonT(60) DEF Dev
  <2>4. /\ e.busy = d.busy /\ e.left = d.left /\ e.id = d.id /\ e.submit = d.submit
        /\ e.rejected = d.rejected /\ e.queue = d.queue /\ e.hold = d.hold
        /\ e.phase = d.phase /\ e.next = d.next /\ e.out = d.out
        /\ e.got = d.got /\ e.written = d.written /\ e.last = d.last
        /\ e.line = TRUE /\ e.events = d.events + n
    BY <2>1, <2>2, ZenonT(60) DEF Dev
  <2> HIDE DEF e
  <2>5. Dma(e) <=> Dma(d)
    BY <2>4, Zenon DEF Dma
  <2>6. Ledger(e) <=> Ledger(d)
    BY <2>4 DEF Ledger, Open
  <2>7. Due(e, a, 0)
    BY <1>2, <2>2, <2>4 DEF Due
  <2>8. (Settled(e) <=> Settled(d)) /\ (Work(e) <=> Work(d))
    BY <2>4, Zenon DEF Settled, Work
  <2> QED
    BY <2>3, <2>4, <2>5, <2>6, <2>7, <2>8, Zenon DEF e
<1> QED
  BY <1>1, <1>2, Zenon

\* Sending the held response touches nothing else.
LEMMA ReleaseKeeps ==
    ASSUME NEW d \in Dev
    PROVE  /\ Release(d) \in Dev
           /\ \A a, n : Due(Release(d), a, n) <=> Due(d, a, n)
           /\ Dma(Release(d)) <=> Dma(d)
           /\ Ledger(Release(d)) <=> Ledger(d)
           /\ Release(d).busy = d.busy /\ Release(d).queue = d.queue
           /\ Release(d).phase = d.phase /\ Release(d).last = d.last
           /\ Release(d).submit = d.submit /\ Release(d).id = d.id
           /\ Release(d).rejected = d.rejected
<1> DEFINE e == Release(d)
<1>1. e = [d EXCEPT !.held = None]
  BY Zenon DEF Release
<1>2. e \in Dev
  BY <1>1, Zenon DEF Dev
<1>3. /\ e.busy = d.busy /\ e.left = d.left /\ e.id = d.id /\ e.submit = d.submit
      /\ e.rejected = d.rejected /\ e.queue = d.queue /\ e.line = d.line
      /\ e.events = d.events /\ e.phase = d.phase /\ e.next = d.next /\ e.out = d.out
      /\ e.got = d.got /\ e.written = d.written /\ e.last = d.last
  BY <1>1, Zenon DEF Dev
<1> HIDE DEF e
<1>4. Dma(e) <=> Dma(d)
  BY <1>3, Zenon DEF Dma
<1>5. Ledger(e) <=> Ledger(d)
  BY <1>3, Zenon DEF Ledger, Open
<1>6. \A a, n : Due(e, a, n) <=> Due(d, a, n)
  BY <1>3, Zenon DEF Due
<1> QED
  BY <1>2, <1>3, <1>4, <1>5, <1>6, Zenon DEF e

\* opReject ends the one open operation.
LEMMA RejectGood ==
    ASSUME NEW d \in Dev, NEW a, kernel, Due(d, a, 0), d.queue = << >>,
           d.submit = d.id + d.rejected + 1, d.submit <= MaxSubmits
    PROVE  Good(Reject(d), a) /\ Settled(Reject(d))
<1> DEFINE c == [d EXCEPT !.phase = "idle", !.busy = FALSE, !.left = 0, !.out = {},
                          !.rejected = d.rejected + 1, !.last = "rejected"]
           e == Release(c)
<1>1. Reject(d) = Hold(e, TRUE)
  BY Zenon DEF Reject
<1>2. d.rejected + 1 \in Nat
  BY DEF Dev
<1>3. c \in Dev
  BY <1>2, Zenon DEF Dev
<1>4. /\ c.busy = FALSE /\ c.phase = "idle" /\ c.out = {} /\ c.last = "rejected"
      /\ c.rejected = d.rejected + 1 /\ c.submit = d.submit /\ c.id = d.id
      /\ c.queue = d.queue /\ c.line = d.line /\ c.events = d.events
  BY Zenon DEF Dev
<1> HIDE DEF c
<1>5. Dma(c)
  BY <1>4, Zenon DEF Dma
<1>6. Ledger(c)
  <2>1. Open(c) = 0
    BY <1>4, Zenon DEF Open
  <2>2. d.id \in Nat /\ d.rejected \in Nat
    BY Zenon DEF Dev
  <2> QED
    BY <1>4, <2>1, <2>2, SMTT(30) DEF Ledger
<1>7. Due(c, a, 0)
  BY <1>4, Zenon DEF Due
<1>8. e \in Dev /\ Dma(e) /\ Ledger(e) /\ Due(e, a, 0) /\ e.busy = FALSE
  BY <1>3, <1>4, <1>5, <1>6, <1>7, ReleaseKeeps, Zenon
<1> HIDE DEF e
<1>9. Good(e, a)
  BY <1>8, Zenon DEF Good
<1> QED
  BY <1>1, <1>8, <1>9, HoldSettles, Zenon

\* opIssueReadWindow, opIssueWriteWindow.
LEMMA IssueGood ==
    ASSUME NEW d \in Dev, NEW total \in Nat, NEW arrived \in SUBSET Nat,
           Transfer(arrived, d.out, d.next, total)
    PROVE  /\ Issue(d, total) \in Dev /\ Transfer(arrived, Issue(d, total).out, Issue(d, total).next, total)
           /\ \A a : Due(Issue(d, total), a, 0) <=> Due(d, a, 0)
           /\ Ledger(Issue(d, total)) <=> Ledger(d)
           /\ Work(Issue(d, total)) <=> Work(d)
           /\ Issue(d, total).busy = d.busy /\ Issue(d, total).left = d.left
           /\ Issue(d, total).phase = d.phase /\ Issue(d, total).got = d.got
           /\ Issue(d, total).written = d.written /\ Issue(d, total).hold = d.hold
           /\ Issue(d, total).op = d.op /\ Issue(d, total).last = d.last
<1> DEFINE room == WindowRoom(d.out, d.next, total)
           p == d.out \union (d.next + 1)..(d.next + room)
           e == Issue(d, total)
<1>1. e = [d EXCEPT !.next = d.next + room, !.out = p]
  BY Zenon DEF Issue, WindowRoom
<1>2. d.out \in SUBSET Nat /\ d.next \in Nat
  BY Zenon DEF Dev
<1>3. room \in Nat /\ p \in SUBSET Nat /\ Transfer(arrived, p, d.next + room, total)
  BY <1>2, Filled, Zenon
<1> HIDE DEF room, p
<1>4. d.next + room \in Nat
  BY <1>2, <1>3
<1>5. e \in Dev
  BY <1>1, <1>3, <1>4, ZenonT(30) DEF Dev
<1>6. /\ e.busy = d.busy /\ e.left = d.left /\ e.id = d.id /\ e.submit = d.submit
      /\ e.rejected = d.rejected /\ e.queue = d.queue /\ e.line = d.line /\ e.hold = d.hold
      /\ e.events = d.events /\ e.phase = d.phase /\ e.op = d.op
      /\ e.got = d.got /\ e.written = d.written /\ e.last = d.last
      /\ e.next = d.next + room /\ e.out = p
  BY <1>1, ZenonT(60) DEF Dev
<1> HIDE DEF e
<1>7. Transfer(arrived, e.out, e.next, total)
  BY <1>3, <1>6, Zenon
<1>8. (Ledger(e) <=> Ledger(d)) /\ (Work(e) <=> Work(d))
  BY <1>6, ZenonT(60) DEF Ledger, Open, Work
<1>9. \A a : Due(e, a, 0) <=> Due(d, a, 0)
  BY <1>6, Zenon DEF Due
<1> QED
  BY <1>5, <1>6, <1>7, <1>8, <1>9, Zenon DEF e

\* An empty transfer.
LEMMA Fresh ==
    ASSUME NEW d, d.out = {}, d.next = 0, NEW total \in Nat
    PROVE  Transfer({}, d.out, d.next, total)
<1>1. 1..0 = {} /\ 0 <= total /\ 0 <= Window
  BY GpuAssumption
<1> QED
  BY <1>1, FS_EmptySet, Zenon DEF Transfer

\* The operation has its whole input and does not wait.
Computed(d, a) ==
    /\ Good(d, a) /\ kernel /\ d.phase = "reading" /\ ~d.busy
    /\ d.out = {} /\ d.next = InChunks

LEMMA BeginWritebackGood ==
    ASSUME NEW d, NEW a, Computed(d, a)
    PROVE  Good(BeginWriteback(d), a) /\ Settled(BeginWriteback(d))
<1>1. d \in Dev /\ d.submit = d.id + d.rejected + 1 /\ d.submit <= MaxSubmits /\ d.queue = << >>
      /\ Due(d, a, 0)
  BY Zenon DEF Computed, Good, Ledger, Open
<1>2. CASE d.op = "badOut"
  BY <1>1, <1>2, RejectGood, Zenon DEF BeginWriteback, Computed
<1>3. CASE d.op # "badOut"
  <2> DEFINE c == [d EXCEPT !.phase = "writing", !.out = {}, !.next = 0]
             e == Issue(c, OutChunks)
  <2>1. BeginWriteback(d) = Hold(e, FALSE)
    BY <1>3, Zenon DEF BeginWriteback
  <2>2. c \in Dev
    BY <1>1, Zenon DEF Dev
  <2>3. /\ c.phase = "writing" /\ c.out = {} /\ c.next = 0 /\ c.busy = d.busy
        /\ c.got = d.got /\ c.written = d.written /\ c.id = d.id /\ c.submit = d.submit
        /\ c.rejected = d.rejected /\ c.queue = d.queue /\ c.line = d.line
        /\ c.events = d.events /\ c.last = d.last
    BY <1>1, Zenon DEF Dev
  <2> HIDE DEF c
  <2>4. c.got = 1..InChunks /\ c.written = {} /\ c.busy = FALSE
    <3>1. d.got \union {} = 1..InChunks /\ d.written = {}
      BY Zenon DEF Computed, Good, Dma, Transfer
    <3>2. d.busy = FALSE
      BY <1>1, Zenon DEF Computed, Dev
    <3> QED
      BY <2>3, <3>1, <3>2, Zenon
  <2>5. Due(c, a, 0)
    BY <1>1, <2>3, Zenon DEF Due
  <2>6. Ledger(c)
    BY <1>1, <2>3, <2>4, Zenon DEF Ledger, Open, Computed
  <2>7. Transfer({}, c.out, c.next, OutChunks) /\ OutChunks \in Nat
    BY <2>3, Fresh, GpuAssumption, Zenon
  <2>8. /\ e \in Dev /\ Transfer({}, e.out, e.next, OutChunks) /\ Due(e, a, 0) /\ Ledger(e)
        /\ e.busy = FALSE /\ e.phase = "writing" /\ e.got = 1..InChunks /\ e.written = {}
    BY <2>2, <2>3, <2>4, <2>5, <2>6, <2>7, IssueGood, ZenonT(60)
  <2> HIDE DEF e
  <2>9. Good(e, a)
    BY <2>8, Zenon DEF Good, Dma
  <2> QED
    BY <2>1, <2>8, <2>9, HoldSettles, Zenon
<1> QED
  BY <1>2, <1>3, Zenon

\* opComputeAndStartBusy
LEMMA ComputeGood ==
    ASSUME NEW d, NEW a, Computed(d, a), NEW opinion \in Latencies
    PROVE  Good(Compute(d, opinion), a) /\ Settled(Compute(d, opinion))
<1> DEFINE latency == CHOOSE x \in {d.override, opinion, KernelLatency} :
                        IF d.override # 0 THEN x = d.override
                        ELSE IF opinion # 0 THEN x = opinion ELSE x = KernelLatency
           e == [d EXCEPT !.override = 0]
           f == [e EXCEPT !.busy = TRUE, !.left = latency]
<1>1. d \in Dev /\ d.override \in Latencies
  BY Zenon DEF Computed, Good, Dev
<1>2. latency \in Nat
  <2>1. latency \in {d.override, opinion, KernelLatency}
    OBVIOUS
  <2> QED
    BY <1>1, <2>1, GpuAssumption, Zenon
<1>3. Compute(d, opinion) = IF latency = 0 THEN BeginWriteback(e) ELSE Hold(f, FALSE)
  BY Zenon DEF Compute
<1> HIDE DEF latency
<1>4. e \in Dev
  BY <1>1, GpuAssumption, Zenon DEF Dev
<1>5. /\ e.busy = d.busy /\ e.id = d.id /\ e.submit = d.submit
      /\ e.rejected = d.rejected /\ e.queue = d.queue /\ e.line = d.line
      /\ e.events = d.events /\ e.phase = d.phase /\ e.next = d.next /\ e.out = d.out
      /\ e.got = d.got /\ e.written = d.written /\ e.last = d.last
  BY <1>1, Zenon DEF Dev
<1>6. f \in Dev
  BY <1>2, <1>4, Zenon DEF Dev
<1>7. /\ f.busy = TRUE /\ f.left = latency /\ f.id = e.id /\ f.submit = e.submit
      /\ f.rejected = e.rejected /\ f.queue = e.queue /\ f.line = e.line
      /\ f.events = e.events /\ f.phase = e.phase /\ f.next = e.next /\ f.out = e.out
      /\ f.got = e.got /\ f.written = e.written /\ f.last = e.last
  BY <1>4, Zenon DEF Dev
<1> HIDE DEF e, f
<1>8. Good(e, a)
  <2>1. Dma(e)
    BY <1>5, Zenon DEF Computed, Good, Dma
  <2>2. Ledger(e)
    BY <1>5, Zenon DEF Computed, Good, Ledger, Open
  <2>3. Due(e, a, 0)
    BY <1>5, Zenon DEF Computed, Good, Due
  <2> QED
    BY <1>4, <2>1, <2>2, <2>3, Zenon DEF Good
<1>9. Computed(e, a)
  BY <1>5, <1>8, Zenon DEF Computed
<1>10. CASE latency = 0
  BY <1>3, <1>9, <1>10, BeginWritebackGood, Zenon
<1>11. CASE latency # 0
  <2>1. Dma(f)
    BY <1>7, <1>9, Zenon DEF Computed, Good, Dma
  <2>2. Ledger(f)
    BY <1>7, <1>9, Zenon DEF Computed, Good, Ledger, Open
  <2>3. Due(f, a, 0)
    BY <1>7, <1>9, Zenon DEF Computed, Good, Due
  <2>4. f.left > 0
    BY <1>2, <1>7, <1>11, SMTT(30)
  <2>5. Good(f, a)
    BY <1>6, <2>1, <2>2, <2>3, Zenon DEF Good
  <2> QED
    BY <1>3, <1>11, <2>4, <2>5, HoldSettles, Zenon
<1> QED
  BY <1>10, <1>11, Zenon

\* opFinish: only with everything written does an operation complete.
LEMMA FinishGood ==
    ASSUME NEW d, NEW a \in Nat, Good(d, a), kernel, d.phase = "writing", d.out = {},
           d.next = OutChunks
    PROVE  Good(Finish(d), a) /\ Settled(Finish(d))
<1> DEFINE c == [d EXCEPT !.phase = "idle", !.id = d.id + 1, !.last = "done"]
           e == Release(c)
           f == Raise(e, 1)
<1>1. d \in Dev /\ d.id \in Nat /\ d.id + 1 \in Nat /\ d.rejected \in Nat
  BY DEF Good, Dev
<1>2. Finish(d) = Hold(f, TRUE)
  BY Zenon DEF Finish
<1>3. c \in Dev
  BY <1>1, ZenonT(60) DEF Dev
<1>4. /\ c.busy = d.busy /\ c.id = d.id + 1 /\ c.submit = d.submit
      /\ c.rejected = d.rejected /\ c.queue = d.queue /\ c.line = d.line
      /\ c.events = d.events /\ c.phase = "idle" /\ c.out = d.out
      /\ c.got = d.got /\ c.written = d.written /\ c.last = "done"
  BY <1>1, Zenon DEF Dev
<1> HIDE DEF c
<1>5. d.got = 1..InChunks /\ d.written = 1..OutChunks /\ ~d.busy
  <2>1. d.got = 1..InChunks /\ d.written \union {} = 1..OutChunks /\ ~d.busy
    BY Zenon DEF Good, Dma, Transfer
  <2> QED
    BY <2>1, Zenon
<1>6. Dma(c)
  BY <1>4, <1>5, Zenon DEF Dma
<1>7. Ledger(c)
  <2>1. d.submit = d.id + d.rejected + 1 /\ d.submit <= MaxSubmits /\ d.queue = << >>
    BY Zenon DEF Good, Ledger, Open
  <2>2. Open(c) = 0
    BY <1>4, Zenon DEF Open
  <2>3. c.submit = c.id + c.rejected + 0
    BY <1>1, <1>4, <2>1, SMTT(30)
  <2> QED
    BY <1>4, <1>5, <2>1, <2>2, <2>3, Zenon DEF Ledger
<1>8. Due(c, a, 1)
  <2>1. d.events \in Nat
    BY <1>1, Zenon DEF Dev
  <2> QED
    BY <1>1, <1>4, <2>1, SMTT(30) DEF Good, Due
<1>9. e \in Dev /\ Dma(e) /\ Ledger(e) /\ Due(e, a, 1) /\ e.busy = c.busy
  BY <1>3, <1>6, <1>7, <1>8, ReleaseKeeps, Zenon
<1> HIDE DEF e
<1>10. f \in Dev /\ Dma(f) /\ Ledger(f) /\ Due(f, a, 0)
  BY <1>9, RaiseKeeps, Zenon
<1>11. ~f.busy
  BY <1>4, <1>5, <1>9, Zenon DEF Raise, Dev
<1> HIDE DEF f
<1>12. Good(f, a)
  BY <1>10, Zenon DEF Good
<1> QED
  BY <1>2, <1>11, <1>12, HoldSettles, Zenon

\* The latency model with one accepted doorbell neither queued nor running.
Launching(d, a) ==
    /\ d \in Dev /\ ~kernel /\ Dma(d) /\ Due(d, a, 0)
    /\ d.phase = "idle" /\ d.last = "none" /\ ~d.busy
    /\ d.submit = d.id + d.rejected + Len(d.queue) + 1 /\ d.submit <= MaxSubmits

\* startKernel
LEMMA StartKernelGood ==
    ASSUME NEW d, NEW a \in Nat, Launching(d, a), NEW latency \in Nat,
           latency = 0 => d.queue = << >>
    PROVE  Good(StartKernel(d, latency), a) /\ Settled(StartKernel(d, latency))
<1>1. /\ d \in Dev /\ d.id \in Nat /\ d.id + 1 \in Nat /\ d.rejected \in Nat /\ d.events \in Nat
      /\ d.busy = FALSE /\ Len(d.queue) \in Nat
  BY LenProperties, SMTT(30) DEF Launching, Dev
<1>2. CASE latency = 0
  <2> DEFINE c == [d EXCEPT !.id = d.id + 1, !.busy = FALSE, !.left = 0]
             e == Raise(c, 1)
  <2>1. StartKernel(d, latency) = Hold(e, FALSE)
    BY <1>2, Zenon DEF StartKernel
  <2>2. c \in Dev
    BY <1>1, Zenon DEF Dev
  <2>3. /\ c.busy = FALSE /\ c.id = d.id + 1 /\ c.submit = d.submit
        /\ c.rejected = d.rejected /\ c.queue = d.queue /\ c.line = d.line
        /\ c.events = d.events /\ c.phase = d.phase /\ c.out = d.out /\ c.last = d.last
    BY <1>1, Zenon DEF Dev
  <2> HIDE DEF c
  <2>4. Dma(c)
    BY <2>3, Zenon DEF Launching, Dma
  <2>5. Ledger(c)
    <3>1. d.queue = << >> /\ Len(d.queue) = 0
      BY <1>2, Zenon
    <3>2. Open(c) = Len(d.queue) + 0
      BY <2>3, Zenon DEF Open, Launching
    <3>3. c.submit = c.id + c.rejected + Open(c)
      BY <1>1, <2>3, <3>1, <3>2, SMTT(30) DEF Launching
    <3> QED
      BY <2>3, <3>1, <3>3, Zenon DEF Ledger, Launching
  <2>6. Due(c, a, 1)
    BY <1>1, <2>3, SMTT(30) DEF Launching, Due
  <2>7. e \in Dev /\ Dma(e) /\ Ledger(e) /\ Due(e, a, 0)
    BY <2>2, <2>4, <2>5, <2>6, RaiseKeeps, Zenon
  <2>8. ~e.busy
    BY <2>2, <2>3, Zenon DEF Raise, Dev
  <2> HIDE DEF e
  <2>9. Good(e, a)
    BY <2>7, Zenon DEF Good
  <2> QED
    BY <2>1, <2>8, <2>9, HoldSettles, Zenon
<1>3. CASE latency # 0
  <2> DEFINE c == [d EXCEPT !.busy = TRUE, !.left = latency]
  <2>1. StartKernel(d, latency) = Hold(c, FALSE)
    BY <1>3, Zenon DEF StartKernel
  <2>2. c \in Dev
    BY <1>1, Zenon DEF Dev
  <2>3. /\ c.busy = TRUE /\ c.left = latency /\ c.id = d.id /\ c.submit = d.submit
        /\ c.rejected = d.rejected /\ c.queue = d.queue /\ c.line = d.line
        /\ c.events = d.events /\ c.phase = d.phase /\ c.out = d.out /\ c.last = d.last
    BY <1>1, Zenon DEF Dev
  <2> HIDE DEF c
  <2>4. Dma(c)
    BY <2>3, Zenon DEF Launching, Dma
  <2>5. Ledger(c)
    <3>0. PICK n \in Nat : n = Len(d.queue)
      BY <1>1, Zenon
    <3>1. Open(c) = n + 1
      BY <2>3, <3>0, Zenon DEF Open, Launching
    <3>2. c.submit = c.id + c.rejected + Open(c)
      <4>1. d.submit = d.id + d.rejected + n + 1
        BY <3>0, Zenon DEF Launching
      <4>2. d.id \in Nat /\ d.rejected \in Nat
        BY <1>1, Zenon
      <4>3. d.submit = d.id + d.rejected + (n + 1)
        BY <4>1, <4>2
      <4> QED
        BY <2>3, <3>1, <4>3, Zenon
    <3> QED
      BY <2>3, <3>2, Zenon DEF Ledger, Launching
  <2>6. Due(c, a, 0)
    BY <2>3, Zenon DEF Launching, Due
  <2>7. Good(c, a) /\ c.left > 0
    BY <1>3, <2>2, <2>3, <2>4, <2>5, <2>6, SMTT(30) DEF Good
  <2> QED
    BY <2>1, <2>7, HoldSettles, Zenon
<1> QED
  BY <1>2, <1>3, Zenon

\* What is left of a queue when its first k launches and the next one are gone.
LEMMA RestOfQueue ==
    ASSUME NEW S, NEW q \in Seq(S), NEW k \in 0..Len(q)
    PROVE  /\ SubSeq(q, k + 2, Len(q)) \in Seq(S)
           /\ k = Len(q) => SubSeq(q, k + 2, Len(q)) = << >>
           /\ k # Len(q) => Len(SubSeq(q, k + 2, Len(q))) = Len(q) - k - 1
<1>1. Len(q) \in Nat /\ k + 2 \in Int /\ Len(q) \in Int
  BY LenProperties
<1>2. \A i \in (k + 2)..Len(q) : q[i] \in S
  BY <1>1, ElementOfSeq, SMTT(30)
<1>3. /\ SubSeq(q, k + 2, Len(q)) \in Seq(S)
      /\ Len(SubSeq(q, k + 2, Len(q))) = IF k + 2 <= Len(q) THEN Len(q) - (k + 2) + 1 ELSE 0
  BY <1>1, <1>2, SubSeqProperties, SMTT(30)
<1>4. k = Len(q) => SubSeq(q, k + 2, Len(q)) = << >>
  BY <1>1, SubSeqEmpty, SMTT(30)
<1> QED
  BY <1>1, <1>3, <1>4, SMTT(30)

\* retireIfReady's loop, on a device that is not busy.
LEMMA PopGood ==
    ASSUME NEW d, NEW a \in Nat, d \in Dev, ~kernel, Dma(d), Due(d, a, 0),
           d.phase = "idle", d.last = "none", ~d.busy,
           d.submit = d.id + d.rejected + Len(d.queue), d.submit <= MaxSubmits
    PROVE  Good(Pop(d), a) /\ Settled(Pop(d))
<1> DEFINE q == d.queue
           Zeros(k) == /\ \A i \in 1..k : q[i] = 0
                       /\ k < Len(q) => q[k + 1] # 0
           zeros == CHOOSE k \in 0..Len(q) : Zeros(k)
           rest == SubSeq(q, zeros + 2, Len(q))
           c == [d EXCEPT !.id = d.id + zeros, !.queue = rest]
           e == Raise(c, zeros)
<1>1. /\ q \in Seq(Delays) /\ Delays \subseteq Nat /\ Len(q) \in Nat
      /\ d.id \in Nat /\ d.rejected \in Nat /\ d.events \in Nat
  <2>1. q \in Seq(Delays) /\ Delays \subseteq Nat
    BY GpuAssumption, Zenon DEF Dev, Delays
  <2> QED
    BY <2>1, LenProperties, Zenon DEF Dev
<1>2. Pop(d) = IF zeros = Len(q) THEN e ELSE StartKernel(e, q[zeros + 1])
  BY Zenon DEF Pop
<1>3. zeros \in 0..Len(q) /\ Zeros(zeros)
  <2>1. \E k \in 0..Len(q) : Zeros(k)
    BY <1>1, ZerosExist, Zenon
  <2> HIDE DEF Zeros
  <2> QED
    BY <2>1, Zenon
<1> HIDE DEF zeros
<1>4. /\ rest \in Seq(Delays)
      /\ zeros = Len(q) => rest = << >>
      /\ zeros # Len(q) => Len(rest) = Len(q) - zeros - 1
  BY <1>1, <1>3, RestOfQueue, Zenon
<1> HIDE DEF rest
<1>5. zeros \in Nat /\ d.id + zeros \in Nat
  BY <1>1, <1>3, SMTT(30)
<1>6. c \in Dev
  BY <1>4, <1>5, Zenon DEF Dev
<1>7. /\ c.busy = d.busy /\ c.id = d.id + zeros /\ c.submit = d.submit
      /\ c.rejected = d.rejected /\ c.queue = rest /\ c.line = d.line
      /\ c.events = d.events /\ c.phase = d.phase /\ c.out = d.out /\ c.last = d.last
  BY Zenon DEF Dev
<1> HIDE DEF c
<1>8. Dma(c)
  BY <1>7, Zenon DEF Dma
<1>9. Due(c, a, zeros)
  <2>1. irq => (d.line <=> d.events > 0) /\ d.id = a + d.events + 0
    BY Zenon DEF Due
  <2>2. irq => d.id + zeros = a + d.events + zeros
    BY <1>1, <2>1, SMTT(30)
  <2>3. ~irq => ~d.line /\ d.events = 0 /\ a = 0
    BY Zenon DEF Due
  <2> QED
    BY <1>7, <2>1, <2>2, <2>3, Zenon DEF Due
<1>10. /\ e \in Dev /\ Dma(e) /\ Due(e, a, 0) /\ (Ledger(e) <=> Ledger(c))
       /\ (Settled(e) <=> Settled(c)) /\ e.queue = c.queue
  BY <1>5, <1>6, <1>8, <1>9, RaiseKeeps, Zenon
<1>11. /\ e.busy = c.busy /\ e.id = c.id /\ e.submit = c.submit /\ e.rejected = c.rejected
       /\ e.phase = c.phase /\ e.last = c.last
  BY <1>6, Zenon DEF Raise, Dev
<1> HIDE DEF e
<1>12. CASE zeros = Len(q)
  <2>1. rest = << >> /\ Len(rest) = 0
    BY <1>4, <1>12, Zenon
  <2>2. Open(c) = 0
    BY <1>7, <2>1, SMTT(30) DEF Open
  <2>3. c.submit = c.id + c.rejected + Open(c)
    BY <1>1, <1>5, <1>7, <1>12, <2>2, SMTT(30)
  <2>4. Ledger(c)
    BY <1>7, <2>1, <2>3, Zenon DEF Ledger
  <2>5. Settled(c)
    BY <1>7, <2>1, Zenon DEF Settled, Work
  <2> QED
    BY <1>2, <1>10, <1>12, <2>4, <2>5, ZenonT(60) DEF Good
<1>13. CASE zeros # Len(q)
  <2>1. Len(rest) = Len(q) - zeros - 1 /\ zeros < Len(q)
    BY <1>1, <1>3, <1>4, <1>13, SMTT(30)
  <2>2. q[zeros + 1] \in Nat /\ q[zeros + 1] # 0
    <3>1. zeros + 1 \in 1..Len(q)
      BY <1>1, <1>5, <2>1, SMTT(30)
    <3> QED
      BY <1>1, <1>3, <2>1, <3>1, ElementOfSeq, Zenon
  <2>3. e.submit = e.id + e.rejected + Len(e.queue) + 1
    <3>1. d.submit = d.id + zeros + d.rejected + (Len(q) - zeros - 1) + 1
      BY <1>1, <1>5, SMTT(30)
    <3> QED
      BY <1>7, <1>10, <1>11, <2>1, <3>1, Zenon
  <2>4. Launching(e, a)
    BY <1>7, <1>10, <1>11, <2>3, Zenon DEF Launching
  <2>5. Good(StartKernel(e, q[zeros + 1]), a) /\ Settled(StartKernel(e, q[zeros + 1]))
    BY <2>2, <2>4, StartKernelGood, Zenon
  <2> QED
    BY <1>2, <1>13, <2>5, Zenon
<1> QED
  BY <1>12, <1>13, Zenon

\* retireIfReady
LEMMA RetireGood ==
    ASSUME NEW d, NEW a \in Nat, Good(d, a), Work(d) => d.hold
    PROVE  Good(Retire(d), a) /\ Settled(Retire(d))
<1>1. /\ d \in Dev /\ d.id \in Nat /\ d.id + 1 \in Nat /\ d.rejected \in Nat /\ d.events \in Nat
      /\ Len(d.queue) \in Nat /\ d.left \in Nat /\ d.submit \in Nat
  BY LenProperties DEF Good, Dev
<1>2. CASE ~d.busy \/ d.left > 0
  <2>1. Retire(d) = d
    BY <1>2, Zenon DEF Retire
  <2> QED
    BY <1>2, <2>1, Zenon DEF Settled
<1>3. CASE d.busy /\ ~(d.left > 0) /\ kernel
  <2> DEFINE c == [d EXCEPT !.busy = FALSE]
  <2>1. d.phase = "reading"
    BY <1>3, Zenon DEF Good, Ledger
  <2>2. Retire(d) = BeginWriteback(c)
    BY <1>3, <2>1, Zenon DEF Retire
  <2>3. c \in Dev
    BY <1>1, Zenon DEF Dev
  <2>4. /\ c.busy = FALSE /\ c.id = d.id /\ c.submit = d.submit
        /\ c.rejected = d.rejected /\ c.queue = d.queue /\ c.line = d.line
        /\ c.events = d.events /\ c.phase = d.phase /\ c.next = d.next /\ c.out = d.out
        /\ c.got = d.got /\ c.written = d.written /\ c.last = d.last
    BY <1>1, Zenon DEF Dev
  <2> HIDE DEF c
  <2>5. Dma(c)
    BY <2>1, <2>4, Zenon DEF Good, Dma
  <2>6. Ledger(c)
    BY <1>3, <2>4, Zenon DEF Good, Ledger, Open
  <2>7. Due(c, a, 0)
    BY <2>4, Zenon DEF Good, Due
  <2>8. c.out = {} /\ c.next = InChunks
    BY <1>3, <2>1, <2>4, Zenon DEF Good, Dma
  <2>9. Computed(c, a)
    BY <1>3, <2>1, <2>3, <2>4, <2>5, <2>6, <2>7, <2>8, Zenon DEF Computed, Good
  <2> QED
    BY <2>2, <2>9, BeginWritebackGood, Zenon
<1>4. CASE d.busy /\ ~(d.left > 0) /\ ~kernel
  <2> DEFINE c == [d EXCEPT !.id = d.id + 1, !.busy = FALSE]
             e == Release(c)
             f == Raise(e, 1)
  <2>1. Retire(d) = Pop(f)
    BY <1>4, Zenon DEF Retire
  <2>2. c \in Dev
    BY <1>1, Zenon DEF Dev
  <2>3. /\ c.busy = FALSE /\ c.id = d.id + 1 /\ c.submit = d.submit
        /\ c.rejected = d.rejected /\ c.queue = d.queue /\ c.line = d.line
        /\ c.events = d.events /\ c.phase = d.phase /\ c.out = d.out /\ c.last = d.last
    BY <1>1, Zenon DEF Dev
  <2> HIDE DEF c
  <2>4. d.phase = "idle" /\ d.last = "none" /\ d.submit <= MaxSubmits
        /\ d.submit = d.id + d.rejected + (Len(d.queue) + 1)
    BY <1>4, Zenon DEF Good, Ledger, Open
  <2>5. d.submit = (d.id + 1) + d.rejected + Len(d.queue)
    <3>1. PICK n \in Nat : n = Len(d.queue)
      BY <1>1, Zenon
    <3>2. d.submit = d.id + d.rejected + (n + 1)
      BY <2>4, <3>1, Zenon
    <3>3. d.submit = (d.id + 1) + d.rejected + n
      BY <1>1, <3>2, SMTT(30)
    <3> QED
      BY <3>1, <3>3, Zenon
  <2>6. Dma(c)
    BY <2>3, <2>4, Zenon DEF Good, Dma
  <2>7. Due(c, a, 1)
    <3>1. irq => (d.line <=> d.events > 0) /\ d.id = a + d.events + 0
      BY Zenon DEF Good, Due
    <3>2. irq => d.id + 1 = a + d.events + 1
      BY <1>1, <3>1
    <3>3. ~irq => ~d.line /\ d.events = 0 /\ a = 0
      BY Zenon DEF Good, Due
    <3> QED
      BY <2>3, <3>1, <3>2, <3>3, Zenon DEF Due
  <2>8. /\ e \in Dev /\ Dma(e) /\ Due(e, a, 1) /\ e.busy = c.busy /\ e.queue = c.queue
        /\ e.phase = c.phase /\ e.last = c.last /\ e.submit = c.submit /\ e.id = c.id
        /\ e.rejected = c.rejected
    BY <2>2, <2>6, <2>7, ReleaseKeeps, Zenon
  <2> HIDE DEF e
  <2>9. f \in Dev /\ Dma(f) /\ Due(f, a, 0) /\ f.queue = e.queue
    BY <2>8, RaiseKeeps, Zenon
  <2>10. /\ f.busy = e.busy /\ f.id = e.id /\ f.submit = e.submit /\ f.rejected = e.rejected
         /\ f.phase = e.phase /\ f.last = e.last
    BY <2>8, Zenon DEF Raise, Dev
  <2> HIDE DEF f
  <2>11. f.submit = f.id + f.rejected + Len(f.queue) /\ f.submit <= MaxSubmits
    BY <2>3, <2>4, <2>5, <2>8, <2>9, <2>10, ZenonT(60)
  <2>12. Good(Pop(f), a) /\ Settled(Pop(f))
    BY <1>4, <2>3, <2>4, <2>8, <2>9, <2>10, <2>11, PopGood, ZenonT(60)
  <2> QED
    BY <2>1, <2>12, Zenon
<1> QED
  BY <1>2, <1>3, <1>4, Zenon

\* opStartDma, for a doorbell just accepted.
LEMMA StartDmaGood ==
    ASSUME NEW d, NEW a, d \in Dev, kernel, Due(d, a, 0), d.queue = << >>, ~d.busy,
           d.submit = d.id + d.rejected + 1, d.submit <= MaxSubmits
    PROVE  Good(StartDma(d), a) /\ Settled(StartDma(d))
<1>1. CASE d.op = "badArgs"
  BY <1>1, RejectGood, Zenon DEF StartDma
<1>2. CASE d.op # "badArgs"
  <2> DEFINE c == [d EXCEPT !.phase = "reading", !.out = {}, !.next = 0,
                            !.got = {}, !.written = {}]
             e == Issue(c, InChunks)
  <2>1. StartDma(d) = Hold(e, FALSE)
    BY <1>2, Zenon DEF StartDma
  <2>2. c \in Dev
    BY Zenon DEF Dev
  <2>3. /\ c.phase = "reading" /\ c.out = {} /\ c.next = 0 /\ c.busy = d.busy
        /\ c.got = {} /\ c.written = {} /\ c.id = d.id /\ c.submit = d.submit
        /\ c.rejected = d.rejected /\ c.queue = d.queue /\ c.line = d.line
        /\ c.events = d.events /\ c.last = d.last
    BY Zenon DEF Dev
  <2> HIDE DEF c
  <2>4. Due(c, a, 0)
    BY <2>3, Zenon DEF Due
  <2>5. Ledger(c)
    <3>1. Open(c) = 1
      BY <2>3, Zenon DEF Open
    <3> QED
      BY <2>3, <3>1, Zenon DEF Ledger
  <2>6. Transfer({}, c.out, c.next, InChunks) /\ InChunks \in Nat
    BY <2>3, Fresh, GpuAssumption, Zenon
  <2>7. /\ e \in Dev /\ Transfer({}, e.out, e.next, InChunks) /\ Due(e, a, 0) /\ Ledger(e)
        /\ e.busy = c.busy /\ e.phase = "reading" /\ e.got = {} /\ e.written = {}
    BY <2>2, <2>3, <2>4, <2>5, <2>6, IssueGood, ZenonT(60)
  <2> HIDE DEF e
  <2>8. Good(e, a)
    BY <2>3, <2>7, Zenon DEF Good, Dma
  <2> QED
    BY <2>1, <2>3, <2>7, <2>8, HoldSettles, Zenon
<1> QED
  BY <1>1, <1>2, Zenon

-----------------------------------------------------------------------------
(* One step, by action.                                                    *)

\* What a handler's guards leave unsaid.
LEMMA Parts ==
    ASSUME IInv
    PROVE  /\ acked \in Nat /\ dev \in Dev /\ Dma(dev) /\ Ledger(dev) /\ Due(dev, acked, 0)
           /\ Good(dev, acked) /\ Settled(dev) /\ (Work(dev) => dev.hold)
           /\ dev.left \in Nat /\ dev.submit \in Nat /\ dev.id \in Nat /\ dev.rejected \in Nat
           /\ dev.events \in Nat /\ dev.busy \in BOOLEAN /\ Len(dev.queue) \in Nat
  BY LenProperties, Zenon DEF IInv, Good, Settled, Dev

\* A handler that leaves the configuration and the history alone has only to
\* leave the device good and settled.
LEMMA DeviceStep ==
    ASSUME IInv, UNCHANGED <<config, acked>>, NEW e, dev' = e, Good(e, acked), Settled(e)
    PROVE  IInv'
<1>1. blocking' = blocking /\ irq' = irq /\ kernel' = kernel /\ acked' = acked
  BY Zenon DEF config
<1>2. Good(dev, acked)'
  BY <1>1, SMTT(30) DEF Good, Dma, Ledger, Open, Due, Dev
<1>3. Settled(dev)'
  BY <1>1, Zenon DEF Settled, Work
<1> QED
  BY <1>1, <1>2, <1>3, Zenon DEF IInv, config

LEMMA TickBusyStep ==
    ASSUME IInv, TickBusy
    PROVE  IInv'
<1> DEFINE c == [dev EXCEPT !.left = IF dev.busy THEN dev.left - 1 ELSE dev.left]
<1>1. dev' = Hold(Retire(c), TRUE) /\ UNCHANGED <<config, acked>>
  BY Zenon DEF TickBusy
<1>2. (IF dev.busy THEN dev.left - 1 ELSE dev.left) \in Nat
  BY Parts DEF Settled
<1>3. c \in Dev
  BY <1>2, Parts, Zenon DEF Dev
<1>4. /\ c.busy = dev.busy /\ c.id = dev.id /\ c.submit = dev.submit
      /\ c.rejected = dev.rejected /\ c.queue = dev.queue /\ c.line = dev.line
      /\ c.events = dev.events /\ c.phase = dev.phase /\ c.next = dev.next /\ c.out = dev.out
      /\ c.got = dev.got /\ c.written = dev.written /\ c.last = dev.last /\ c.hold = dev.hold
  BY Parts, Zenon DEF Dev
<1> HIDE DEF c
<1>5. Good(c, acked)
  <2>1. Dma(c)
    BY <1>4, Parts, Zenon DEF Dma
  <2>2. Ledger(c)
    BY <1>4, Parts, Zenon DEF Ledger, Open
  <2>3. Due(c, acked, 0)
    BY <1>4, Parts, Zenon DEF Due
  <2> QED
    BY <1>3, <2>1, <2>2, <2>3, Zenon DEF Good
<1>6. Work(c) => c.hold
  BY <1>4, Parts, Zenon DEF Work
<1>7. Good(Retire(c), acked) /\ Settled(Retire(c))
  BY <1>5, <1>6, RetireGood, Parts, Zenon
<1>8. Good(Hold(Retire(c), TRUE), acked) /\ Settled(Hold(Retire(c), TRUE))
  BY <1>7, HoldSettles, Zenon DEF Settled
<1> QED
  BY <1>1, <1>8, DeviceStep, Zenon

\* Three fields that the invariant does not constrain.
LEMMA Incidental ==
    ASSUME NEW d, NEW a, Good(d, a), Settled(d), NEW e,
           \/ e = [d EXCEPT !.fatal = TRUE]
           \/ \E r \in Requesters : e = [d EXCEPT !.held = r]
           \/ \E latency \in Latencies : e = [d EXCEPT !.override = latency]
    PROVE  Good(e, a) /\ Settled(e)
<1>1. d \in Dev
  BY Zenon DEF Good
<1>2. e \in Dev
  <2>1. CASE e = [d EXCEPT !.fatal = TRUE]
    BY <1>1, <2>1, Zenon DEF Dev
  <2>2. ASSUME NEW r \in Requesters, e = [d EXCEPT !.held = r] PROVE e \in Dev
    BY <1>1, <2>2, Zenon DEF Dev
  <2>3. ASSUME NEW latency \in Latencies, e = [d EXCEPT !.override = latency] PROVE e \in Dev
    BY <1>1, <2>3, Zenon DEF Dev
  <2> QED
    BY <2>1, <2>2, <2>3, Zenon
<1>3. /\ e.busy = d.busy /\ e.left = d.left /\ e.id = d.id /\ e.submit = d.submit
      /\ e.rejected = d.rejected /\ e.queue = d.queue /\ e.line = d.line
      /\ e.events = d.events /\ e.phase = d.phase /\ e.next = d.next /\ e.out = d.out
      /\ e.got = d.got /\ e.written = d.written /\ e.last = d.last /\ e.hold = d.hold
  BY <1>1 DEF Dev
<1>4. Dma(e)
  BY <1>3, Zenon DEF Good, Dma
<1>5. Ledger(e)
  BY <1>3, ZenonT(60) DEF Good, Ledger, Open
<1>6. Due(e, a, 0)
  BY <1>3, Zenon DEF Good, Due
<1>7. Settled(e)
  BY <1>3, Zenon DEF Settled, Work
<1> QED
  BY <1>2, <1>4, <1>5, <1>6, <1>7, Zenon DEF Good

LEMMA DoorbellKernelStep ==
    ASSUME IInv, NEW r \in Requesters, NEW op \in Ops, DoorbellKernel(r, op)
    PROVE  IInv'
<1> DEFINE c == [dev EXCEPT !.held = IF blocking THEN r ELSE dev.held,
                            !.submit = dev.submit + 1, !.op = op]
<1>1. /\ kernel /\ dev.submit < MaxSubmits /\ UNCHANGED <<config, acked>>
      /\ dev' = IF dev.phase # "idle" \/ dev.busy THEN [dev EXCEPT !.fatal = TRUE]
                ELSE StartDma(c)
  BY Zenon DEF DoorbellKernel
<1>2. CASE dev.phase # "idle" \/ dev.busy
  <2>1. dev' = [dev EXCEPT !.fatal = TRUE]
    BY <1>1, <1>2, Zenon
  <2>2. Good([dev EXCEPT !.fatal = TRUE], acked) /\ Settled([dev EXCEPT !.fatal = TRUE])
    BY Parts, Incidental, Zenon
  <2> QED
    BY <1>1, <2>1, <2>2, DeviceStep, Zenon
<1>3. CASE dev.phase = "idle" /\ ~dev.busy
  <2>1. dev.submit + 1 \in Nat /\ (IF blocking THEN r ELSE dev.held) \in Requesters \union {None}
    BY Parts DEF Dev
  <2>2. c \in Dev
    BY <2>1, Parts, Zenon DEF Dev
  <2>3. /\ c.busy = dev.busy /\ c.id = dev.id /\ c.submit = dev.submit + 1
        /\ c.rejected = dev.rejected /\ c.queue = dev.queue /\ c.line = dev.line
        /\ c.events = dev.events
    BY Parts, Zenon DEF Dev
  <2>4. dev' = StartDma(c)
    BY <1>1, <1>3, Zenon
  <2> HIDE DEF c
  <2>5. dev.queue = << >> /\ dev.submit = dev.id + dev.rejected + 0
    BY <1>1, <1>3, Parts, Zenon DEF Ledger, Open
  <2>6. c.submit = c.id + c.rejected + 1 /\ c.submit <= MaxSubmits
    BY <1>1, <2>3, <2>5, Parts, GpuAssumption, SMTT(30)
  <2>7. Due(c, acked, 0)
    BY <2>3, Parts, Zenon DEF Due
  <2>8. Good(StartDma(c), acked) /\ Settled(StartDma(c))
    BY <1>1, <1>3, <2>2, <2>3, <2>5, <2>6, <2>7, StartDmaGood, ZenonT(60)
  <2> QED
    BY <1>1, <2>4, <2>8, DeviceStep, Zenon
<1> QED
  BY <1>2, <1>3, Zenon

\* The queue takes one more launch.
LEMMA QueueGood ==
    ASSUME NEW d, NEW a, Good(d, a), Settled(d), ~kernel, d.busy \/ d.queue # << >>,
           d.submit < MaxSubmits, NEW latency \in Delays
    PROVE  LET e == [d EXCEPT !.submit = d.submit + 1, !.queue = Append(d.queue, latency)]
           IN  Good(Hold(e, FALSE), a) /\ Settled(Hold(e, FALSE))
<1> DEFINE e == [d EXCEPT !.submit = d.submit + 1, !.queue = Append(d.queue, latency)]
<1>1. /\ d \in Dev /\ d.id \in Nat /\ d.submit \in Nat /\ d.submit + 1 \in Nat
      /\ d.rejected \in Nat /\ d.queue \in Seq(Delays) /\ Len(d.queue) \in Nat
  BY LenProperties, SMTT(30) DEF Good, Dev
<1>2. /\ Append(d.queue, latency) \in Seq(Delays)
      /\ Len(Append(d.queue, latency)) = Len(d.queue) + 1
  BY <1>1, AppendProperties, SMTT(30)
<1>3. d.busy /\ d.phase = "idle" /\ d.last = "none" /\ d.submit <= MaxSubmits
  BY Zenon DEF Good, Ledger
<1>4. e \in Dev
  BY <1>1, <1>2, Zenon DEF Dev
<1>5. /\ e.busy = d.busy /\ e.left = d.left /\ e.id = d.id /\ e.submit = d.submit + 1
      /\ e.rejected = d.rejected /\ e.queue = Append(d.queue, latency) /\ e.line = d.line
      /\ e.events = d.events /\ e.phase = d.phase /\ e.out = d.out /\ e.last = d.last
  BY <1>1, Zenon DEF Dev
<1> HIDE DEF e
<1>6. Dma(e)
  BY <1>3, <1>5, Zenon DEF Good, Dma
<1>7. Ledger(e)
  <2>1. d.submit = d.id + d.rejected + Open(d)
    BY Zenon DEF Good, Ledger
  <2>2. Open(d) \in Nat /\ Open(e) = Open(d) + 1
    BY <1>1, <1>2, <1>3, <1>5, SMTT(30) DEF Open
  <2>3. d.submit + 1 = d.id + d.rejected + (Open(d) + 1)
    BY <1>1, <2>1, <2>2, SMTT(30)
  <2>4. e.submit = e.id + e.rejected + Open(e)
    BY <1>5, <2>2, <2>3, Zenon
  <2>5. e.submit <= MaxSubmits
    BY <1>1, <1>5, GpuAssumption, SMTT(30)
  <2> QED
    BY <1>3, <1>5, <2>4, <2>5, Zenon DEF Ledger
<1>8. Due(e, a, 0)
  BY <1>5, Zenon DEF Good, Due
<1>9. Good(e, a) /\ (e.busy => e.left > 0)
  BY <1>4, <1>5, <1>6, <1>7, <1>8, Zenon DEF Good, Settled
<1> QED
  BY <1>9, HoldSettles, Zenon DEF e

\* Between two handlers nothing is ready to retire that has not.
LEMMA DoorbellLatencyStep ==
    ASSUME IInv, NEW r \in Requesters, DoorbellLatency(r)
    PROVE  IInv'
<1> DEFINE latency == IF dev.override = 0 THEN KernelLatency ELSE dev.override
           c == [dev EXCEPT !.override = 0]
           d == Retire(c)
           s == [d EXCEPT !.submit = d.submit + 1]
           t == [d EXCEPT !.submit = d.submit + 1, !.queue = Append(d.queue, latency)]
           e == IF ~d.busy /\ d.queue = << >> THEN StartKernel(s, latency)
                ELSE IF Len(d.queue) < MaxPending THEN Hold(t, FALSE)
                ELSE d
<1>1. /\ ~kernel /\ dev.submit < MaxSubmits /\ UNCHANGED <<config, acked>>
      /\ dev' = IF ~blocking \/ ~e.busy THEN e
                ELSE IF e.held # None THEN [e EXCEPT !.fatal = TRUE]
                ELSE [e EXCEPT !.held = r]
  BY Zenon DEF DoorbellLatency
<1>2. latency \in Delays /\ latency \in Nat
  BY Parts, GpuAssumption, Zenon DEF Dev, Delays
<1> HIDE DEF latency
<1>3. Good(c, acked) /\ Settled(c)
  BY Parts, Incidental, GpuAssumption, Zenon
<1>4. Good(d, acked) /\ Settled(d) /\ d = c
  BY <1>3, Zenon DEF Retire, Settled
<1>5. d.submit < MaxSubmits
  BY <1>1, <1>4, Parts, Zenon DEF Dev
<1> HIDE DEF c, d
<1>6. Good(e, acked) /\ Settled(e)
  <2>1. CASE ~d.busy /\ d.queue = << >>
    <3>1. /\ d \in Dev /\ d.submit \in Nat /\ d.submit + 1 \in Nat /\ d.id \in Nat
          /\ d.rejected \in Nat
      BY <1>4 DEF Good, Dev
    <3>2. s \in Dev
      BY <3>1, Zenon DEF Dev
    <3>3. /\ s.busy = d.busy /\ s.id = d.id /\ s.submit = d.submit + 1
          /\ s.rejected = d.rejected /\ s.queue = d.queue /\ s.line = d.line
          /\ s.events = d.events /\ s.phase = d.phase /\ s.out = d.out /\ s.last = d.last
      BY <3>1, Zenon DEF Dev
    <3> HIDE DEF s
    <3>4. d.phase = "idle" /\ d.last = "none" /\ d.submit = d.id + d.rejected + 0
      <4>1. Len(d.queue) = 0
        BY <2>1, SMTT(30)
      <4> QED
        BY <1>1, <1>4, <2>1, <4>1, SMTT(30) DEF Good, Ledger, Open
    <3>5. s.submit = s.id + s.rejected + Len(s.queue) + 1 /\ s.submit <= MaxSubmits
      <4>1. Len(s.queue) = 0
        BY <2>1, <3>3
      <4> QED
        BY <1>5, <3>1, <3>3, <3>4, <4>1, GpuAssumption, SMTT(30)
    <3>6. Dma(s) /\ Due(s, acked, 0)
      BY <1>4, <3>3, <3>4, Zenon DEF Good, Dma, Due
    <3>7. Launching(s, acked)
      BY <1>1, <2>1, <3>2, <3>3, <3>4, <3>5, <3>6, ZenonT(60) DEF Launching
    <3>8. s.queue = << >>
      BY <2>1, <3>3, Zenon
    <3>9. Good(StartKernel(s, latency), acked) /\ Settled(StartKernel(s, latency))
      BY <1>2, <3>7, <3>8, StartKernelGood, Parts, Zenon
    <3> QED
      BY <2>1, <3>9, Zenon
  <2>2. CASE ~(~d.busy /\ d.queue = << >>) /\ Len(d.queue) < MaxPending
    <3>1. Good(Hold(t, FALSE), acked) /\ Settled(Hold(t, FALSE))
      BY <1>1, <1>2, <1>4, <1>5, <2>2, QueueGood, Zenon
    <3> QED
      BY <2>2, <3>1, Zenon
  <2>3. CASE ~(~d.busy /\ d.queue = << >>) /\ ~(Len(d.queue) < MaxPending)
    BY <1>4, <2>3, Zenon
  <2> QED
    BY <2>1, <2>2, <2>3, Zenon
<1> HIDE DEF e
<1>7. Good(dev', acked) /\ Settled(dev')
  BY <1>1, <1>6, Incidental, Zenon
<1> QED
  BY <1>1, <1>7, DeviceStep, Zenon


LEMMA WriteOverrideStep ==
    ASSUME IInv, NEW r \in Requesters, NEW latency \in Latencies, WriteOverride(r, latency)
    PROVE  IInv'
<1>1. Good(dev', acked) /\ Settled(dev')
  BY Parts, Incidental, Zenon DEF WriteOverride
<1> QED
  BY <1>1, DeviceStep, Zenon DEF WriteOverride

LEMMA ReadRegisterStep ==
    ASSUME IInv, NEW r \in Requesters, ReadRegister(r)
    PROVE  IInv'
<1>1. dev' = dev
  BY Parts, Zenon DEF ReadRegister, Retire, Settled
<1> QED
  BY <1>1, Parts, DeviceStep, Zenon DEF ReadRegister

\* What an ack takes from the counter it adds to the history.
LEMMA AckStep ==
    ASSUME IInv, NEW r \in Requesters, NEW n \in 1..2, Ack(r, n)
    PROVE  IInv'
<1> DEFINE consumed == IF n < dev.events THEN n ELSE dev.events
           e == [dev EXCEPT !.events = dev.events - consumed, !.line = dev.events > consumed]
<1>1. /\ irq /\ dev' = e /\ acked' = acked + consumed
      /\ blocking' = blocking /\ irq' = irq /\ kernel' = kernel /\ config' = config
  BY Zenon DEF Ack, config
<1>2. /\ consumed \in Nat /\ dev.events - consumed \in Nat /\ acked + consumed \in Nat
      /\ dev.events > consumed <=> dev.events - consumed > 0
      /\ acked + dev.events + 0 = (acked + consumed) + (dev.events - consumed) + 0
      /\ (dev.events > consumed) \in BOOLEAN
  BY Parts, SMTT(30)
<1> HIDE DEF consumed
<1>3. e \in Dev
  BY <1>2, Parts, Zenon DEF Dev
<1>4. /\ e.busy = dev.busy /\ e.left = dev.left /\ e.id = dev.id /\ e.submit = dev.submit
      /\ e.rejected = dev.rejected /\ e.queue = dev.queue /\ e.phase = dev.phase
      /\ e.next = dev.next /\ e.out = dev.out /\ e.got = dev.got /\ e.written = dev.written
      /\ e.last = dev.last /\ e.hold = dev.hold
      /\ e.line = (dev.events > consumed) /\ e.events = dev.events - consumed
  BY Parts, Zenon DEF Dev
<1> HIDE DEF e
<1>5. Dma(e) /\ Ledger(e) /\ Settled(e)
  BY <1>4, Parts, ZenonT(60) DEF Dma, Ledger, Open, Settled, Work
<1>6. Due(e, acked + consumed, 0)
  BY <1>1, <1>2, <1>4, Parts, Zenon DEF Due
<1>7. Good(e, acked + consumed)
  BY <1>3, <1>5, <1>6, Zenon DEF Good
<1>8. Good(dev, acked)'
  BY <1>1, <1>7, ZenonT(60) DEF Good, Dma, Ledger, Open, Due, Dev
<1>9. Settled(dev)'
  BY <1>1, <1>5, Zenon DEF Settled, Work
<1> QED
  BY <1>1, <1>2, <1>8, <1>9, Parts, Zenon DEF IInv


\* The requests in flight stay a finite set within the window when one of them
\* is answered.
LEMMA Answered ==
    ASSUME NEW g, NEW o, NEW n \in Nat, NEW total, Transfer(g, o, n, total), NEW c \in o
    PROVE  Transfer(g \union {c}, o \ {c}, n, total)
<1>1. IsFiniteSet(1..n)
  BY FS_Interval
<1>2. IsFiniteSet(o) /\ Cardinality(o) \in Nat
  BY <1>1, FS_Subset, FS_CardinalityType, Zenon DEF Transfer
<1>3. Cardinality(o \ {c}) = Cardinality(o) - 1
  BY <1>2, FS_RemoveElement, Zenon
<1>4. Cardinality(o \ {c}) <= Window
  BY <1>2, <1>3, GpuAssumption, SMTT(30) DEF Transfer
<1>5. /\ (g \union {c}) \union (o \ {c}) = 1..n
      /\ (g \union {c}) \intersect (o \ {c}) = {}
  BY Zenon DEF Transfer
<1> QED
  BY <1>4, <1>5, Zenon DEF Transfer

LEMMA ReadRespStep ==
    ASSUME IInv, NEW c \in 1..InChunks, NEW opinion \in Latencies, ReadResp(c, opinion)
    PROVE  IInv'
<1> DEFINE b == [dev EXCEPT !.out = dev.out \ {c}, !.got = dev.got \union {c}]
           d == Issue(b, InChunks)
<1>1. /\ dev.phase = "reading" /\ c \in dev.out /\ UNCHANGED <<config, acked>>
      /\ dev' = IF d.out = {} /\ d.next = InChunks THEN Compute(d, opinion) ELSE d
  BY Zenon DEF ReadResp
<1>2. kernel /\ ~dev.busy /\ dev.hold
  BY <1>1, Parts, Zenon DEF Ledger, Dma, Settled, Work
<1>3. b \in Dev
  BY Parts, Zenon DEF Dev
<1>4. /\ b.busy = dev.busy /\ b.left = dev.left /\ b.id = dev.id /\ b.submit = dev.submit
      /\ b.rejected = dev.rejected /\ b.queue = dev.queue /\ b.line = dev.line
      /\ b.events = dev.events /\ b.phase = dev.phase /\ b.next = dev.next
      /\ b.written = dev.written /\ b.last = dev.last /\ b.hold = dev.hold
      /\ b.out = dev.out \ {c} /\ b.got = dev.got \union {c}
  BY Parts, Zenon DEF Dev
<1> HIDE DEF b
<1>5. Transfer(b.got, b.out, b.next, InChunks)
  <2>1. dev.next \in Nat /\ Transfer(dev.got, dev.out, dev.next, InChunks)
    BY <1>1, Parts, Zenon DEF Dma, Dev
  <2> QED
    BY <1>1, <1>4, <2>1, Answered, SMTT(30)
<1>6. Ledger(b) /\ Due(b, acked, 0)
  BY <1>4, Parts, ZenonT(30) DEF Ledger, Open, Due
<1>7. InChunks \in Nat /\ b.got \in SUBSET Nat
  BY <1>3, GpuAssumption, SMTT(30) DEF Dev
<1>8. /\ d \in Dev /\ Transfer(b.got, d.out, d.next, InChunks)
      /\ Due(d, acked, 0) /\ Ledger(d)
      /\ d.busy = b.busy /\ d.phase = b.phase /\ d.got = b.got /\ d.written = b.written
      /\ d.hold = b.hold
  BY <1>3, <1>5, <1>6, <1>7, IssueGood, Zenon
<1> HIDE DEF d
<1>9. Dma(d)
  BY <1>1, <1>2, <1>4, <1>8, Parts, ZenonT(30) DEF Dma
<1>10. Good(d, acked) /\ Settled(d)
  BY <1>2, <1>4, <1>8, <1>9, ZenonT(30) DEF Good, Settled
<1>11. CASE d.out = {} /\ d.next = InChunks
  <2>1. Computed(d, acked)
    BY <1>1, <1>2, <1>4, <1>8, <1>10, <1>11, Zenon DEF Computed
  <2>2. Good(Compute(d, opinion), acked) /\ Settled(Compute(d, opinion))
    BY <2>1, ComputeGood, Zenon
  <2> QED
    BY <1>1, <1>11, <2>2, DeviceStep, Zenon
<1>12. CASE ~(d.out = {} /\ d.next = InChunks)
  BY <1>1, <1>10, <1>12, DeviceStep, Zenon
<1> QED
  BY <1>11, <1>12, Zenon

LEMMA WriteRespStep ==
    ASSUME IInv, NEW c \in 1..OutChunks, WriteResp(c)
    PROVE  IInv'
<1> DEFINE b == [dev EXCEPT !.out = dev.out \ {c}, !.written = dev.written \union {c}]
           d == Issue(b, OutChunks)
<1>1. /\ dev.phase = "writing" /\ c \in dev.out /\ UNCHANGED <<config, acked>>
      /\ dev' = IF d.out = {} /\ d.next = OutChunks THEN Finish(d) ELSE d
  BY Zenon DEF WriteResp
<1>2. kernel /\ ~dev.busy /\ dev.hold
  BY <1>1, Parts, Zenon DEF Ledger, Dma, Settled, Work
<1>3. b \in Dev
  BY Parts, Zenon DEF Dev
<1>4. /\ b.busy = dev.busy /\ b.left = dev.left /\ b.id = dev.id /\ b.submit = dev.submit
      /\ b.rejected = dev.rejected /\ b.queue = dev.queue /\ b.line = dev.line
      /\ b.events = dev.events /\ b.phase = dev.phase /\ b.next = dev.next
      /\ b.got = dev.got /\ b.last = dev.last /\ b.hold = dev.hold
      /\ b.out = dev.out \ {c} /\ b.written = dev.written \union {c}
  BY Parts, Zenon DEF Dev
<1> HIDE DEF b
<1>5. Transfer(b.written, b.out, b.next, OutChunks)
  <2>1. dev.next \in Nat /\ Transfer(dev.written, dev.out, dev.next, OutChunks)
    BY <1>1, Parts, Zenon DEF Dma, Dev
  <2> QED
    BY <1>1, <1>4, <2>1, Answered, SMTT(30)
<1>6. Ledger(b) /\ Due(b, acked, 0)
  BY <1>4, Parts, ZenonT(60) DEF Ledger, Open, Due
<1>7. OutChunks \in Nat /\ b.written \in SUBSET Nat
  BY <1>3, GpuAssumption, SMTT(30) DEF Dev
<1>8. /\ d \in Dev /\ Transfer(b.written, d.out, d.next, OutChunks)
      /\ Due(d, acked, 0) /\ Ledger(d)
      /\ d.busy = b.busy /\ d.phase = b.phase /\ d.got = b.got /\ d.written = b.written
      /\ d.hold = b.hold
  BY <1>3, <1>5, <1>6, <1>7, IssueGood, Zenon
<1> HIDE DEF d
<1>9. Dma(d)
  <2>1. d.phase = "writing" /\ ~d.busy /\ Transfer(d.written, d.out, d.next, OutChunks)
    BY <1>1, <1>2, <1>4, <1>8, Zenon
  <2>2. d.got = 1..InChunks
    <3>1. dev.got = 1..InChunks
      BY <1>1, Parts, Zenon DEF Dma
    <3> QED
      BY <1>4, <1>8, <3>1, Zenon
  <2> QED
    BY <2>1, <2>2, Zenon DEF Dma
<1>10. Good(d, acked) /\ Settled(d)
  BY <1>2, <1>4, <1>8, <1>9, Zenon DEF Good, Settled
<1>11. CASE d.out = {} /\ d.next = OutChunks
  <2>1. Good(Finish(d), acked) /\ Settled(Finish(d))
    BY <1>1, <1>2, <1>4, <1>8, <1>10, <1>11, Parts, FinishGood, ZenonT(60)
  <2> QED
    BY <1>1, <1>11, <2>1, DeviceStep, Zenon
<1>12. CASE ~(d.out = {} /\ d.next = OutChunks)
  BY <1>1, <1>10, <1>12, DeviceStep, Zenon
<1> QED
  BY <1>11, <1>12, Zenon


-----------------------------------------------------------------------------
(* The invariant and what follows from it.                                 *)

LEMMA InitIInv == Init => IInv
<1> SUFFICES ASSUME Init PROVE IInv
  BY Zenon
<1>1. /\ dev \in Dev /\ dev.busy = FALSE /\ dev.id = 0 /\ dev.submit = 0 /\ dev.rejected = 0
      /\ dev.queue = << >> /\ dev.line = FALSE /\ dev.events = 0 /\ dev.phase = "idle"
      /\ dev.out = {} /\ dev.last = "none"
  BY GpuAssumption DEF Init, Dev, Delays, Ops
<1>2. config \in BOOLEAN \X BOOLEAN \X Kernels /\ acked = 0
  BY Zenon DEF Init, config
<1>3. Dma(dev)
  BY <1>1, Zenon DEF Dma
<1>4. Open(dev) = 0
  <2>1. Len(dev.queue) = 0
    BY <1>1, Zenon
  <2> QED
    BY <1>1, <2>1 DEF Open
<1>5. Ledger(dev)
  BY <1>1, <1>4, GpuAssumption, SMTT(30) DEF Ledger
<1>6. Due(dev, acked, 0)
  BY <1>1, <1>2 DEF Due
<1>7. Settled(dev)
  BY <1>1, Zenon DEF Settled, Work
<1> QED
  BY <1>1, <1>2, <1>3, <1>5, <1>6, <1>7, Zenon DEF IInv, Good

LEMMA NextIInv == IInv /\ [Next]_vars => IInv'
<1> SUFFICES ASSUME IInv, [Next]_vars PROVE IInv'
  OBVIOUS
<1>1. CASE TickBusy
  BY <1>1, TickBusyStep, Zenon
<1>2. ASSUME NEW r \in Requesters, NEW op \in Ops, DoorbellKernel(r, op) PROVE IInv'
  BY <1>2, DoorbellKernelStep, Zenon
<1>3. ASSUME NEW r \in Requesters, DoorbellLatency(r) PROVE IInv'
  BY <1>3, DoorbellLatencyStep, Zenon
<1>4. ASSUME NEW r \in Requesters, NEW latency \in Latencies, WriteOverride(r, latency)
      PROVE  IInv'
  BY <1>4, WriteOverrideStep, Zenon
<1>5. ASSUME NEW r \in Requesters, NEW n \in 1..2, Ack(r, n) PROVE IInv'
  BY <1>5, AckStep, Zenon
<1>6. ASSUME NEW r \in Requesters, ReadRegister(r) PROVE IInv'
  BY <1>6, ReadRegisterStep, Zenon
<1>7. ASSUME NEW c \in 1..InChunks, NEW opinion \in Latencies, ReadResp(c, opinion)
      PROVE  IInv'
  BY <1>7, ReadRespStep, Zenon
<1>8. ASSUME NEW c \in 1..OutChunks, WriteResp(c) PROVE IInv'
  BY <1>8, WriteRespStep, Zenon
<1>9. CASE UNCHANGED vars
  <2>1. UNCHANGED <<config, acked>> /\ dev' = dev
    BY <1>9, Zenon DEF vars
  <2> QED
    BY <2>1, Parts, DeviceStep, Zenon
<1> QED
  BY <1>1, <1>2, <1>3, <1>4, <1>5, <1>6, <1>7, <1>8, <1>9, ZenonT(60) DEF Next, Memory

LEMMA Invariance == Spec => []IInv
  BY InitIInv, NextIInv, PTL DEF Spec

\* The counters are bounded by the doorbells rung, and so is what was acked: the
\* bounds of TypeOK follow from the ledger.
LEMMA IInvTypes == IInv => TypeOK
<1> SUFFICES ASSUME IInv PROVE TypeOK
  OBVIOUS
<1>1. PICK n \in Nat : n = Open(dev)
  <2>1. PICK m \in Nat : m = Len(dev.queue)
    BY Parts, Zenon
  <2>2. m + 0 \in Nat /\ m + 1 \in Nat
    OBVIOUS
  <2>3. Open(dev) \in Nat
    BY <2>1, <2>2, Zenon DEF Open
  <2> QED
    BY <2>3, Zenon
<1>2. dev.submit = dev.id + dev.rejected + n /\ dev.submit <= MaxSubmits
  BY <1>1, Parts, Zenon DEF Ledger
<1>3. dev.id <= MaxSubmits /\ dev.rejected <= MaxSubmits
  BY <1>2, Parts, GpuAssumption, SMTT(30)
<1>4. acked <= MaxSubmits /\ dev.events <= MaxSubmits
  BY <1>3, Parts, GpuAssumption, SMTT(30) DEF Due
<1>5. acked \in 0..MaxSubmits /\ dev.events \in 0..MaxSubmits /\ dev.id \in 0..MaxSubmits
      /\ dev.submit \in 0..MaxSubmits /\ dev.rejected \in 0..MaxSubmits
  BY <1>2, <1>3, <1>4, Parts, GpuAssumption, SMTT(30)
<1>6. dev.out \in SUBSET (1..(InChunks + OutChunks)) /\ Cardinality(dev.out) <= Window
  <2>0. InChunks \in Nat /\ OutChunks \in Nat /\ Window \in Nat /\ dev.next \in Nat
        /\ dev.phase \in {"idle", "reading", "writing"}
    BY Parts, GpuAssumption, Zenon DEF Dev
  <2>1. CASE dev.phase = "idle"
    <3>1. dev.out = {} /\ Cardinality(dev.out) = 0
      BY <2>1, Parts, FS_EmptySet, Zenon DEF Dma
    <3> QED
      BY <2>0, <3>1
  <2>2. CASE dev.phase = "reading"
    BY <2>0, <2>2, Parts, SMTT(30) DEF Dma, Transfer
  <2>3. CASE dev.phase = "writing"
    BY <2>0, <2>3, Parts, SMTT(30) DEF Dma, Transfer
  <2> QED
    BY <2>0, <2>1, <2>2, <2>3, Zenon
<1>7. dev \in [busy : BOOLEAN, left : Nat, id : 0..MaxSubmits, submit : 0..MaxSubmits,
               rejected : 0..MaxSubmits, override : Latencies,
               queue : Seq(Latencies \union {KernelLatency}),
               hold : BOOLEAN, held : Requesters \union {None},
               line : BOOLEAN, events : 0..MaxSubmits,
               phase : {"idle", "reading", "writing"}, op : Ops,
               next : Nat, out : SUBSET (1..(InChunks + OutChunks)),
               got : SUBSET (1..InChunks), written : SUBSET (1..OutChunks),
               last : {"none", "done", "rejected"}, fatal : BOOLEAN]
  BY <1>5, <1>6, Parts, Zenon DEF Dev, Delays
<1>8. /\ dev.phase = "reading" => /\ dev.got \union dev.out = 1..dev.next
                                  /\ dev.got \intersect dev.out = {}
      /\ dev.phase = "writing" => /\ dev.written \union dev.out = 1..dev.next
                                  /\ dev.written \intersect dev.out = {}
  BY Parts, Zenon DEF Dma, Transfer
<1> QED
  BY <1>5, <1>6, <1>7, <1>8, Zenon DEF TypeOK, IInv

\* The DMA engine never exceeds its window and neither skips a chunk nor asks for
\* one twice, whatever the order of the responses.
THEOREM TypeCorrect == Spec => []TypeOK
  BY Invariance, IInvTypes, PTL

\* A device that reads idle, or lets the simulation end, has retired or rejected
\* every doorbell it accepted.
THEOREM NoLaunchStranded == Spec => []IdleMeansDone
<1>1. IInv => IdleMeansDone
  <2> SUFFICES ASSUME IInv, ~Status(dev) \/ ~dev.hold
               PROVE  dev.submit = dev.id + dev.rejected
    BY Zenon DEF IdleMeansDone
  <2>1. dev.busy = FALSE /\ dev.phase = "idle" /\ dev.queue = << >>
    BY Parts, Zenon DEF Status, Settled, Work, Ledger, Dev
  <2>2. Open(dev) = 0
    <3>1. Len(dev.queue) = 0
      BY <2>1, SMTT(30)
    <3> QED
      BY <2>1, <3>1 DEF Open
  <2> QED
    BY <2>2, Parts DEF Ledger
<1> QED
  BY <1>1, Invariance, PTL

\* No completion interrupt is lost or counted twice, however acks and
\* retirements interleave.
THEOREM NoCompletionLost == Spec => []CompletionsCounted
<1>1. IInv => CompletionsCounted
  BY Parts, SMTT(30) DEF CompletionsCounted, Due
<1> QED
  BY <1>1, Invariance, PTL

\* A kernel operation is signalled complete only with its output in memory.
THEOREM SignalledAfterResult == Spec => []ResultBeforeSignal
<1>1. IInv => ResultBeforeSignal
  BY Parts, Zenon DEF ResultBeforeSignal, Dma
<1> QED
  BY <1>1, Invariance, PTL

-----------------------------------------------------------------------------
(* The stream device.                                                      *)

DeviceTypes ==
    /\ pace \in Paces /\ pos \in Nat /\ given \in Nat /\ avail \in Nat
    /\ raised \in BOOLEAN /\ level \in BOOLEAN /\ link \in Seq(BOOLEAN)

DeviceInv == DeviceTypes /\ LineIsLevel

LEMMA SeenFacts ==
    ASSUME NEW l \in BOOLEAN, NEW k \in Seq(BOOLEAN)
    PROVE  /\ <<l>> \o k \in Seq(BOOLEAN) /\ Len(<<l>> \o k) = Len(k) + 1 /\ Len(k) \in Nat
           /\ (<<l>> \o k)[1] = l
           /\ \A i \in 1..Len(k) : (<<l>> \o k)[i + 1] = k[i]
<1>1. <<l>> \in Seq(BOOLEAN) /\ Len(<<l>>) = 1 /\ <<l>>[1] = l /\ Len(k) \in Nat
  BY LenProperties
<1>2. /\ <<l>> \o k \in Seq(BOOLEAN) /\ Len(<<l>> \o k) = Len(k) + 1
      /\ \A i \in 1..1 + Len(k) : (<<l>> \o k)[i] = IF i <= 1 THEN <<l>>[i] ELSE k[i - 1]
  BY <1>1, ConcatProperties
<1> QED
  BY <1>1, <1>2

\* An event that differs from the last one keeps the levels alternating.
LEMMA SendEvent ==
    ASSUME NEW l \in BOOLEAN, NEW k \in Seq(BOOLEAN), NEW b \in BOOLEAN,
           Last(<<l>> \o k) # b,
           \A i \in 1..Len(<<l>> \o k) - 1 : (<<l>> \o k)[i] # (<<l>> \o k)[i + 1]
    PROVE  LET s == <<l>> \o Append(k, b)
           IN  /\ Append(k, b) \in Seq(BOOLEAN) /\ Last(s) = b
               /\ \A i \in 1..Len(s) - 1 : s[i] # s[i + 1]
<1> DEFINE t == <<l>> \o k
           s == <<l>> \o Append(k, b)
<1>1. t \in Seq(BOOLEAN) /\ Len(t) \in Nat \ {0}
  BY SeenFacts
<1>2. s = Append(t, b)
  <2>1. Append(k, b) = k \o <<b>> /\ Append(t, b) = t \o <<b>>
    BY <1>1, AppendIsConcat, Zenon
  <2>2. (<<l>> \o k) \o <<b>> = <<l>> \o (k \o <<b>>)
    BY ConcatAssociative
  <2> QED
    BY <2>1, <2>2, Zenon
<1>3. /\ Append(k, b) \in Seq(BOOLEAN)
      /\ Len(s) = Len(t) + 1 /\ s[Len(t) + 1] = b
      /\ \A i \in 1..Len(t) : s[i] = t[i]
  BY <1>1, <1>2, AppendProperties, SMTT(30)
<1> HIDE DEF s, t
<1>4. ASSUME NEW i \in 1..Len(s) - 1 PROVE s[i] # s[i + 1]
  <2>1. CASE i \in 1..Len(t) - 1
    <3>1. t[i] # t[i + 1] /\ s[i] = t[i] /\ s[i + 1] = t[i + 1]
      BY <1>1, <1>3, <2>1, SMTT(30) DEF t
    <3> QED
      BY <3>1, Zenon
  <2>2. CASE i = Len(t)
    BY <1>1, <1>3, <2>2, SMTT(30) DEF t, Last
  <2> QED
    BY <1>1, <1>3, <2>1, <2>2, SMTT(30)
<1> QED
  BY <1>1, <1>3, <1>4, Zenon DEF s, Last

\* Handling the oldest event leaves the end and the alternation as they are.
LEMMA HandleEvent ==
    ASSUME NEW l \in BOOLEAN, NEW k \in Seq(BOOLEAN), k # <<>>,
           \A i \in 1..Len(<<l>> \o k) - 1 : (<<l>> \o k)[i] # (<<l>> \o k)[i + 1]
    PROVE  LET s == <<Head(k)>> \o Tail(k)
           IN  /\ Head(k) \in BOOLEAN /\ Tail(k) \in Seq(BOOLEAN)
               /\ Last(s) = Last(<<l>> \o k)
               /\ \A i \in 1..Len(s) - 1 : s[i] # s[i + 1]
<1> DEFINE t == <<l>> \o k
           s == <<Head(k)>> \o Tail(k)
<1>1. /\ Head(k) \in BOOLEAN /\ Tail(k) \in Seq(BOOLEAN) /\ Len(Tail(k)) = Len(k) - 1
      /\ Len(k) \in Nat \ {0} /\ Head(k) = k[1]
      /\ \A i \in 1..Len(Tail(k)) : Tail(k)[i] = k[i + 1]
  BY HeadTailProperties, EmptySeq, SMTT(30)
<1>2. Len(t) = Len(k) + 1 /\ \A i \in 1..Len(k) : t[i + 1] = k[i]
  BY SeenFacts
<1>3. /\ Len(s) = Len(k) /\ s[1] = k[1]
      /\ \A i \in 1..Len(k) - 1 : s[i + 1] = k[i + 1]
  BY <1>1, SeenFacts
<1> HIDE DEF s, t
<1>4. ASSUME NEW i \in 1..Len(k) PROVE s[i] = t[i + 1]
  <2>1. CASE i = 1
    BY <1>1, <1>2, <1>3, <2>1, Zenon
  <2>2. CASE i # 1
    <3>1. i - 1 \in 1..Len(k) - 1 /\ (i - 1) + 1 = i
      BY <1>1, <2>2
    <3> QED
      BY <1>2, <1>3, <3>1, Zenon
  <2> QED
    BY <2>1, <2>2, Zenon
<1>5. ASSUME NEW i \in 1..Len(s) - 1 PROVE s[i] # s[i + 1]
  <2>1. i \in 1..Len(k) /\ i + 1 \in 1..Len(k) /\ i + 1 \in 1..Len(t) - 1
    BY <1>1, <1>2, <1>3, SMTT(30)
  <2>2. t[i + 1] # t[(i + 1) + 1]
    BY <2>1, Zenon DEF t
  <2> QED
    BY <1>4, <2>1, <2>2, Zenon
<1> QED
  BY <1>1, <1>2, <1>3, <1>4, <1>5, SMTT(30) DEF s, t, Last

\* The part of LineIsLevel about the events.
Events ==
    /\ Last(<<level>> \o link) = raised
    /\ \A i \in 1..Len(<<level>> \o link) - 1 :
          (<<level>> \o link)[i] # (<<level>> \o link)[i + 1]

LEMMA RaiseStep ==
    ASSUME DeviceTypes, HasIrq => Events, level' = level, RaiseDataReady
    PROVE  /\ raised' \in BOOLEAN /\ link' \in Seq(BOOLEAN)
           /\ HasIrq => raised' = TRUE /\ Events'
<1>1. CASE ~HasIrq \/ raised
  BY <1>1, Zenon DEF RaiseDataReady, DeviceTypes, Events
<1>2. CASE HasIrq /\ ~raised
  <2>1. raised' = TRUE /\ link' = Append(link, TRUE) /\ Last(<<level>> \o link) # TRUE
    BY <1>2, Zenon DEF RaiseDataReady, Events, DeviceTypes
  <2>2. LET s == <<level>> \o Append(link, TRUE)
        IN  /\ Append(link, TRUE) \in Seq(BOOLEAN) /\ Last(s) = TRUE
            /\ \A i \in 1..Len(s) - 1 : s[i] # s[i + 1]
    BY <1>2, <2>1, SendEvent, Zenon DEF Events, DeviceTypes
  <2> QED
    BY <2>1, <2>2, Zenon DEF Events
<1> QED
  BY <1>1, <1>2, Zenon

LEMMA StreamAckStep ==
    ASSUME DeviceTypes, HasIrq => Events, level' = level, NEW left \in Nat, AckIrq(left)
    PROVE  /\ raised' \in BOOLEAN /\ link' \in Seq(BOOLEAN)
           /\ HasIrq => Events' /\ (IF left = 0 THEN raised' = FALSE ELSE raised' = raised)
<1>0. (left > 0) <=> (left # 0)
  OBVIOUS
<1>1. CASE ~HasIrq \/ ~raised \/ left > 0
  <2>1. UNCHANGED <<raised, link>>
    BY <1>1, Zenon DEF AckIrq
  <2>2. HasIrq => raised = FALSE \/ left # 0
    BY <1>0, <1>1, Zenon DEF DeviceTypes
  <2> QED
    BY <2>1, <2>2, Zenon DEF DeviceTypes, Events
<1>2. CASE HasIrq /\ raised /\ left = 0
  <2>0. raised' = FALSE /\ link' = Append(link, FALSE)
    BY <1>0, <1>2, Zenon DEF AckIrq
  <2>1. raised' = FALSE /\ link' = Append(link, FALSE) /\ Last(<<level>> \o link) # FALSE
    <3>1. raised = TRUE
      BY <1>2, Zenon DEF DeviceTypes
    <3> QED
      BY <1>2, <2>0, <3>1, Zenon DEF Events
  <2>2. LET s == <<level>> \o Append(link, FALSE)
        IN  /\ Append(link, FALSE) \in Seq(BOOLEAN) /\ Last(s) = FALSE
            /\ \A i \in 1..Len(s) - 1 : s[i] # s[i + 1]
    BY <1>2, <2>1, SendEvent, Zenon DEF Events, DeviceTypes
  <2> QED
    BY <1>2, <2>1, <2>2, Zenon DEF Events
<1> QED
  BY <1>0, <1>1, <1>2, Zenon

LEMMA StreamStep ==
    ASSUME DeviceInv,
           TickPace \/ ReadData \/ Rewind \/ WriteAck \/ Deliver \/ UNCHANGED streamVars
    PROVE  DeviceInv'
<1> /\ DeviceTypes /\ Size \in Nat \ {0} /\ pace \in Nat /\ (HasIrq => pace # 0)
    /\ pos <= given /\ given <= Size /\ avail = given - pos
    /\ HasIrq => (raised <=> avail > 0) /\ Events
    /\ pos \in Nat /\ given \in Nat /\ avail \in Nat
  BY SizeAssumption, PaceAssumption, IrqAssumption, Zenon DEF DeviceInv, DeviceTypes, LineIsLevel, Events
<1>1. CASE TickPace
  <2>1. PICK take \in Nat : /\ take > 0 /\ given' = given + take /\ avail' = avail + take
                            /\ given + take <= Size
    BY <1>1 DEF TickPace
  <2>2. RaiseDataReady /\ UNCHANGED <<pace, pos, level>>
    BY <1>1, Zenon DEF TickPace
  <2>3. /\ raised' \in BOOLEAN /\ link' \in Seq(BOOLEAN)
        /\ HasIrq => raised' = TRUE /\ Events'
    BY <2>2, RaiseStep, Zenon
  <2>4. LineIsLevel'
    <3>1. pos <= given' /\ given' <= Size /\ avail' = given' - pos /\ avail' > 0
      BY <2>1
    <3> QED
      BY <2>2, <2>3, <3>1, Zenon DEF LineIsLevel, Events
  <2> QED
    BY <2>1, <2>2, <2>3, <2>4, SMTT(30) DEF DeviceInv, DeviceTypes
<1>2. CASE ReadData /\ Ready
  <2>1. Want \in Nat \ {0} /\ Want <= avail /\ pos + Want <= Size
    BY <1>2 DEF Ready, EOS, Want, PopMax
  <2>2. /\ pos' = pos + Want /\ avail' = avail - Want
        /\ AckIrq(avail - Want) /\ UNCHANGED <<pace, given, level>>
    BY <1>2, Zenon DEF ReadData
  <2>3. avail - Want \in Nat /\ avail > 0
    BY <2>1
  <2>4. /\ raised' \in BOOLEAN /\ link' \in Seq(BOOLEAN)
        /\ HasIrq => Events' /\ (IF avail - Want = 0 THEN raised' = FALSE ELSE raised' = raised)
    BY <2>2, <2>3, StreamAckStep, ZenonT(60)
  <2>5. LineIsLevel'
    <3>1. pos' <= given /\ avail' = given - pos' /\ (avail' > 0 <=> avail - Want # 0)
      BY <2>1, <2>2, <2>3
    <3> QED
      BY <2>2, <2>3, <2>4, <3>1, Zenon DEF LineIsLevel, Events
  <2> QED
    BY <2>1, <2>2, <2>3, <2>4, <2>5 DEF DeviceInv, DeviceTypes
<1>3. CASE Rewind
  <2>1. /\ pos' = 0 /\ given' = avail' /\ avail' = IF pace > 0 THEN 0 ELSE Size
        /\ IF avail' = 0 THEN AckIrq(0) ELSE RaiseDataReady
        /\ UNCHANGED <<pace, level>>
    BY <1>3, Zenon DEF Rewind, Rewound
  <2>2. CASE pace > 0
    <3>1. /\ raised' \in BOOLEAN /\ link' \in Seq(BOOLEAN)
          /\ HasIrq => Events' /\ raised' = FALSE
      BY <2>1, <2>2, StreamAckStep, ZenonT(60)
    <3>2. LineIsLevel'
      BY <2>1, <2>2, <3>1, SMTT(30) DEF LineIsLevel, Events
    <3> QED
      BY <2>1, <2>2, <3>1, <3>2, Zenon DEF DeviceInv, DeviceTypes
  <2>3. CASE pace = 0
    <3>1. raised' \in BOOLEAN /\ link' \in Seq(BOOLEAN) /\ ~HasIrq
      BY <2>1, <2>3, Zenon DEF RaiseDataReady, AckIrq, DeviceTypes
    <3>2. LineIsLevel'
      BY <2>1, <2>3, <3>1, SMTT(30) DEF LineIsLevel, Events
    <3> QED
      BY <2>1, <2>3, <3>1, <3>2, Zenon DEF DeviceInv, DeviceTypes
  <2> QED
    BY <2>2, <2>3, SMTT(30)
<1>4. CASE WriteAck
  <2>1. AckIrq(avail) /\ UNCHANGED <<pace, pos, given, avail, level>>
    BY <1>4, Zenon DEF WriteAck
  <2>2. /\ raised' \in BOOLEAN /\ link' \in Seq(BOOLEAN)
        /\ HasIrq => Events' /\ (IF avail = 0 THEN raised' = FALSE ELSE raised' = raised)
    BY <2>1, StreamAckStep, Zenon
  <2>3. LineIsLevel'
    BY <2>1, <2>2 DEF LineIsLevel, Events
  <2> QED
    BY <2>1, <2>2, <2>3, Zenon DEF DeviceInv, DeviceTypes
<1>5. CASE Deliver
  <2>1. /\ link # <<>> /\ level' = Head(link) /\ link' = Tail(link)
        /\ UNCHANGED <<pace, pos, given, avail, raised>>
    BY <1>5, Zenon DEF Deliver
  <2>2. Head(link) \in BOOLEAN /\ Tail(link) \in Seq(BOOLEAN)
    BY <2>1, HeadTailProperties, Zenon DEF DeviceTypes
  <2>3. HasIrq => Events'
    <3> SUFFICES ASSUME HasIrq PROVE Events'
      OBVIOUS
    <3>1. LET s == <<Head(link)>> \o Tail(link)
          IN  /\ Last(s) = Last(<<level>> \o link)
              /\ \A i \in 1..Len(s) - 1 : s[i] # s[i + 1]
      BY <2>1, HandleEvent, Zenon DEF Events, DeviceTypes
    <3> QED
      BY <2>1, <3>1, Zenon DEF Events
  <2>4. LineIsLevel'
    BY <2>1, <2>3, Zenon DEF LineIsLevel, Events
  <2> QED
    BY <2>1, <2>2, <2>4, Zenon DEF DeviceInv, DeviceTypes
<1>6. CASE UNCHANGED streamVars \/ (ReadData /\ ~Ready)
  BY <1>6 DEF ReadData, streamVars, DeviceInv, DeviceTypes, LineIsLevel
<1> QED
  BY <1>1, <1>2, <1>3, <1>4, <1>5, <1>6, ZenonT(60)

-----------------------------------------------------------------------------
(* The sink device.  FileIsCapture is inductive with the types and with    *)
(* the capture never being longer than what was pushed.                    *)

SinkTypes ==
    /\ captured \in Seq(Nat) /\ pushed \in Seq(Nat) /\ file \in Seq(Nat)
    /\ flushed \in Nat /\ accepted \in Nat /\ count \in Nat /\ finished \in BOOLEAN

SinkInv == SinkTypes /\ Len(captured) <= Len(pushed) /\ FileIsCapture

\* What a prefix is.
LEMMA PrefixFacts ==
    ASSUME NEW s \in Seq(Nat), NEW n \in Nat, n <= Len(s)
    PROVE  /\ SubSeq(s, 1, n) \in Seq(Nat) /\ Len(SubSeq(s, 1, n)) = n
           /\ \A i \in 1..n : SubSeq(s, 1, n)[i] = s[i]
<1>1. \A i \in 1..n : s[i] \in Nat
  BY LenProperties, ElementOfSeq, SMTT(30)
<1>2. /\ SubSeq(s, 1, n) \in Seq(Nat)
      /\ Len(SubSeq(s, 1, n)) = IF 1 <= n THEN n - 1 + 1 ELSE 0
      /\ \A i \in 1..n - 1 + 1 : SubSeq(s, 1, n)[i] = s[1 + i - 1]
  BY <1>1, SubSeqProperties, SMTT(30)
<1> QED
  BY <1>2

\* A prefix is also a prefix of anything longer.
LEMMA PrefixOfConcat ==
    ASSUME NEW s \in Seq(Nat), NEW t \in Seq(Nat), NEW n \in Nat, n <= Len(s)
    PROVE  SubSeq(s \o t, 1, n) = SubSeq(s, 1, n)
<1>1. /\ s \o t \in Seq(Nat) /\ Len(s \o t) = Len(s) + Len(t)
      /\ \A i \in 1..Len(s) + Len(t) : (s \o t)[i] = IF i <= Len(s) THEN s[i] ELSE t[i - Len(s)]
      /\ Len(s) \in Nat /\ Len(t) \in Nat
  BY ConcatProperties, LenProperties, Zenon
<1>2. \A i \in 1..n : (s \o t)[i] = s[i]
  BY <1>1
<1>3. /\ SubSeq(s \o t, 1, n) \in Seq(Nat) /\ Len(SubSeq(s \o t, 1, n)) = n
      /\ \A i \in 1..n : SubSeq(s \o t, 1, n)[i] = (s \o t)[i]
  BY <1>1, PrefixFacts
<1>4. /\ SubSeq(s, 1, n) \in Seq(Nat) /\ Len(SubSeq(s, 1, n)) = n
      /\ \A i \in 1..n : SubSeq(s, 1, n)[i] = s[i]
  BY PrefixFacts, Zenon
<1> QED
  BY <1>2, <1>3, <1>4, SeqEqual, Zenon

\* Appending part of what is pushed appends to the prefix.
LEMMA PrefixGrows ==
    ASSUME NEW s \in Seq(Nat), NEW t \in Seq(Nat), NEW n \in Nat, n <= Len(t)
    PROVE  s \o SubSeq(t, 1, n) = SubSeq(s \o t, 1, Len(s) + n)
<1> DEFINE u == SubSeq(t, 1, n)
           w == SubSeq(s \o t, 1, Len(s) + n)
<1>1. u \in Seq(Nat) /\ Len(u) = n /\ \A i \in 1..n : u[i] = t[i]
  BY PrefixFacts, Zenon
<1>2. Len(s) \in Nat /\ Len(t) \in Nat
  BY LenProperties, Zenon
<1>3. /\ s \o t \in Seq(Nat) /\ Len(s \o t) = Len(s) + Len(t)
      /\ \A i \in 1..Len(s) + Len(t) : (s \o t)[i] = IF i <= Len(s) THEN s[i] ELSE t[i - Len(s)]
  BY ConcatProperties, Zenon
<1>4. Len(s) + n \in Nat /\ Len(s) + n <= Len(s \o t)
  BY <1>2, <1>3
<1>5. /\ w \in Seq(Nat) /\ Len(w) = Len(s) + n
      /\ \A i \in 1..Len(s) + n : w[i] = (s \o t)[i]
  BY <1>3, <1>4, PrefixFacts, Zenon
<1> HIDE DEF u, w
<1>6. /\ s \o u \in Seq(Nat) /\ Len(s \o u) = Len(s) + n
      /\ \A i \in 1..Len(s) + n : (s \o u)[i] = IF i <= Len(s) THEN s[i] ELSE u[i - Len(s)]
  BY <1>1, ConcatProperties, Zenon
<1>7. ASSUME NEW i \in 1..Len(s) + n PROVE (s \o u)[i] = w[i]
  <2>1. w[i] = IF i <= Len(s) THEN s[i] ELSE t[i - Len(s)]
    <3>1. i \in 1..Len(s) + Len(t)
      BY <1>2
    <3> QED
      BY <1>3, <1>5, <3>1, Zenon
  <2>2. CASE i <= Len(s)
    BY <1>6, <2>1, <2>2, Zenon
  <2>3. CASE ~(i <= Len(s))
    <3>1. i - Len(s) \in 1..n
      BY <1>2, <2>3, SMTT(30)
    <3> QED
      BY <1>1, <1>6, <2>1, <2>3, <3>1, Zenon
  <2> QED
    BY <2>2, <2>3, Zenon
<1>8. s \o u = w
  BY <1>5, <1>6, <1>7, SeqEqual, ZenonT(60)
<1> QED
  BY <1>8, Zenon DEF u, w

\* The flush appends exactly the missing part.
LEMMA FlushAll ==
    ASSUME SinkInv
    PROVE  AppendRest(captured, flushed) = captured
<1>1. /\ captured \in Seq(Nat) /\ Len(captured) \in Nat /\ flushed \in Nat
      /\ flushed <= Len(captured) /\ file = SubSeq(captured, 1, flushed)
  BY LenProperties, Zenon DEF SinkInv, SinkTypes, FileIsCapture
<1>2. /\ 1 \in 1..Len(captured) + 1 /\ flushed \in 1 - 1..Len(captured)
      /\ Len(captured) \in flushed..Len(captured)
  BY <1>1
<1>3. SubSeq(captured, 1, flushed) \o SubSeq(captured, flushed + 1, Len(captured))
        = SubSeq(captured, 1, Len(captured))
  BY <1>1, <1>2, ConcatAdjacentSubSeq, Zenon
<1>4. SubSeq(captured, 1, Len(captured)) = captured
  BY <1>1, SubSeqFull, Zenon
<1> QED
  BY <1>1, <1>3, <1>4, Zenon DEF AppendRest

LEMMA PushStep ==
    ASSUME SinkInv, NEW bytes \in Seq(Nat), Push(bytes)
    PROVE  SinkInv'
<1> DEFINE n == IF Len(bytes) > Room THEN Room ELSE Len(bytes)
<1>1. /\ captured \in Seq(Nat) /\ pushed \in Seq(Nat) /\ file \in Seq(Nat)
      /\ Len(captured) \in Nat /\ Len(pushed) \in Nat /\ Len(bytes) \in Nat
      /\ flushed \in Nat /\ accepted \in Nat /\ count \in Nat
      /\ MaxBytes \in Nat /\ MaxPushed \in Nat
  BY LenProperties, MaxBytesAssumption, MaxPushedAssumption, Zenon DEF SinkInv, SinkTypes
<1>2. /\ file = SubSeq(captured, 1, flushed) /\ flushed <= Len(captured)
      /\ accepted = Len(captured)
      /\ MaxBytes > 0 => Len(captured) <= MaxBytes
      /\ captured = SubSeq(pushed, 1, Len(captured)) /\ Len(captured) <= Len(pushed)
      /\ Len(captured) < Len(pushed) => MaxBytes > 0 /\ Len(captured) = MaxBytes
  BY Zenon DEF SinkInv, FileIsCapture
<1>3. /\ ~finished /\ finished' = finished /\ count + Len(bytes) <= MaxPushed
      /\ captured' = captured \o SubSeq(bytes, 1, n)
      /\ accepted' = accepted + n
      /\ pushed' = pushed \o bytes
      /\ count' = count + Len(bytes)
      /\ UNCHANGED <<flushed, file>>
  BY Zenon DEF Push
<1>4. Room \in Nat /\ (MaxBytes = 0 => Room = MaxPushed)
      /\ (MaxBytes > 0 => Room = MaxBytes - Len(captured))
  BY <1>1, <1>2, SMTT(30) DEF Room
<1>5. /\ n \in Nat /\ n <= Len(bytes) /\ n <= Room
      /\ n < Len(bytes) => n = Room /\ MaxBytes > 0
  BY <1>1, <1>3, <1>4, SMTT(30)
<1> HIDE DEF n
<1>6. /\ SubSeq(bytes, 1, n) \in Seq(Nat) /\ Len(SubSeq(bytes, 1, n)) = n
  BY <1>5, PrefixFacts, Zenon
<1>7. /\ captured' \in Seq(Nat) /\ Len(captured') = Len(captured) + n
  BY <1>1, <1>3, <1>6, ConcatProperties, Zenon
<1>8. /\ pushed' \in Seq(Nat) /\ Len(pushed') = Len(pushed) + Len(bytes)
  BY <1>1, <1>3, ConcatProperties, Zenon
<1>9. captured' = SubSeq(pushed', 1, Len(captured'))
  <2>1. CASE n = 0
    <3>1. SubSeq(bytes, 1, n) = <<>>
      BY <2>1, SubSeqEmpty
    <3>2. captured' = captured
      BY <1>1, <1>3, <3>1, ConcatEmptySeq, Zenon
    <3>3. SubSeq(pushed \o bytes, 1, Len(captured)) = SubSeq(pushed, 1, Len(captured))
      BY <1>1, <1>2, PrefixOfConcat, Zenon
    <3> QED
      BY <1>2, <1>3, <3>2, <3>3, Zenon
  <2>2. CASE n # 0
    <3>1. Len(captured) = Len(pushed)
      BY <1>1, <1>2, <1>4, <1>5, <2>2, SMTT(30)
    <3>2. captured = pushed
      BY <1>1, <1>2, <3>1, SubSeqFull, Zenon
    <3>3. pushed \o SubSeq(bytes, 1, n) = SubSeq(pushed \o bytes, 1, Len(pushed) + n)
      BY <1>1, <1>5, PrefixGrows, Zenon
    <3> QED
      BY <1>3, <1>7, <3>2, <3>3, Zenon
  <2> QED
    BY <2>1, <2>2, Zenon
<1>10. file' = SubSeq(captured', 1, flushed')
  BY <1>1, <1>2, <1>3, <1>6, PrefixOfConcat, SMTT(30)
<1>11. /\ flushed' <= Len(captured') /\ accepted' = Len(captured')
       /\ MaxBytes > 0 => Len(captured') <= MaxBytes
       /\ Len(captured') <= Len(pushed')
       /\ Len(captured') < Len(pushed') => MaxBytes > 0 /\ Len(captured') = MaxBytes
  <2>1. /\ flushed' <= Len(captured') /\ accepted' = Len(captured')
        /\ Len(captured') <= Len(pushed')
    <3>1. /\ accepted' = Len(captured) + n /\ flushed' = flushed
          /\ Len(captured') = Len(captured) + n /\ Len(pushed') = Len(pushed) + Len(bytes)
      BY <1>2, <1>3, <1>7, <1>8, Zenon
    <3>2. flushed <= Len(captured) + n
      BY <1>1, <1>2, <1>5, SMTT(30)
    <3>3. Len(captured) + n <= Len(pushed) + Len(bytes)
      BY <1>1, <1>2, <1>5, SMTT(30)
    <3> QED
      BY <3>1, <3>2, <3>3, Zenon
  <2>2. MaxBytes > 0 => Len(captured') <= MaxBytes
    BY <1>1, <1>2, <1>4, <1>5, <1>7, SMTT(30)
  <2>3. ASSUME Len(captured') < Len(pushed') PROVE MaxBytes > 0 /\ Len(captured') = MaxBytes
    <3>1. CASE n < Len(bytes)
      BY <1>1, <1>2, <1>4, <1>5, <1>7, <3>1, SMTT(30)
    <3>2. CASE n = Len(bytes)
      <4>1. MaxBytes > 0 /\ Len(captured) = MaxBytes
        BY <1>1, <1>2, <1>7, <1>8, <2>3, <3>2, SMTT(30)
      <4>2. n = 0
        BY <1>1, <1>4, <1>5, <4>1, SMTT(30)
      <4> QED
        BY <1>1, <1>7, <4>1, <4>2, SMTT(30)
    <3> QED
      BY <1>1, <1>5, <3>1, <3>2, SMTT(30)
  <2> QED
    BY <2>1, <2>2, <2>3, Zenon
<1>12. SinkTypes'
  BY <1>1, <1>3, <1>5, <1>7, <1>8, SMTT(30) DEF SinkInv, SinkTypes
<1> QED
  BY <1>3, <1>9, <1>10, <1>11, <1>12, ZenonT(60) DEF SinkInv, FileIsCapture

LEMMA WriteStep ==
    ASSUME SinkInv, FlushFile \/ FinishSink
    PROVE  SinkInv'
<1>1. /\ file' = captured /\ flushed' = Len(captured)
      /\ UNCHANGED <<captured, accepted, pushed, count>>
      /\ finished' \in BOOLEAN
  BY FlushAll, Zenon DEF FlushFile, FinishSink, WriteFile, SinkInv, SinkTypes
<1>2. captured \in Seq(Nat) /\ Len(captured) \in Nat
  BY LenProperties, Zenon DEF SinkInv, SinkTypes
<1>3. SubSeq(captured, 1, Len(captured)) = captured
  BY <1>2, SubSeqFull, Zenon
<1> QED
  BY <1>1, <1>2, <1>3, SMTT(30) DEF SinkInv, SinkTypes, FileIsCapture

LEMMA TruncateStep ==
    ASSUME SinkInv, Truncate
    PROVE  SinkInv'
<1>1. /\ captured' = <<>> /\ accepted' = 0 /\ file' = <<>> /\ flushed' = 0 /\ pushed' = <<>>
      /\ finished' = FALSE /\ count' = count
  BY Zenon DEF Truncate, SinkInv, SinkTypes
<1>2. <<>> \in Seq(Nat) /\ Len(<<>>) = 0
  BY EmptySeq, Zenon
<1>3. SubSeq(<<>>, 1, 0) = <<>>
  BY SubSeqEmpty
<1> QED
  <2>1. SinkTypes' /\ Len(captured') = 0 /\ Len(pushed') = 0
    BY <1>1, <1>2, Zenon DEF SinkInv, SinkTypes
  <2>2. FileIsCapture'
    BY <1>1, <1>2, <1>3, <2>1, MaxBytesAssumption, SMTT(30) DEF FileIsCapture
  <2> QED
    BY <2>1, <2>2 DEF SinkInv

-----------------------------------------------------------------------------
(* The loop: every step takes at most one action of each device.           *)

LoopInv == DeviceInv /\ SinkInv /\ word \in Seq(Nat)

LEMMA InitLoopInv == LoopInit => LoopInv
<1> SUFFICES ASSUME LoopInit PROVE LoopInv
  OBVIOUS
<1> USE DEF LoopInit
<1>1. <<>> \in Seq(Nat) /\ <<>> \in Seq(BOOLEAN) /\ Len(<<>>) = 0 /\ SubSeq(<<>>, 1, 0) = <<>>
  BY EmptySeq, SubSeqEmpty
<1>2. DeviceTypes
  BY <1>1, SizeAssumption, PaceAssumption, Zenon DEF StreamInit, DeviceTypes
<1>3. LineIsLevel
  <2>1. Last(<<FALSE>> \o <<>>) = FALSE /\ Len(<<FALSE>> \o <<>>) = 1
    <3>1. /\ Len(<<FALSE>> \o <<>>) = Len(<<>>) + 1 /\ (<<FALSE>> \o <<>>)[1] = FALSE
      BY <1>1, SeenFacts, Zenon
    <3> QED
      BY <1>1, <3>1 DEF Last
  <2>2. /\ pos = 0 /\ avail = given /\ given \in Nat /\ given <= Size
        /\ HasIrq => given = 0
    BY SizeAssumption, PaceAssumption, IrqAssumption, SMTT(30) DEF StreamInit
  <2> QED
    <3>1. level = FALSE /\ raised = FALSE /\ link = <<>>
      BY Zenon DEF StreamInit
    <3>2. Last(<<level>> \o link) = raised /\ Len(<<level>> \o link) = 1
      BY <2>1, <3>1, Zenon
    <3>3. \A i \in 1..Len(<<level>> \o link) - 1 : FALSE
      BY <3>2
    <3>4. HasIrq => (raised <=> avail > 0)
      BY <2>2, <3>1, SMTT(30)
    <3> QED
      BY <2>2, <3>2, <3>3, <3>4, SMTT(30) DEF LineIsLevel
<1>4. SinkInv
  <2>1. SinkTypes /\ Len(captured) = 0 /\ Len(pushed) = 0
    BY <1>1, Zenon DEF SinkInit, SinkTypes
  <2>2. FileIsCapture
    BY <1>1, <2>1, MaxBytesAssumption, SMTT(30) DEF SinkInit, FileIsCapture
  <2> QED
    BY <2>1, <2>2 DEF SinkInv
<1> QED
  BY <1>1, <1>2, <1>3, <1>4, Zenon DEF LoopInv, DeviceInv, GuestInit

LEMMA NextLoopInv == LoopInv /\ [LoopNext]_allVars => LoopInv'
<1> SUFFICES ASSUME LoopInv, [LoopNext]_allVars PROVE LoopInv'
  OBVIOUS
<1>1. TickPace \/ ReadData \/ Rewind \/ WriteAck \/ Deliver \/ UNCHANGED streamVars
  BY Zenon DEF LoopNext, GuestNext, ReadStatus, ReadEos, Rearm, Recheck, Wake, Look, PopWord, PushWord,
         AckEarly, FlushSink, StartOver, TruncateSink, Stop, allVars
<1>2. DeviceInv'
  BY <1>1, StreamStep, Zenon DEF LoopInv
<1>3. Push(word) \/ FlushFile \/ FinishSink \/ Truncate \/ UNCHANGED sinkVars
  BY Zenon DEF LoopNext, GuestNext, ReadStatus, ReadEos, Rearm, Recheck, Wake, Look, PopWord, PushWord,
         AckEarly, FlushSink, StartOver, TruncateSink, Stop, allVars
<1>4. ASSUME UNCHANGED sinkVars PROVE SinkInv'
  <2>1. UNCHANGED <<captured, flushed, accepted, file, pushed, count, finished>>
    BY <1>4, Zenon DEF sinkVars
  <2>2. SinkTypes' /\ Len(captured') <= Len(pushed')
    BY <2>1, Zenon DEF LoopInv, SinkInv, SinkTypes
  <2>3. FileIsCapture'
    BY <2>1, Zenon DEF LoopInv, SinkInv, FileIsCapture
  <2> QED
    BY <2>2, <2>3, Zenon DEF SinkInv
<1>5. SinkInv'
  BY <1>3, <1>4, PushStep, WriteStep, TruncateStep, Zenon DEF LoopInv
<1>6. word' = word \/ word' = DATA \/ word' = <<>>
  BY Zenon DEF LoopNext, GuestNext, ReadStatus, ReadEos, Rearm, Recheck, Wake, Look, PopWord, PushWord,
         AckEarly, FlushSink, StartOver, TruncateSink, Stop, allVars, guestVars
<1>7. DATA \in Seq(Nat)
  <2>1. DATA \in [1..4 -> Nat]
    BY DEF DATA, PopMax, LoopInv, DeviceInv, DeviceTypes
  <2> QED
    BY <2>1, SeqDef, Zenon
<1>8. word' \in Seq(Nat)
  BY <1>6, <1>7, EmptySeq, Zenon DEF LoopInv
<1> QED
  BY <1>2, <1>5, <1>8, Zenon DEF LoopInv

LEMMA LoopIInv == LoopSpec => []LoopInv
BY InitLoopInv, NextLoopInv, PTL DEF LoopSpec

\* The data-ready line of QuetzStreamDevice is a level, with any file and pace
\* and whatever the guest pops, acknowledges and rewinds.
THEOREM LineFollowsData == LoopSpec => []LineIsLevel
<1>1. LoopInv => LineIsLevel
  BY Zenon DEF LoopInv, DeviceInv
<1> QED
  BY <1>1, LoopIInv, PTL

\* QuetzSinkDevice's file holds the flushed part of the capture, each byte once,
\* with any cap and any mix of pushes, flushes and truncations.
THEOREM FileHoldsCapture == LoopSpec => []FileIsCapture
<1>1. LoopInv => FileIsCapture
  BY Zenon DEF LoopInv, SinkInv
<1> QED
  BY <1>1, LoopIInv, PTL
=============================================================================
