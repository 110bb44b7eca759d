-------------------------- MODULE GuestSideProofs ---------------------------
(***************************************************************************)
(* Proofs about QEMU's side.                                               *)
(*                                                                         *)
(* First the interrupt levels that SST posts and QEMU's timer drains       *)
(* (IrqMailbox), for any number of slots, any output size and any width of *)
(* the counters.                                                           *)
(*                                                                         *)
(* Then the accesses of a user-mode guest (UserMmio), for any apertures    *)
(* and programs.                                                           *)
(***************************************************************************)
EXTENDS IrqMailbox, UserMmio, WellFoundedInduction, TLAPS

-----------------------------------------------------------------------------
(* Interrupt levels: the inductive invariant.                              *)

\* The post in progress has moved slot i but not yet the generation.
Lag(i) == IF post.store = "gen" /\ post.slot = i THEN 1 ELSE 0

\* The current scan has taken over the sequence number of slot i.
Scanned(i) == (bridge = "scan" /\ i < at) \/ (bridge = "read" /\ i <= at)

\* The generation the drain loaded lies between the client's and SST's, and a
\* slot already scanned can only be ahead by posts after that load.
ScanInv ==
    bridge \in {"scan", "read"} =>
        /\ Ahead(loaded, gen) <= Ahead(irqGen, gen)
        /\ \A i \in Slot : Scanned(i) => Ahead(shadow[i], seq[i]) <= Ahead(loaded, gen) + Lag(i)

\* Room is left for the post in progress.
RoomInv == post.store # "none" => Ahead(irqGen, gen) < SeqMod - 1

\* Only the slots of vCPU 0 ever move.
RowInv ==
    /\ post.store # "none" => post.slot \in Line
    /\ \A i \in Slot : i \notin Line => seq[i] = shadow[i]
    /\ \A k \in 1..Len(out) : out[k][1] \in Line
    /\ bridge = "read" => at \in Line
    /\ bridge # "exited"

\* The drained changes are in scan order, one per slot.
OutInv ==
    /\ bridge \in {"idle", "again"} => out = << >>
    /\ \A j, k \in 1..Len(out) : j < k => out[j][1] < out[k][1]
    /\ bridge \in {"scan", "read"} => \A k \in 1..Len(out) : out[k][1] < at
    /\ bridge \in {"scan", "read"} => Len(out) < MaxOut

\* The slot has not moved since its shadow was taken, and its level is not
\* just being written or read.
Settled(i) ==
    /\ seq[i] = shadow[i]
    /\ ~(post.store = "seq" /\ post.slot = i)
    /\ ~(bridge = "read" /\ at = i)

\* The level of a settled slot is on its way to the controller or there.
LevelInv ==
    \A i \in Line : Settled(i) =>
        /\ \A k \in 1..Len(out) : out[k][1] = i => out[k][2] = level[i]
        /\ (\A k \in 1..Len(out) : out[k][1] # i) => guest[i] = level[i]

IInv ==
    /\ TypeOK
    /\ WrapSafe
    /\ ScanInv
    /\ RoomInv
    /\ RowInv
    /\ OutInv
    /\ LevelInv
-----------------------------------------------------------------------------
(* Arithmetic of the wrapping counters.                                    *)

LEMMA BumpType == \A a \in Seq32 : Bump(a) \in Seq32
BY SeqModAssumption DEF Bump, Seq32

LEMMA AheadType == \A a, b \in Seq32 : Ahead(a, b) \in Seq32
BY SeqModAssumption DEF Ahead, Seq32

LEMMA AheadZero == \A a, b \in Seq32 : Ahead(a, b) = 0 <=> a = b
BY SeqModAssumption DEF Ahead, Seq32

LEMMA AheadBump ==
    \A a, b \in Seq32 : Ahead(a, b) < SeqMod - 1 => Ahead(a, Bump(b)) = Ahead(a, b) + 1
BY SeqModAssumption DEF Ahead, Bump, Seq32

LEMMA Seq32Nat == Seq32 \subseteq Nat
BY SeqModAssumption DEF Seq32

\* What Append and Tail do to the drained changes.
LEMMA AppendFacts ==
    ASSUME NEW S, NEW s \in Seq(S), NEW e \in S
    PROVE  /\ Append(s, e) \in Seq(S)
           /\ Len(Append(s, e)) = Len(s) + 1
           /\ \A k \in 1..Len(s) : Append(s, e)[k] = s[k]
           /\ Append(s, e)[Len(s) + 1] = e
OBVIOUS

LEMMA TailFacts ==
    ASSUME NEW S, NEW s \in Seq(S), s # << >>
    PROVE  /\ Tail(s) \in Seq(S)
           /\ Head(s) = s[1] /\ s[1] \in S
           /\ Len(s) >= 1 /\ Len(Tail(s)) = Len(s) - 1
           /\ \A k \in 1..Len(Tail(s)) : Tail(s)[k] = s[k + 1]
BY SMTT(30)

-----------------------------------------------------------------------------
LEMMA TypeStep ==
    ASSUME TypeOK, RowInv, OutInv, [Next]_vars
    PROVE  TypeOK'
<1> USE DEF TypeOK
<1>1. CASE \E i \in Slot, l \in {0, 1} : PostLevel(i, l)
  BY <1>1 DEF PostLevel, clientVars
<1>2. CASE PostSeq
  BY <1>2, BumpType, Zenon DEF PostSeq, clientVars
<1>3. CASE PostGen
  BY <1>3, BumpType, SlotsAssumption DEF PostGen, clientVars, Quiet, Slot
<1>4. CASE Drain
  BY <1>4, SlotsAssumption, MaxOutAssumption DEF Drain, sstVars
<1>5. CASE ScanSlot
  <2>1. at \in Slot /\ at + 1 \in 0..NumSlots
    BY <1>5, SlotsAssumption DEF ScanSlot, Slot
  <2> QED
    BY <1>5, <2>1, Zenon DEF ScanSlot, sstVars
<1>6. CASE ScanRead
  <2>1. at \in Slot /\ at + 1 \in 0..NumSlots
    BY <1>6, SlotsAssumption DEF ScanRead, Slot, RowInv, Line
  <2>2. out' \in Seq(Slot \X {0, 1})
    BY <1>6, <2>1, AppendFacts DEF ScanRead
  <2> QED
    BY <1>6, <2>1, <2>2, MaxOutAssumption, SMTT(30) DEF ScanRead, sstVars
<1>7. CASE ScanDone
  <2>1. Len(out) \in 0..MaxOut
    BY <1>7, MaxOutAssumption DEF ScanDone, OutInv
  <2> QED
    BY <1>7, <2>1, Zenon DEF ScanDone, sstVars
<1>8. CASE Apply
  <2>1. /\ out' \in Seq(Slot \X {0, 1})
        /\ Head(out) \in Slot \X {0, 1}
    BY <1>8, TailFacts DEF Apply
  <2> QED
    BY <1>8, <2>1, Zenon DEF Apply, sstVars
<1>9. CASE ApplyDone
  BY <1>9, Zenon DEF ApplyDone, sstVars, clientVars
<1>10. CASE UNCHANGED vars
  BY <1>10, Zenon DEF vars, sstVars, clientVars
<1> QED
  BY <1>1, <1>2, <1>3, <1>4, <1>5, <1>6, <1>7, <1>8, <1>9, <1>10, Zenon DEF Next, Post, Bridge

-----------------------------------------------------------------------------
(* The inductive step.  The counters are used only through the lemmas on   *)
(* Ahead and Bump.                                                         *)

LEMMA PostStep ==
    ASSUME IInv, TypeOK', Post
    PROVE  IInv'
<1> USE DEF IInv, TypeOK
<1>a. /\ Ahead(irqGen, gen) \in Nat /\ Ahead(loaded, gen) \in Nat
      /\ \A i \in Slot : Ahead(shadow[i], seq[i]) \in Nat
  BY AheadType, Seq32Nat, Zenon
<1>1. CASE \E i \in Slot, l \in {0, 1} : PostLevel(i, l)
  <2> PICK i \in Slot, l \in {0, 1} : PostLevel(i, l)
    BY <1>1, Zenon
  <2>0. post = Quiet /\ post.store = "none" /\ i \in Line /\ post' = [store |-> "seq", slot |-> i]
    BY Zenon DEF PostLevel, Quiet
  <2>1. WrapSafe'
    BY <2>0, SMTT(30) DEF PostLevel, WrapSafe, clientVars
  <2>2. ScanInv'
    BY <2>0 DEF PostLevel, ScanInv, Scanned, Lag, clientVars
  <2>3. RoomInv'
    BY <2>0, Zenon DEF PostLevel, RoomInv, clientVars
  <2>4. RowInv'
    BY <2>0 DEF PostLevel, RowInv, clientVars
  <2>5. OutInv'
    BY Zenon DEF PostLevel, OutInv, clientVars
  <2>6. LevelInv'
    BY <2>0 DEF PostLevel, LevelInv, Settled, clientVars
  <2> QED
    BY <2>1, <2>2, <2>3, <2>4, <2>5, <2>6, Zenon
<1>2. CASE PostSeq
  <2>0. /\ post.store = "seq" /\ post'.store = "gen" /\ post'.slot = post.slot
        /\ post.slot \in Line /\ post.slot \in Slot
    BY <1>2, Zenon DEF PostSeq, RowInv
  <2>1. Ahead(shadow[post.slot], seq'[post.slot]) = Ahead(shadow[post.slot], seq[post.slot]) + 1
    <3>1. Ahead(shadow[post.slot], seq[post.slot]) <= Ahead(irqGen, gen)
      BY <1>a, <2>0 DEF WrapSafe
    <3>2. Ahead(shadow[post.slot], seq[post.slot]) < SeqMod - 1
      BY <1>a, <2>0, <3>1, SeqModAssumption, SMTT(30) DEF RoomInv
    <3> QED
      BY <1>2, <2>0, <3>2, AheadBump, Zenon DEF PostSeq
  <2>2. \A i \in Slot : i # post.slot => seq'[i] = seq[i]
    BY <1>2, <2>0, Zenon DEF PostSeq
  <2>3. seq'[post.slot] # shadow[post.slot]
    BY <1>a, <2>0, <2>1, AheadZero, SMTT(30)
  <2>4. WrapSafe'
    BY <1>2, <1>a, <2>0, <2>1, <2>2, SMTT(30) DEF PostSeq, WrapSafe, clientVars
  <2>5. ScanInv'
    BY <1>2, <1>a, <2>0, <2>1, <2>2, SMTT(30) DEF PostSeq, ScanInv, Scanned, Lag, clientVars
  <2>6. RoomInv'
    BY <1>2, <2>0, Zenon DEF PostSeq, RoomInv, clientVars
  <2>7. RowInv'
    BY <1>2, <2>0, <2>2, Zenon DEF PostSeq, RowInv, clientVars
  <2>8. OutInv'
    BY <1>2, Zenon DEF PostSeq, OutInv, clientVars
  <2>9. LevelInv'
    <3> SUFFICES ASSUME NEW i \in Line, Settled(i)'
                 PROVE  /\ \A k \in 1..Len(out) : out[k][1] = i => out[k][2] = level[i]
                        /\ (\A k \in 1..Len(out) : out[k][1] # i) => guest[i] = level[i]
      BY <1>2, Zenon DEF PostSeq, LevelInv, clientVars
    <3>1. i # post.slot /\ i \in Slot
      BY <1>2, <2>3, SlotsAssumption, SMTT(30) DEF Settled, PostSeq, clientVars, Line, Slot
    <3>2. Settled(i)
      BY <1>2, <2>0, <2>2, <3>1, Zenon DEF Settled, PostSeq, clientVars
    <3> QED
      BY <3>2, Zenon DEF LevelInv
  <2> QED
    BY <2>4, <2>5, <2>6, <2>7, <2>8, <2>9, Zenon
<1>3. CASE PostGen
  <2>0. post.store = "gen" /\ post'.store = "none" /\ gen' = Bump(gen)
    BY <1>3, Zenon DEF PostGen, Quiet
  <2>1. Ahead(irqGen, gen') = Ahead(irqGen, gen) + 1
    BY <2>0, AheadBump, Zenon DEF RoomInv
  <2>2. bridge \in {"scan", "read"} => Ahead(loaded, gen') = Ahead(loaded, gen) + 1
    BY <1>a, <2>0, AheadBump, SeqModAssumption, SMTT(30) DEF RoomInv, ScanInv
  <2>3. WrapSafe'
    BY <1>3, <1>a, <2>0, <2>1, SMTT(30) DEF PostGen, WrapSafe, clientVars
  <2>4. ScanInv'
    BY <1>3, <1>a, <2>0, <2>1, <2>2 DEF PostGen, ScanInv, Scanned, Lag, clientVars
  <2>5. RoomInv'
    BY <2>0, Zenon DEF RoomInv
  <2>6. RowInv'
    BY <1>3, <2>0, Zenon DEF PostGen, RowInv, clientVars
  <2>7. OutInv'
    BY <1>3, Zenon DEF PostGen, OutInv, clientVars
  <2>8. LevelInv'
    BY <1>3, <2>0, Zenon DEF PostGen, LevelInv, Settled, clientVars
  <2> QED
    BY <2>3, <2>4, <2>5, <2>6, <2>7, <2>8, Zenon
<1> QED
  BY <1>1, <1>2, <1>3, Zenon DEF Post

LEMMA BridgeStep ==
    ASSUME IInv, TypeOK', Bridge
    PROVE  IInv'
<1> USE DEF IInv, TypeOK
<1>a. /\ Ahead(irqGen, gen) \in Nat /\ Ahead(loaded, gen) \in Nat
      /\ Ahead(gen, gen) = 0
      /\ \A i \in Slot : Ahead(shadow[i], seq[i]) \in Nat /\ Ahead(seq[i], seq[i]) = 0
  BY AheadType, AheadZero, Seq32Nat, Zenon
<1>b. Line \subseteq Slot /\ Slot \subseteq Nat /\ at \in Nat
  BY SlotsAssumption DEF Line, Slot
<1>c. Len(out) \in Nat /\ \A k \in 1..Len(out) : out[k][1] \in Nat
  <2>1. \A k \in 1..Len(out) : out[k] \in Slot \X {0, 1}
    OBVIOUS
  <2>2. \A k \in 1..Len(out) : out[k][1] \in Slot
    BY <2>1, Zenon
  <2>3. Len(out) \in Nat
    OBVIOUS
  <2>4. ASSUME NEW k \in 1..Len(out) PROVE out[k][1] \in Nat
    BY <1>b, <2>2, Zenon
  <2> QED
    BY <2>3, <2>4, Zenon
<1>1. CASE Drain
  <2>0. out = << >> /\ out' = << >> /\ bridge' # "read" /\ bridge \in {"idle", "again"}
    BY <1>1, Zenon DEF Drain, OutInv
  <2>1. WrapSafe'
    BY <1>1, Zenon DEF Drain, WrapSafe, sstVars
  <2>2. ScanInv'
    BY <1>1, <1>a, <1>b DEF Drain, ScanInv, Scanned, sstVars
  <2>3. RoomInv'
    BY <1>1, Zenon DEF Drain, RoomInv, sstVars
  <2>4. RowInv'
    BY <1>1, <2>0, Zenon DEF Drain, RowInv, sstVars
  <2>5. OutInv'
    BY <1>1, <2>0, MaxOutAssumption, SMTT(30) DEF Drain, OutInv
  <2>6. LevelInv'
    BY <1>1, <2>0 DEF Drain, LevelInv, Settled, sstVars
  <2> QED
    BY <2>1, <2>2, <2>3, <2>4, <2>5, <2>6, Zenon
<1>2. CASE ScanSlot
  <2>0. at \in Slot /\ bridge = "scan"
    BY <1>2, SlotsAssumption, SMTT(30) DEF ScanSlot, Slot
  <2>1. CASE seq[at] = shadow[at]
    <3>1. at' = at + 1 /\ UNCHANGED <<sstVars, shadow, bridge, irqGen, loaded, out, count, guest>>
      BY <1>2, <2>1, Zenon DEF ScanSlot
    <3>2. ScanInv'
      <4>1. \A i \in Slot : i < at + 1 => i < at \/ i = at
        BY <1>b
      <4>2. Lag(at) \in Nat
        BY Zenon DEF Lag
      <4>3. Ahead(shadow[at], seq[at]) <= Ahead(loaded, gen) + Lag(at)
        BY <1>a, <2>0, <2>1, <4>2
      <4> QED
        BY <2>0, <3>1, <4>1, <4>3, Zenon DEF ScanInv, Scanned, Lag, sstVars
    <3>3. OutInv'
      <4>1. \A k \in 1..Len(out) : out[k][1] < at + 1
        BY <1>b, <1>c, <2>0, SMTT(30) DEF OutInv
      <4> QED
        BY <2>0, <3>1, <4>1, Zenon DEF OutInv
    <3> QED
      BY <2>0, <3>1, <3>2, <3>3 DEF WrapSafe, RoomInv, RowInv, LevelInv, Settled, sstVars
  <2>2. CASE seq[at] # shadow[at]
    <3>1. /\ shadow' = [shadow EXCEPT ![at] = seq[at]] /\ bridge' = "read"
          /\ UNCHANGED <<sstVars, at, irqGen, loaded, out, count, guest>>
      BY <1>2, <2>2, Zenon DEF ScanSlot
    <3>2. shadow'[at] = seq[at] /\ \A i \in Slot : i # at => shadow'[i] = shadow[i]
      BY <2>0, <3>1, Zenon
    <3>3. \A i \in Slot : Lag(i) \in Nat /\ Lag(i)' = Lag(i)
      BY <3>1, Zenon DEF Lag, sstVars
    <3>4. WrapSafe'
      BY <1>a, <3>1, <3>2, SMTT(30) DEF WrapSafe, sstVars
    <3>5. ScanInv'
      <4>1. ASSUME NEW i \in Slot, i <= at
            PROVE  Ahead(shadow'[i], seq[i]) <= Ahead(loaded, gen) + Lag(i)
        <5>1. CASE i = at
          BY <1>a, <2>0, <3>2, <3>3, <5>1, SMTT(30)
        <5>2. CASE i # at
          <6>1. i < at
            BY <1>b, <4>1, <5>2
          <6> QED
            BY <2>0, <3>2, <5>2, <6>1, Zenon DEF ScanInv, Scanned
        <5> QED
          BY <5>1, <5>2, Zenon
      <4> QED
        BY <2>0, <3>1, <3>3, <4>1, Zenon DEF ScanInv, Scanned, sstVars
    <3>6. RoomInv'
      BY <3>1, Zenon DEF RoomInv, sstVars
    <3>7. RowInv'
      BY <2>0, <2>2, <3>1, <3>2, Zenon DEF RowInv, sstVars
    <3>8. OutInv'
      BY <2>0, <3>1, Zenon DEF OutInv
    <3>9. LevelInv'
      BY <1>b, <2>0, <3>1, <3>2, SMTT(30) DEF LevelInv, Settled, sstVars
    <3> QED
      BY <3>4, <3>5, <3>6, <3>7, <3>8, <3>9, Zenon
  <2> QED
    BY <2>1, <2>2, Zenon
<1>3. CASE ScanRead
  <2>0. /\ bridge = "read" /\ at \in Line /\ at \in Slot
        /\ UNCHANGED <<sstVars, shadow, irqGen, loaded, guest>>
    BY <1>3, <1>b, Zenon DEF ScanRead, RowInv
  <2>1. /\ Len(out) \in Nat
        /\ Len(out') = Len(out) + 1
        /\ \A k \in 1..Len(out) : out'[k] = out[k]
        /\ out'[Len(out) + 1] = <<at, level[at]>>
    BY <1>3, <2>0, AppendFacts, SMTT(30) DEF ScanRead
  <2>2. \A k \in 1..Len(out') : k \in 1..Len(out) \/ k = Len(out) + 1
    <3>1. Len(out) \in Nat /\ Len(out') = Len(out) + 1
      BY <2>1, Zenon
    <3> QED
      BY <3>1, SMTT(30)
  <2>3. /\ \A i \in Slot : i < at + 1 <=> i <= at
        /\ \/ bridge' = "apply" /\ at' = at
           \/ bridge' = "scan" /\ at' = at + 1 /\ Len(out) + 1 # MaxOut
    BY <1>3, <1>b DEF ScanRead
  <2>4. WrapSafe'
    BY <2>0, Zenon DEF WrapSafe, sstVars
  <2>5. ScanInv'
    BY <1>b, <2>0, <2>3, Zenon DEF ScanInv, Scanned, Lag, sstVars
  <2>6. RoomInv'
    BY <2>0, Zenon DEF RoomInv, sstVars
  <2>7. RowInv'
    BY <2>0, <2>1, <2>2, <2>3, SMTT(40) DEF RowInv, sstVars
  <2>8. OutInv'
    <3>1. ASSUME NEW j \in 1..Len(out'), NEW k \in 1..Len(out'), j < k
          PROVE  out'[j][1] < out'[k][1]
      <4>1. j \in 1..Len(out)
        BY <2>1, <3>1
      <4>2. out'[j] = out[j] /\ out[j][1] < at
        BY <2>0, <2>1, <4>1, Zenon DEF OutInv
      <4>3. CASE k \in 1..Len(out)
        BY <2>1, <3>1, <4>1, <4>2, <4>3, Zenon DEF OutInv
      <4>4. CASE k = Len(out) + 1
        BY <2>1, <4>2, <4>4, SMTT(30)
      <4> QED
        BY <2>2, <4>3, <4>4, Zenon
    <3>2. \A k \in 1..Len(out') : out'[k][1] < at + 1
      <4>1. \A k \in 1..Len(out) : out'[k][1] < at + 1
        BY <1>b, <1>c, <2>0, <2>1, SMTT(30) DEF OutInv
      <4>2. out'[Len(out) + 1][1] < at + 1
        BY <1>b, <2>1
      <4> QED
        BY <2>2, <4>1, <4>2, Zenon
    <3> QED
      BY <2>0, <2>1, <2>3, <3>1, <3>2, MaxOutAssumption, SMTT(30) DEF OutInv
  <2>9. LevelInv'
    <3> SUFFICES ASSUME NEW i \in Line, Settled(i)'
                 PROVE  /\ \A k \in 1..Len(out') : out'[k][1] = i => out'[k][2] = level[i]
                        /\ (\A k \in 1..Len(out') : out'[k][1] # i) => guest[i] = level[i]
      BY <2>0, Zenon DEF LevelInv, sstVars
    <3>1. CASE i = at
      <4>1. ASSUME NEW k \in 1..Len(out) PROVE out'[k][1] # at
        <5>1. out'[k] = out[k] /\ out[k][1] < at
          BY <2>0, <2>1, Zenon DEF OutInv
        <5>2. out[k][1] \in Nat /\ at \in Nat
          BY <1>b, <1>c, Zenon
        <5> QED
          BY <5>1, <5>2
      <4>2. Len(out) + 1 \in 1..Len(out')
        BY <2>1
      <4> QED
        BY <2>1, <2>2, <3>1, <4>1, <4>2, SMTT(30)
    <3>2. CASE i # at
      <4>1. Settled(i)
        BY <2>0, <3>2, Zenon DEF Settled, sstVars
      <4>2. Len(out) + 1 \in 1..Len(out') /\ 1..Len(out) \subseteq 1..Len(out')
        BY <2>1, SMTT(30)
      <4>3. \A k \in 1..Len(out') : out'[k][1] = i => k \in 1..Len(out)
        BY <2>1, <2>2, <3>2
      <4>4. /\ \A k \in 1..Len(out) : out[k][1] = i => out[k][2] = level[i]
            /\ (\A k \in 1..Len(out) : out[k][1] # i) => guest[i] = level[i]
        BY <4>1, Zenon DEF LevelInv
      <4> QED
        BY <2>1, <4>2, <4>3, <4>4, ZenonT(30)
    <3> QED
      BY <3>1, <3>2, Zenon
  <2> QED
    BY <2>4, <2>5, <2>6, <2>7, <2>8, <2>9, Zenon
<1>4. CASE ScanDone
  <2>0. /\ bridge = "scan" /\ bridge' = "apply" /\ irqGen' = loaded
        /\ UNCHANGED <<sstVars, shadow, at, loaded, out, guest>>
        /\ \A i \in Slot : Scanned(i)
    BY <1>4, SlotsAssumption DEF ScanDone, Scanned, Slot
  <2>1. WrapSafe'
    BY <2>0, Zenon DEF WrapSafe, ScanInv, Lag, sstVars
  <2>2. RoomInv'
    BY <1>a, <2>0, SeqModAssumption DEF RoomInv, ScanInv, sstVars
  <2>3. RowInv'
    BY <2>0, Zenon DEF RowInv, sstVars
  <2>4. LevelInv'
    BY <2>0, ZenonT(60) DEF LevelInv, Settled, sstVars
  <2> QED
    BY <2>0, <2>1, <2>2, <2>3, <2>4, Zenon DEF ScanInv, OutInv
<1>5. CASE Apply
  <2>0. /\ Len(out) \in Nat /\ Len(out) >= 1 /\ Len(out') = Len(out) - 1
        /\ Head(out) = out[1] /\ out[1][1] \in Line
        /\ \A k \in 1..Len(out') : out'[k] = out[k + 1] /\ k + 1 \in 1..Len(out)
    BY <1>5, TailFacts DEF Apply, RowInv
  <2>1. /\ bridge = "apply" /\ bridge' = "apply"
        /\ guest' = [guest EXCEPT ![out[1][1]] = out[1][2]]
        /\ UNCHANGED <<sstVars, shadow, irqGen, at, loaded, count>>
    BY <1>5, <2>0, Zenon DEF Apply
  <2>2. RowInv'
    BY <2>0, <2>1, SMTT(30) DEF RowInv, sstVars
  <2>3. OutInv'
    <3>1. ASSUME NEW j \in 1..Len(out'), NEW k \in 1..Len(out'), j < k
          PROVE  out'[j][1] < out'[k][1]
      <4>1. j + 1 \in 1..Len(out) /\ k + 1 \in 1..Len(out) /\ j + 1 < k + 1
        BY <2>0, <3>1, SMTT(30)
      <4> QED
        BY <2>0, <4>1, ZenonT(60) DEF OutInv
    <3> QED
      BY <2>1, <3>1, Zenon DEF OutInv
  <2>4. LevelInv'
    <3> SUFFICES ASSUME NEW i \in Line, Settled(i)
                 PROVE  /\ \A k \in 1..Len(out') : out'[k][1] = i => out'[k][2] = level[i]
                        /\ (\A k \in 1..Len(out') : out'[k][1] # i) => guest'[i] = level[i]
      BY <2>1, ZenonT(60) DEF LevelInv, Settled, sstVars
    <3>1. 1 \in 1..Len(out)
      BY <2>0
    <3>2. CASE i = out[1][1]
      <4>1. \A k \in 1..Len(out) : out[k][1] = i => out[k][2] = level[i]
        BY Zenon DEF LevelInv
      <4>2. guest'[i] = level[i]
        <5>1. out[1][2] = level[i]
          BY <3>1, <3>2, <4>1, Zenon
        <5> QED
          BY <2>1, <3>2, <5>1, Zenon
      <4>3. ASSUME NEW k \in 1..Len(out'), out'[k][1] = i PROVE out'[k][2] = level[i]
        <5>1. out'[k] = out[k + 1] /\ k + 1 \in 1..Len(out)
          BY <2>0, Zenon
        <5> QED
          BY <4>1, <4>3, <5>1, Zenon
      <4> QED
        BY <4>2, <4>3, Zenon
    <3>3. CASE i # out[1][1]
      <4>1. guest'[i] = guest[i]
        BY <2>1, <3>3, Zenon
      <4>2. (\A k \in 1..Len(out') : out'[k][1] # i) => \A k \in 1..Len(out) : out[k][1] # i
        <5> SUFFICES ASSUME \A k \in 1..Len(out') : out'[k][1] # i, NEW k \in 1..Len(out)
                     PROVE  out[k][1] # i
          BY Zenon
        <5>1. CASE k = 1
          BY <3>3, <5>1, Zenon
        <5>2. CASE k # 1
          <6>1. k - 1 \in 1..Len(out') /\ (k - 1) + 1 = k
            BY <2>0, <5>2
          <6> QED
            BY <2>0, <6>1, Zenon
        <5> QED
          BY <5>1, <5>2, Zenon
      <4>3. /\ \A k \in 1..Len(out) : out[k][1] = i => out[k][2] = level[i]
            /\ (\A k \in 1..Len(out) : out[k][1] # i) => guest[i] = level[i]
        BY Zenon DEF LevelInv
      <4>4. ASSUME NEW k \in 1..Len(out'), out'[k][1] = i PROVE out'[k][2] = level[i]
        <5>1. out'[k] = out[k + 1] /\ k + 1 \in 1..Len(out)
          BY <2>0, Zenon
        <5> QED
          BY <4>3, <4>4, <5>1, Zenon
      <4> QED
        BY <4>1, <4>2, <4>3, <4>4, Zenon
    <3> QED
      BY <3>2, <3>3, Zenon
  <2> QED
    BY <2>1, <2>2, <2>3, <2>4, Zenon DEF WrapSafe, ScanInv, RoomInv, sstVars
<1>6. CASE ApplyDone
  <2>1. /\ bridge = "apply" /\ bridge' \in {"again", "idle"} /\ out = << >>
        /\ UNCHANGED <<level, seq, irqGen, post, shadow, gen, loaded, at, out, guest>>
    BY <1>6, Zenon DEF ApplyDone, sstVars, clientVars
  <2>2. WrapSafe' /\ RoomInv' /\ ScanInv'
    BY <2>1, Zenon DEF WrapSafe, ScanInv, RoomInv
  <2>3. RowInv'
    BY <2>1, Zenon DEF RowInv
  <2>4. OutInv'
    BY <2>1, ZenonT(60) DEF OutInv
  <2>5. LevelInv'
    BY <2>1, ZenonT(60) DEF LevelInv, Settled
  <2> QED
    BY <2>2, <2>3, <2>4, <2>5, Zenon
<1> QED
  BY <1>1, <1>2, <1>3, <1>4, <1>5, <1>6, Zenon DEF Bridge

-----------------------------------------------------------------------------
LEMMA InitIInv == Init => IInv
<1> SUFFICES ASSUME Init PROVE IInv
  OBVIOUS
<1> USE DEF Init
<1>1. 0 \in Seq32 /\ Line \subseteq Slot /\ 0 \in Slot
  BY SeqModAssumption, SlotsAssumption DEF Seq32, Line, Slot
<1>2. TypeOK
  BY <1>1, SlotsAssumption, MaxOutAssumption, SMTT(30) DEF TypeOK, Quiet
<1>3. WrapSafe
  BY <1>1, AheadZero DEF WrapSafe, Quiet
<1> QED
  BY <1>1, <1>2, <1>3 DEF IInv, ScanInv, RoomInv, RowInv, OutInv, LevelInv, Settled, Quiet

LEMMA NextIInv == IInv /\ [Next]_vars => IInv'
<1> SUFFICES ASSUME IInv, [Next]_vars PROVE IInv'
  OBVIOUS
<1>1. TypeOK'
  BY TypeStep, Zenon DEF IInv
<1>2. CASE UNCHANGED vars
  BY <1>2, ZenonT(30) DEF IInv, vars, sstVars, clientVars, TypeOK, WrapSafe, ScanInv, Scanned, Lag,
     RoomInv, RowInv, OutInv, LevelInv, Settled
<1> QED
  BY <1>1, <1>2, PostStep, BridgeStep, Zenon DEF Next

LEMMA SpecIInv == Spec => []IInv
BY InitIInv, NextIInv, PTL DEF Spec

-----------------------------------------------------------------------------
\* Every variable keeps its type; the counters stay within their width.
THEOREM TypeCorrect == Spec => []TypeOK
<1>1. IInv => TypeOK
  BY Zenon DEF IInv
<1> QED
  BY <1>1, SpecIInv, PTL

\* The shadow generation vouches for every slot: once it equals the shared
\* one, each line has the level SST posted last.
THEOREM NothingLost == Spec => []NoLostChange
<1>1. ASSUME IInv PROVE NoLostChange
  <2> SUFFICES ASSUME bridge \in {"idle", "again"}, post.store = "none", gen = irqGen,
                      NEW i \in Line
               PROVE  guest[i] = level[i]
    BY Zenon DEF NoLostChange
  <2>1. i \in Slot
    BY SlotsAssumption DEF Line, Slot
  <2>2. /\ Ahead(irqGen, gen) = 0
        /\ Ahead(shadow[i], seq[i]) <= Ahead(irqGen, gen) + 0
        /\ Ahead(shadow[i], seq[i]) \in Nat
    BY <1>1, <2>1, AheadZero, AheadType, Seq32Nat, Zenon DEF IInv, TypeOK, WrapSafe
  <2>3. seq[i] = shadow[i]
    BY <1>1, <2>1, <2>2, AheadZero DEF IInv, TypeOK
  <2>4. Settled(i) /\ out = << >>
    BY <1>1, <2>3, Zenon DEF IInv, Settled, OutInv
  <2> QED
    BY <1>1, <2>4 DEF IInv, LevelInv
<1> QED
  BY <1>1, SpecIInv, PTL

\* The bridge never meets a change it must exit on.
THEOREM BridgeSurvives == Spec => []NeverExits
<1>1. IInv => NeverExits
  BY Zenon DEF IInv, RowInv, NeverExits
<1> QED
  BY <1>1, SpecIInv, PTL

\* Wrapping counters stay comparable.
THEOREM CountersComparable == Spec => []WrapSafe
<1>1. IInv => WrapSafe
  BY Zenon DEF IInv
<1> QED
  BY <1>1, SpecIInv, PTL

-----------------------------------------------------------------------------
(* Division.                                                               *)

\* Quotient and remainder, and the equation that determines them.
Divided(n, d, q, r) == n = d * q + r

\* They exist ...
LEMMA DivMod ==
    ASSUME NEW n \in Int, NEW d \in Nat \ {0}
    PROVE  \E q \in Int, r \in 0..d - 1 : n \div d = q /\ n % d = r /\ Divided(n, d, q, r)
<1>1. n \div d \in Int /\ n % d \in 0..d - 1 /\ Divided(n, d, n \div d, n % d)
  BY SMT DEF Divided
<1> QED
  BY <1>1, Zenon

\* ... and are unique.
LEMMA DivUnique ==
    ASSUME NEW n \in Int, NEW d \in Nat \ {0}, NEW q \in Int, NEW r \in 0..d - 1, Divided(n, d, q, r)
    PROVE  n \div d = q /\ n % d = r
BY SMT DEF Divided

\* The quotient of a natural number is one.
LEMMA DivNat ==
    ASSUME NEW n \in Nat, NEW d \in Nat \ {0}
    PROVE  n \div d \in Nat /\ d * (n \div d) <= n
BY SMT

\* A number without remainder is a multiple, and conversely.
LEMMA Multiple ==
    ASSUME NEW n \in Int, NEW d \in Nat \ {0}, n % d = 0
    PROVE  \E q \in Int : Divided(n, d, q, 0)
<1>1. PICK q \in Int, r \in 0..d - 1 : n % d = r /\ Divided(n, d, q, r)
  BY DivMod, Zenon
<1> QED
  BY <1>1, Zenon

\* Multiples of d are d apart.
LEMMA Apart ==
    ASSUME NEW a \in Int, NEW b \in Int, NEW d \in Nat \ {0}
    PROVE  /\ a <= b => d * a <= d * b
           /\ a < b => d * a + d <= d * b
           /\ d * a < d * b => a < b
           /\ d * (b - a) = d * b - d * a /\ d * (a + 1) = d * a + d
BY SMT


-----------------------------------------------------------------------------
(* The apertures of a user-mode guest: UserMmio.                           *)

Aperture == [base : Nat, size : Nat \ {0}, client : STRING]

\* The bytes of two apertures.
Disjoint(r, s) == r.base + r.size <= s.base \/ s.base + s.size <= r.base

\* Apertures have no byte in common exactly if one ends before the other begins.
LEMMA DisjointBytes ==
    ASSUME NEW r \in Aperture, NEW s \in Aperture
    PROVE  Bytes1(r) \cap Bytes1(s) = {} <=> Disjoint(r, s)
<1>1. PICK rb \in Nat, rs \in Nat \ {0}, sb \in Nat, ss \in Nat \ {0} :
          rb = r.base /\ rs = r.size /\ sb = s.base /\ ss = s.size
  BY Zenon DEF Aperture
<1>2. ASSUME rb + rs <= sb \/ sb + ss <= rb PROVE (rb..rb + rs - 1) \cap (sb..sb + ss - 1) = {}
  BY <1>2
<1>3. ASSUME ~(rb + rs <= sb \/ sb + ss <= rb) PROVE (rb..rb + rs - 1) \cap (sb..sb + ss - 1) # {}
  <2>1. CASE rb <= sb
    <3>1. sb \in rb..rb + rs - 1 /\ sb \in sb..sb + ss - 1
      BY <1>3, <2>1
    <3> QED
      BY <3>1, Zenon
  <2>2. CASE sb <= rb
    <3>1. rb \in rb..rb + rs - 1 /\ rb \in sb..sb + ss - 1
      BY <1>3, <2>2, SMTT(30)
    <3> QED
      BY <3>1, Zenon
  <2> QED
    BY <2>1, <2>2
<1> QED
  BY <1>1, <1>2, <1>3, Zenon DEF Bytes1, Disjoint

\* PageUp is the least multiple of the page that is not less.
LEMMA PageUpLeast ==
    ASSUME NEW n \in Nat, NEW m \in Int, n <= Page * m
    PROVE  PageUp(n) \in Int /\ PageUp(n) <= Page * m
<1>0. Page \in Nat \ {0}
  BY UserMmioAssumption, Zenon
<1>1. PICK e \in Int : e = n + Page - 1
  BY <1>0
<1>2. PICK q \in Int, r \in 0..Page - 1 : e \div Page = q /\ Divided(e, Page, q, r)
  BY <1>0, DivMod, Zenon
<1>3. PICK M \in Int, Q \in Int : M = Page * m /\ Q = Page * q
  BY <1>0
<1>4. Page * (m + 1) = M + Page
  BY <1>0, <1>3, Apart, ZenonT(60)
<1>5. Page * q < Page * (m + 1)
  BY <1>0, <1>1, <1>2, <1>3, <1>4 DEF Divided
<1>6. q <= m
  BY <1>0, <1>5, Apart
<1>7. Page * q <= Page * m
  BY <1>0, <1>6, Apart, Zenon
<1> QED
  BY <1>0, <1>1, <1>2, <1>3, <1>7 DEF PageUp

\* An aperture that begins on a page and lies beyond another one's bytes lies
\* beyond its pages.
LEMMA BeyondPages ==
    ASSUME NEW r \in Aperture, NEW s \in Aperture,
           r.base % Page = 0, s.base % Page = 0, Disjoint(r, s)
    PROVE  ~\E b \in Bytes1(s) : b \in r.base..r.base + PageUp(r.size) - 1
<1>0. Page \in Nat \ {0}
  BY UserMmioAssumption, Zenon
<1>1. PICK rb \in Nat, rs \in Nat \ {0}, sb \in Nat, ss \in Nat \ {0} :
          rb = r.base /\ rs = r.size /\ sb = s.base /\ ss = s.size
  BY Zenon DEF Aperture
<1>2. PICK u \in Int, v \in Int : Divided(rb, Page, u, 0) /\ Divided(sb, Page, v, 0)
  <2>1. rb \in Int /\ sb \in Int /\ rb % Page = 0 /\ sb % Page = 0
    BY <1>1
  <2> QED
    BY <1>0, <2>1, Multiple, Zenon
<1>3. PICK w \in Int : w = v - u
  OBVIOUS
<1>4. Page * w = sb - rb
  BY <1>0, <1>2, <1>3, Apart, SMTT(30) DEF Divided
<1>5. CASE rb + rs <= sb
  <2>1. rs <= Page * w
    BY <1>4, <1>5
  <2>2. PageUp(rs) \in Int /\ PageUp(rs) <= sb - rb
    BY <1>4, <2>1, PageUpLeast, Zenon
  <2> QED
    BY <1>1, <2>2 DEF Bytes1
<1>6. CASE sb + ss <= rb
  <2>1. ASSUME NEW b \in Bytes1(s) PROVE ~(rb <= b)
    BY <1>1, <1>6 DEF Bytes1
  <2>2. PageUp(rs) \in Int
    BY <1>0 DEF PageUp
  <2> QED
    BY <1>1, <2>1, <2>2, SMTT(30) DEF Bytes1
<1> QED
  BY <1>1, <1>5, <1>6, Zenon DEF Disjoint

MmioInv ==
    /\ job \in Jobs /\ args \in Nat
    /\ ranges \in Seq(Aperture)
    /\ RangesSound

\* An argument that is not refused keeps the apertures in the address space
\* and apart.
LEMMA RegisterStep ==
    ASSUME MmioInv, RegisterRange
    PROVE  MmioInv'
<1>0. {B, Page, AbiTop, MaxRanges, VcpuCount} \subseteq Nat \ {0}
  BY UserMmioAssumption, Zenon
<1>1. /\ phase = "args" /\ args < Len(job.specs) /\ args' = args + 1 /\ job' = job
      /\ job \in Jobs /\ args \in Nat /\ ranges \in Seq(Aperture) /\ RangesSound
  BY Zenon DEF RegisterRange, MmioInv
<1>2. PICK s \in Spec1 : s = job.specs[args + 1]
  <2>1. job.specs \in Seq(Spec1)
    BY <1>1, UserMmioAssumption, Zenon
  <2> QED
    BY <1>1, <2>1
<1>3. s.base \in Nat /\ s.size \in Nat /\ s.name \in STRING
  BY Zenon DEF Spec1
<1>4. CASE RangeRefused(s)
  <2>1. ranges' = ranges /\ phase' = "exit"
    BY <1>2, <1>4, Zenon DEF RegisterRange
  <2>2. RangesSound'
    BY <1>1, <2>1, Zenon DEF RangesSound
  <2> QED
    BY <1>1, <2>1, <2>2 DEF MmioInv
<1>5. CASE ~RangeRefused(s)
  <2>1. phase' = "args" /\ ranges' = Append(ranges, [base |-> s.base, size |-> s.size, client |-> s.name])
    BY <1>1, <1>2, <1>5, Zenon DEF RegisterRange
  <2>2. /\ ~(Len(ranges) >= MaxRanges) /\ s.size # 0 /\ FitsAbi(s)
        /\ \A i \in DOMAIN ranges : ~Overlap(s, ranges[i])
        /\ ~(VcpusOf(s.name) <= 0)
    BY <1>5, Zenon DEF RangeRefused
  <2>3. PICK r \in Aperture : r = [base |-> s.base, size |-> s.size, client |-> s.name]
    BY <1>3, <2>2, Zenon DEF Aperture
  <2>4. PICK c \in Nat : c = Len(ranges) /\ DOMAIN ranges = 1..c
    BY <1>1, SMTT(30)
  <2>5. /\ ranges' \in Seq(Aperture) /\ Len(ranges') = c + 1 /\ DOMAIN ranges' = 1..c + 1
        /\ ranges'[c + 1] = r /\ \A i \in 1..c : ranges'[i] = ranges[i]
    BY <1>1, <2>1, <2>3, <2>4, SMTT(30)
  <2>6. r.size > 0 /\ Bytes1(r) \subseteq 0..AbiTop - 1
    BY <1>0, <1>3, <2>2, <2>3, SMTT(30) DEF FitsAbi, Bytes1
  <2>7. VcpusOf(r.client) > 0
    <3>1. VcpusOf(s.name) \in Int
      BY <1>0 DEF VcpusOf
    <3> QED
      BY <2>2, <2>3, <3>1
  <2>8. ASSUME NEW i \in 1..c PROVE Bytes1(r) \cap Bytes1(ranges[i]) = {}
    <3>1. ranges[i] \in Aperture
      BY <1>1, <2>4
    <3>2. PICK rb \in Nat, rs \in Nat \ {0}, sb \in Nat, ss \in Nat \ {0} :
              rb = r.base /\ rs = r.size /\ sb = ranges[i].base /\ ss = ranges[i].size
      BY <3>1, Zenon DEF Aperture
    <3>3. ~(rb >= sb /\ rb - sb < ss) /\ ~(sb >= rb /\ sb - rb < rs)
      BY <2>2, <2>3, <2>4, <3>2, Zenon DEF Overlap
    <3>4. rb + rs <= sb \/ sb + ss <= rb
      BY <3>3
    <3> QED
      BY <3>1, <3>2, <3>4, DisjointBytes, Zenon DEF Disjoint
  <2>9. ASSUME NEW k \in 1..c + 1
        PROVE  /\ ranges'[k].size > 0 /\ Bytes1(ranges'[k]) \subseteq 0..AbiTop - 1
               /\ VcpusOf(ranges'[k].client) > 0
    <3>1. k = c + 1 \/ k \in 1..c
      OBVIOUS
    <3> QED
      BY <1>1, <2>4, <2>5, <2>6, <2>7, <3>1, Zenon DEF RangesSound
  <2>10. ASSUME NEW k \in 1..c + 1, NEW l \in 1..c + 1, k # l
         PROVE  Bytes1(ranges'[k]) \cap Bytes1(ranges'[l]) = {}
    <3>1. CASE k = c + 1
      <4>1. l \in 1..c
        BY <2>10, <3>1
      <4> QED
        BY <2>5, <2>8, <3>1, <4>1, Zenon
    <3>2. CASE l = c + 1
      <4>1. k \in 1..c
        BY <2>10, <3>2
      <4>2. Bytes1(r) \cap Bytes1(ranges[k]) = {} /\ ranges'[k] = ranges[k] /\ ranges'[l] = r
        BY <2>5, <2>8, <3>2, <4>1, Zenon
      <4> QED
        BY <4>2, Zenon
    <3>3. CASE k # c + 1 /\ l # c + 1
      <4>1. k \in 1..c /\ l \in 1..c
        BY <3>3, SMTT(30)
      <4> QED
        BY <1>1, <2>4, <2>5, <2>10, <4>1, Zenon DEF RangesSound
    <3> QED
      BY <3>1, <3>2, <3>3, Zenon
  <2>11. Len(ranges') <= MaxRanges
    BY <1>0, <2>2, <2>4, <2>5
  <2>12. phase' # "run"
    BY <2>1, Zenon
  <2>13. RangesSound'
    BY <2>5, <2>9, <2>10, <2>11, <2>12, Zenon DEF RangesSound
  <2> QED
    BY <1>1, <2>5, <2>13 DEF MmioInv
<1> QED
  BY <1>4, <1>5, Zenon

\* The guest runs only once every aperture begins on a page.
LEMMA ReserveStep ==
    ASSUME MmioInv, ApplyReservation
    PROVE  MmioInv'
<1>1. /\ job' = job /\ args' = args /\ ranges' = ranges
      /\ job \in Jobs /\ args \in Nat /\ ranges \in Seq(Aperture) /\ RangesSound
      /\ phase' = "run" => \A i \in DOMAIN ranges : ranges[i].base % Page = 0
  BY Zenon DEF ApplyReservation, MmioInv
<1>2. ASSUME phase' = "run", NEW k \in DOMAIN ranges, NEW l \in DOMAIN ranges, k # l
      PROVE  ~\E b \in Bytes1(ranges[l]) : b \in ranges[k].base..ranges[k].base + PageUp(ranges[k].size) - 1
  <2>1. ranges[k] \in Aperture /\ ranges[l] \in Aperture
    BY <1>1
  <2>2. Disjoint(ranges[k], ranges[l])
    BY <1>1, <1>2, <2>1, DisjointBytes, Zenon DEF RangesSound
  <2> QED
    BY <1>1, <1>2, <2>1, <2>2, BeyondPages, Zenon
<1>3. RangesSound'
  BY <1>1, <1>2, ZenonT(60) DEF RangesSound
<1> QED
  BY <1>1, <1>3, Zenon DEF MmioInv

\* The invariant holds of a guest that has not begun ...
LEMMA MmioInitial ==
    ASSUME MmioInit
    PROVE  MmioInv
<1>1. job \in Jobs /\ ranges = << >> /\ args = 0 /\ Len(ranges) = 0
  BY Zenon DEF MmioInit
<1>2. MaxRanges \in Nat
  BY UserMmioAssumption, Zenon
<1>3. RangesSound
  BY <1>1, <1>2 DEF RangesSound
<1> QED
  BY <1>1, <1>3 DEF MmioInv

\* ... and every step keeps it.
LEMMA MmioStep ==
    ASSUME MmioInv, [MmioNext]_mmioVars
    PROVE  MmioInv'
<1>1. ASSUME UNCHANGED <<job, args, ranges>>, phase' = phase \/ phase' # "run" PROVE MmioInv'
  <2>1. RangesSound'
    BY <1>1, Zenon DEF MmioInv, RangesSound
  <2> QED
    BY <1>1, <2>1, Zenon DEF MmioInv
<1>2. HandleFault \/ DeliverFault \/ UNCHANGED mmioVars =>
        UNCHANGED <<job, args, ranges>> /\ (phase' = phase \/ phase' # "run")
  BY Zenon DEF HandleFault, DeliverFault, mmioVars
<1> QED
  BY <1>1, <1>2, RegisterStep, ReserveStep, Zenon DEF MmioNext

\* The apertures lie in the guest's address space, are disjoint, and each has a
\* segment; a running guest has no byte of one in the reserved pages of
\* another, for every page size and address space, and every list of arguments
\* (sst_mmio_register_range, sst_mmio_apply_reservation).
THEOREM ApertureSoundness == MmioSpec => []RangesSound
<1>1. MmioInit => MmioInv
  BY MmioInitial, Zenon
<1>2. MmioInv /\ [MmioNext]_mmioVars => MmioInv'
  BY MmioStep, Zenon
<1>3. MmioInv => RangesSound
  BY Zenon DEF MmioInv
<1> QED
  BY <1>1, <1>2, <1>3, PTL DEF MmioSpec

-----------------------------------------------------------------------------
(* A user-mode access as the instruction sets define it: UserMmio.         *)

\* A set of numbers has a least element.
LEMMA LeastNumber ==
    ASSUME NEW T, T \subseteq Nat, T # {}
    PROVE  \E m \in T : \A n \in T : m <= n
<1> DEFINE R == {ss \in Nat \X Nat : ss[1] < ss[2]}
<1>1. IsWellFoundedOn(R, Nat)
  BY NatLessThanWellFounded, Zenon DEF OpToRel
<1>3. \A y, z \in Nat : y < z => <<y, z>> \in R
  OBVIOUS
<1> HIDE DEF R
<1>4. PICK m \in T : \A n \in T : <<n, m>> \notin R
  BY <1>1, WFMin, Zenon
<1>5. ASSUME NEW n \in T PROVE m <= n
  <2>1. ~(n < m)
    BY <1>3, <1>4, Zenon
  <2>2. m \in Nat /\ n \in Nat
    OBVIOUS
  <2> QED
    BY <2>1, <2>2
<1> QED
  BY <1>5, Zenon

-----------------------------------------------------------------------------
(* Numbers of one, two, four and eight bytes.                              *)

Sizes1 == {1, 2, 4, 8}

\* A positive number is at most its square.
LEMMA Square ==
    ASSUME NEW b \in Nat \ {0}
    PROVE  b * b \in Nat \ {0} /\ b <= b * b
BY SMTT(30)

\* More bytes have more values.
LEMMA ValuesGrow ==
    ASSUME NEW s \in Sizes1, NEW t \in Sizes1, s <= t
    PROVE  Values(s) \in Nat \ {0} /\ Values(t) \in Nat \ {0} /\ Values(s) <= Values(t)
<1>1. PICK b \in Nat \ {0} : b = B
  BY UserMmioAssumption, Zenon
<1>2. PICK two \in Nat \ {0} : two = b * b /\ b <= two
  BY Square, Zenon
<1>3. PICK four \in Nat \ {0} : four = two * two /\ two <= four
  BY Square, Zenon
<1>4. PICK eight \in Nat \ {0} : eight = four * four /\ four <= eight
  BY Square, Zenon
<1>5. Values(1) = b /\ Values(2) = two /\ Values(4) = four /\ Values(8) = eight
  BY <1>1, <1>2, <1>3, <1>4, SMTT(30) DEF Values
<1> QED
  BY <1>2, <1>3, <1>4, <1>5 DEF Sizes1

\* The low byte of the low two bytes is the low byte.
LEMMA LowOfLow ==
    ASSUME NEW v \in Nat, NEW s \in {1, 2}
    PROVE  Low(Low(v, 2), s) = Low(v, s)
<1>1. PICK b \in Nat \ {0} : b = B
  BY UserMmioAssumption, Zenon
<1>2. PICK two \in Nat \ {0} : two = b * b
  BY Square, Zenon
<1>3. Values(1) = b /\ Values(2) = two
  BY <1>1, <1>2 DEF Values
<1> v \in Int
  OBVIOUS
<1>4. PICK q \in Int, r \in 0..two - 1 : v % two = r /\ Divided(v, two, q, r)
  BY DivMod, Zenon
<1> r \in Int
  OBVIOUS
<1>5. PICK p \in Int, z \in 0..b - 1 : r % b = z /\ Divided(r, b, p, z)
  BY DivMod, Zenon
<1>6. Divided(v, b, b * q + p, z)
  BY <1>2, <1>4, <1>5 DEF Divided
<1>7. v % b = z
  <2>1. PICK k \in Int : k = b * q + p
    OBVIOUS
  <2> QED
    BY <1>6, <2>1, DivUnique, Zenon
<1>8. r % two = r
  BY <1>4
<1> QED
  BY <1>3, <1>4, <1>5, <1>7, <1>8, Zenon DEF Low

\* The low bytes of a value are its remainder; the rest is a multiple.
LEMMA LowFacts ==
    ASSUME NEW v \in Nat, NEW s \in Sizes1
    PROVE  /\ Low(v, s) \in Nat /\ Low(v, s) < Values(s)
           /\ Low(v, s) = v % Values(s) /\ Low(v, s) % Values(s) = Low(v, s)
           /\ v - Low(v, s) \in Nat /\ Values(s) * (v \div Values(s)) = v - Low(v, s)
<1>1. PICK P \in Nat \ {0} : P = Values(s)
  BY ValuesGrow DEF Sizes1
<1> v \in Int
  OBVIOUS
<1>2. PICK q \in Int, r \in 0..P - 1 : v \div P = q /\ v % P = r /\ Divided(v, P, q, r)
  BY DivMod, Zenon
<1>3. v \div P \in Nat /\ P * (v \div P) <= v
  BY DivNat, Zenon
<1>4. r % P = r
  OBVIOUS
<1>5. Low(v, s) = r
  BY <1>1, <1>2, Zenon DEF Low
<1>6. PICK m \in Int : m = P * q /\ v = m + r /\ m = P * (v \div P)
  BY <1>2 DEF Divided
<1>7. r \in Nat /\ r < P /\ v - r \in Nat /\ m = v - r
  BY <1>2, <1>3, <1>6
<1> QED
  BY <1>1, <1>2, <1>4, <1>5, <1>6, <1>7, Zenon

\* What the code's sign extension leaves is what the instruction sets define:
\* the signed value, as a number of `width' bytes.
LEMMA Extension ==
    ASSUME NEW v \in Nat, NEW s \in Sizes1, NEW width \in Sizes1, s <= width
    PROVE  /\ SignExtend(v, s, width) \in Nat
           /\ SignExtend(v, s, width) = Signed(v, s) % Values(width)
           /\ s = width => Low(v, s) = Signed(v, s) % Values(width)
           /\ Negative(v, s) <=> Signed(v, s) < 0
<1>1. PICK P \in Nat \ {0}, W \in Nat \ {0} : P = Values(s) /\ W = Values(width) /\ P <= W
  BY ValuesGrow, Zenon
<1>2. PICK u \in Nat : u = Low(v, s) /\ u = v % P /\ u < P
  BY <1>1, LowFacts, Zenon
<1>3. Negative(v, s) <=> 2 * u >= P
  BY <1>1, <1>2, Zenon DEF Negative
<1>4. CASE 2 * u >= P
  <2>1. SignExtend(v, s, width) = u + (W - P) /\ Signed(v, s) = u - P
    BY <1>1, <1>2, <1>3, <1>4, Zenon DEF SignExtend, Signed
  <2>2. Divided(u - P, W, -1, u - P + W) /\ u - P \in Int /\ u - P + W \in 0..W - 1
    BY <1>1, <1>2, SMTT(30) DEF Divided
  <2>3. (u - P) % W = u - P + W
    BY <2>2, DivUnique, SMTT(30)
  <2> QED
    BY <1>1, <1>2, <1>3, <1>4, <2>1, <2>3, SMTT(30)
<1>5. CASE ~(2 * u >= P)
  <2>1. SignExtend(v, s, width) = u /\ Signed(v, s) = u
    BY <1>1, <1>2, <1>3, <1>5, SMTT(30) DEF SignExtend, Signed
  <2>2. u % W = u
    BY <1>1, <1>2
  <2> QED
    BY <1>1, <1>2, <1>3, <1>5, <2>1, <2>2, SMTT(30)
<1> QED
  BY <1>4, <1>5, Zenon

-----------------------------------------------------------------------------
(* The decoders agree with the instruction sets.                           *)

\* Direction, size and length of the instruction.
Agrees(i, d) ==
    /\ d.store = IsaStores(i) /\ d.size = IsaSize(i) /\ d.len = IsaLength(i)
    /\ d.size \in Sizes1 /\ d.len # 0

\* The RISC-V decoder accepts the supported loads and stores ...
LEMMA RvDecoded ==
    ASSUME NEW i \in Rv
    PROVE  /\ Decode(i).len # 0 <=> Supported(i)
           /\ Supported(i) => Agrees(i, Decode(i))
           /\ Supported(i) => /\ Decode(i).index = 0 /\ Decode(i).reg = i.r
                              /\ ~IsaStores(i) => Decode(i).signed = (i.f < 3)
<1>1. i.set = "rv" /\ i.op \in {"load", "store", "other"} /\ i.f \in 0..7
  BY Zenon DEF Rv
<1>2. Decode(i) = DecodeRv(i)
  BY <1>1, Zenon DEF Decode
<1>3. /\ Supported(i) <=> (i.op = "load" /\ i.f <= 6) \/ (i.op = "store" /\ i.f <= 3)
      /\ IsaStores(i) = (i.op = "store") /\ IsaLength(i) = 4
      /\ IsaSize(i) = <<1, 2, 4, 8>>[(i.f % 4) + 1]
  BY <1>1, Zenon DEF Supported, IsaStores, IsaLength, IsaSize
<1>4. DecodeRv(i).len # 0 <=> Supported(i)
  BY <1>1, <1>3 DEF DecodeRv, NoDecode
<1>5. ASSUME Supported(i)
      PROVE  Agrees(i, Decode(i)) /\ Decode(i).index = 0 /\ Decode(i).reg = i.r
             /\ (~IsaStores(i) => Decode(i).signed = (i.f < 3))
  <2>1. PICK f \in 0..7 : f = i.f
    BY <1>1, Zenon
  <2>2. PICK k \in Sizes1 : /\ k = CASE f \in {0, 4} -> 1 [] f \in {1, 5} -> 2 [] f \in {2, 6} -> 4 [] OTHER -> 8
                            /\ k = <<1, 2, 4, 8>>[(f % 4) + 1]
    BY DEF Sizes1
  <2>3. DecodeRv(i) = [len |-> 4, store |-> i.op = "store", size |-> k, reg |-> i.r,
                       signed |-> i.op = "load" /\ i.f <= 2, index |-> 0]
    BY <1>3, <1>5, <2>1, <2>2, Zenon DEF DecodeRv
  <2>4. i.op = "load" \/ i.op = "store"
    BY <1>3, <1>5, Zenon
  <2>5. /\ DecodeRv(i).len = 4 /\ DecodeRv(i).store = (i.op = "store") /\ DecodeRv(i).size = k
        /\ DecodeRv(i).reg = i.r /\ DecodeRv(i).index = 0
        /\ DecodeRv(i).signed = (i.op = "load" /\ i.f <= 2)
    BY <2>3
  <2>6. Agrees(i, DecodeRv(i))
    BY <1>3, <2>1, <2>2, <2>5 DEF Agrees
  <2>7. ~IsaStores(i) => DecodeRv(i).signed = (i.f < 3)
    <3>1. i.f <= 2 <=> i.f < 3
      BY <1>1
    <3>2. ~IsaStores(i) => i.op = "load"
      BY <1>3, <2>4, ZenonT(60)
    <3>3. i.op = "load" => DecodeRv(i).signed = (i.f < 3)
      BY <2>5, <3>1
    <3> QED
      BY <3>2, <3>3, Zenon
  <2> QED
    BY <1>2, <2>5, <2>6, <2>7, Zenon
<1> QED
  BY <1>2, <1>4, <1>5, Zenon

\* ... and the compressed ones.
LEMMA RvcDecoded ==
    ASSUME NEW i \in Rvc
    PROVE  /\ Decode(i).len # 0 <=> Supported(i)
           /\ Supported(i) => Agrees(i, Decode(i))
           /\ Supported(i) => /\ Decode(i).index = 0 /\ Decode(i).reg = i.r
                              /\ ~IsaStores(i) => Decode(i).signed = (i.f < 3)
<1>1. i.set = "rvc" /\ i.q \in 0..2 /\ i.f \in 0..7
  BY Zenon DEF Rvc
<1>2. Decode(i) = DecodeRvc(i)
  BY <1>1, Zenon DEF Decode
<1>3. /\ Supported(i) <=> i.q = 0 /\ i.f % 4 \in {2, 3}
      /\ IsaStores(i) = (i.f >= 4) /\ IsaLength(i) = 2
      /\ IsaSize(i) = <<1, 2, 4, 8>>[(i.f % 4) + 1]
  BY <1>1, Zenon DEF Supported, IsaStores, IsaLength, IsaSize
<1>4. i.f % 4 \in {2, 3} <=> i.f \in {2, 3, 6, 7}
  BY <1>1, SMTT(30)
<1>5. DecodeRvc(i).len # 0 <=> Supported(i)
  BY <1>3, <1>4, SMTT(40) DEF DecodeRvc, NoDecode
<1>6. ASSUME Supported(i)
      PROVE  /\ Agrees(i, DecodeRvc(i))
             /\ DecodeRvc(i).index = 0 /\ DecodeRvc(i).reg = i.r
             /\ ~IsaStores(i) => DecodeRvc(i).signed = (i.f < 3)
  <2>1. i.q = 0 /\ i.f \in {2, 3, 6, 7}
    BY <1>3, <1>4, <1>6, Zenon
  <2>2. PICK f \in {2, 3, 6, 7} : f = i.f
    BY <2>1, Zenon
  <2>3. PICK k \in Sizes1 : k = (IF f % 2 = 0 THEN 4 ELSE 8) /\ k = <<1, 2, 4, 8>>[(f % 4) + 1]
    BY DEF Sizes1
  <2>4. DecodeRvc(i) = [len |-> 2, store |-> i.f >= 6, size |-> k, reg |-> i.r, signed |-> i.f = 2, index |-> 0]
    BY <2>1, <2>2, <2>3, Zenon DEF DecodeRvc
  <2>5. /\ DecodeRvc(i).len = 2 /\ DecodeRvc(i).store = (i.f >= 6) /\ DecodeRvc(i).size = k
        /\ DecodeRvc(i).reg = i.r /\ DecodeRvc(i).signed = (i.f = 2) /\ DecodeRvc(i).index = 0
    BY <2>4
  <2>6. (i.f >= 6 <=> i.f >= 4) /\ (~(i.f >= 4) => (i.f = 2 <=> i.f < 3))
    BY <2>1, SMTT(30)
  <2>7. DecodeRvc(i).store = IsaStores(i)
    BY <1>3, <2>5, <2>6, SMTT(30)
  <2>8. Agrees(i, DecodeRvc(i))
    BY <1>3, <2>2, <2>3, <2>5, <2>7, SMTT(30) DEF Agrees
  <2>9. ~IsaStores(i) => DecodeRvc(i).signed = (i.f < 3)
    <3>1. ~IsaStores(i) => (i.f = 2 <=> i.f < 3)
      BY <1>3, <2>6, Zenon
    <3>2. (i.f = 2 <=> i.f < 3) => DecodeRvc(i).signed = (i.f < 3)
      BY <2>5
    <3> QED
      BY <3>1, <3>2, Zenon
  <2> QED
    BY <2>5, <2>8, <2>9, Zenon
<1> QED
  BY <1>2, <1>5, <1>6, Zenon

\* The register operand of a MOVE, or its immediate one.
Operand(i, d) ==
    IF ~IsaStores(i)
    THEN i.dst[1] \in {0, 1} /\ d.reg = RegOf(i.dst) /\ (d.size = 1 => i.dst[1] = 0)
    ELSE /\ i.dst[1] \notin {0, 1}
         /\ IF i.src = <<7, 4>> THEN d.reg = Immediate ELSE i.src[1] \in {0, 1} /\ d.reg = RegOf(i.src)

\* The words that the handler reads lie within the instruction.
TextWithin(d) == d.len \in Nat /\ TextRead("m68k", d) \subseteq 0..d.len

\* The m68k decoder accepts the supported MOVEs, but for the test of the index
\* extension word, which the handler makes.
LEMMA M68kDecoded ==
    ASSUME NEW i \in M68k
    PROVE  /\ Decode(i).len # 0 /\ ~(Decode(i).index # 0 /\ i.full) <=> Supported(i)
           /\ Supported(i) => /\ Agrees(i, Decode(i)) /\ Operand(i, Decode(i)) /\ Decode(i).size # 8
                              /\ TextWithin(Decode(i))
<1>1. PICK s \in 0..7, t \in 0..7, m \in 0..7, n \in 0..7 : i.src = <<s, t>> /\ i.dst = <<m, n>>
  <2>1. i.src \in (0..7) \X (0..7) /\ i.dst \in (0..7) \X (0..7)
    BY Zenon DEF M68k
  <2>2. PICK s \in 0..7, t \in 0..7 : i.src = <<s, t>>
    BY <2>1, SMTT(30)
  <2>3. PICK m \in 0..7, n \in 0..7 : i.dst = <<m, n>>
    BY <2>1, SMT
  <2> QED
    BY <2>2, <2>3, Zenon
<1>2. i.set = "m68k" /\ i.move \in BOOLEAN /\ i.full \in BOOLEAN /\ i.sz \in 0..3
  BY Zenon DEF M68k
<1>3. Decode(i) = DecodeM68k(i)
  BY <1>2, Zenon DEF Decode
<1>4. CASE ~i.move \/ i.sz = 0
  BY <1>2, <1>3, <1>4, SMTT(30) DEF DecodeM68k, NoDecode, Supported
<1>5. CASE i.move /\ i.sz # 0
  <2>1. PICK size \in {1, 2, 4} : /\ size = CASE i.sz = 1 -> 1 [] i.sz = 3 -> 2 [] i.sz = 2 -> 4 [] OTHER -> 0
                                  /\ size = IsaSize(i)
    BY <1>2, <1>5 DEF IsaSize
  <2>2. IsaStores(i) = InMemory(i.dst) /\ IsaLength(i) = 2 + 2 * (Words(i.src, size) + Words(i.dst, size))
    BY <1>2, <2>1, Zenon DEF IsaStores, IsaLength
  <2>3. PICK es \in Int, ed \in Int :
            /\ es = EaExtLen(i.src) /\ ed = EaExtLen(i.dst)
            /\ es = CASE s = 2 -> 0 [] s \in {5, 6} -> 2
                      [] s = 7 -> IF t = 1 THEN 4 ELSE IF t \in {0, 2, 3} THEN 2 ELSE -1 [] OTHER -> -1
            /\ ed = CASE m = 2 -> 0 [] m \in {5, 6} -> 2
                      [] m = 7 -> IF n = 1 THEN 4 ELSE IF n \in {0, 2, 3} THEN 2 ELSE -1 [] OTHER -> -1
    BY <1>1 DEF EaExtLen
  <2>4. PICK ws \in Nat, wd \in Nat :
            /\ ws = Words(i.src, size) /\ wd = Words(i.dst, size)
            /\ ws = CASE s \in {5, 6} -> 1 [] s = 7 -> IF t = 1 \/ (t = 4 /\ size = 4) THEN 2 ELSE 1 [] OTHER -> 0
            /\ wd = CASE m \in {5, 6} -> 1 [] m = 7 -> IF n = 1 \/ (n = 4 /\ size = 4) THEN 2 ELSE 1 [] OTHER -> 0
    BY <1>1, SMTT(30) DEF Words
  <2>5. /\ InMemory(i.src) <=> s \in 2..6 \/ (s = 7 /\ t < 4)
        /\ InMemory(i.dst) <=> m \in 2..6 \/ (m = 7 /\ n < 4)
    BY <1>1 DEF InMemory
  <2>6. Supported(i) <=>
          /\ ~(InMemory(i.src) <=> InMemory(i.dst))
          /\ m = 7 => n <= 1
          /\ s = 7 => t <= 4
          /\ size = 1 => s # 1 /\ m # 1
          /\ InMemory(i.src) => s \notin {3, 4} /\ (s = 6 \/ (s = 7 /\ t = 3) => ~i.full)
          /\ InMemory(i.dst) => m \notin {3, 4} /\ (m = 6 \/ (m = 7 /\ n = 3) => ~i.full)
    <3>1. (InMemory(i.src) # InMemory(i.dst)) <=> ~(InMemory(i.src) <=> InMemory(i.dst))
      BY Zenon DEF InMemory
    <3>2. Supported(i) <=>
            LET mem == {ea \in {i.src, i.dst} : InMemory(ea)}
            IN  /\ i.move /\ i.sz # 0
                /\ ~(InMemory(i.src) <=> InMemory(i.dst))
                /\ i.dst[1] = 7 => i.dst[2] <= 1
                /\ i.src[1] = 7 => i.src[2] <= 4
                /\ IsaSize(i) = 1 => 1 \notin {i.src[1], i.dst[1]}
                /\ \A ea \in mem : ea[1] \notin {3, 4} /\ (ea[1] = 6 \/ ea = <<7, 3>> => ~i.full)
      BY <1>2, <3>1, ZenonT(60) DEF Supported
    <3> QED
      BY <1>1, <1>2, <1>5, <2>1, <3>2, SMTT(30)
  <2>7. CASE size = 1 /\ 1 \in {s, m}
    <3>1. DecodeM68k(i) = NoDecode
      BY <1>1, <1>5, <2>1, <2>7, SMTT(30) DEF DecodeM68k
    <3> QED
      BY <1>3, <2>6, <2>7, <3>1, SMTT(30) DEF NoDecode
  <2>8. CASE ~(size = 1 /\ 1 \in {s, m}) /\ s \in {0, 1} /\ m >= 2 /\ (m # 7 \/ n <= 1)
    <3>1. DecodeM68k(i) =
             IF ed < 0 THEN NoDecode
             ELSE [len |-> 2 + 0 + ed, store |-> TRUE, size |-> size, reg |-> RegOf(i.src),
                   signed |-> FALSE, index |-> IF m = 6 THEN 2 + 0 ELSE 0]
      BY <1>1, <1>5, <2>1, <2>3, <2>8, SMTT(30) DEF DecodeM68k
    <3>2. CASE ed < 0
      <4>1. ~Supported(i)
        BY <2>3, <2>5, <2>6, <2>8, <3>2, SMTT(30)
      <4>2. Decode(i).len = 0
        BY <1>3, <3>1, <3>2, SMTT(30) DEF NoDecode
      <4> QED
        BY <4>1, <4>2, Zenon
    <3>3. CASE ~(ed < 0)
      <4>1. Supported(i) <=> ~(m = 6 /\ i.full)
        BY <2>3, <2>5, <2>6, <2>8, <3>3, SMTT(30)
      <4>2. 2 + ed = IsaLength(i) /\ IsaStores(i) = TRUE
        <5>1. 2 + ed = 2 + 2 * (ws + wd)
          BY <2>3, <2>4, <2>8, <3>3, SMTT(30)
        <5>2. IsaStores(i) <=> TRUE
          BY <2>2, <2>5, <2>8, SMTT(30)
        <5> QED
          BY <2>2, <2>4, <5>1, <5>2, Zenon
      <4>3. /\ Decode(i).len = 2 + ed /\ Decode(i).store = TRUE /\ Decode(i).size = size
            /\ Decode(i).reg = RegOf(i.src) /\ (Decode(i).index # 0 <=> m = 6)
        BY <1>3, <3>1, <3>3, SMTT(30)
      <4>4. Agrees(i, Decode(i))
        <5>1. Decode(i).len # 0 /\ Decode(i).size \in Sizes1
          BY <2>1, <3>3, <4>3, SMTT(30) DEF Sizes1
        <5> QED
          BY <2>1, <4>2, <4>3, <5>1, Zenon DEF Agrees
      <4>5. Operand(i, Decode(i))
        <5>1. IsaStores(i) /\ i.dst[1] \notin {0, 1} /\ i.src # <<7, 4>> /\ i.src[1] \in {0, 1}
          BY <1>1, <2>8, <4>2, SMTT(30)
        <5> QED
          BY <4>3, <5>1, ZenonT(60) DEF Operand
      <4>6. TextWithin(Decode(i))
        <5>1. PICK d : d = Decode(i)
          OBVIOUS
        <5>2. d.len = 2 + ed /\ d.index = (IF m = 6 THEN 2 ELSE 0) /\ d.reg = RegOf(i.src)
          BY <1>3, <3>1, <3>3, <5>1, SMTT(30)
        <5>3. d.reg # Immediate
          BY <1>1, <5>2, SMTT(30) DEF RegOf, Immediate
        <5>4. TextRead("m68k", d) = {2} \cup (IF d.index # 0 THEN {d.index + 2} ELSE {})
          BY <5>3, SMTT(30) DEF TextRead
        <5>5. d.len \in Nat /\ TextRead("m68k", d) \subseteq 0..d.len
          BY <2>3, <3>3, <5>2, <5>4, SMTT(30)
        <5> QED
          BY <5>1, <5>5, Zenon DEF TextWithin
      <4>7. size # 8
        BY <2>1
      <4> QED
        BY <4>1, <4>3, <4>4, <4>5, <4>6, <4>7, ZenonT(60) DEF Agrees
    <3> QED
      BY <3>2, <3>3, Zenon
  <2>9. CASE ~(size = 1 /\ 1 \in {s, m}) /\ s = 7 /\ t = 4 /\ m >= 2 /\ (m # 7 \/ n <= 1)
    <3>1. PICK imm \in Nat : imm = IF size = 4 THEN 4 ELSE 2
      OBVIOUS
    <3>2. DecodeM68k(i) =
             IF ed < 0 THEN NoDecode
             ELSE [len |-> 2 + imm + ed, store |-> TRUE, size |-> size, reg |-> Immediate,
                   signed |-> FALSE, index |-> IF m = 6 THEN 2 + imm ELSE 0]
      <4>1. i.src = <<7, 4>> /\ i.src[1] = 7 /\ i.dst[1] = m /\ i.dst[2] = n
        BY <1>1, <2>9, SMTT(30)
      <4>2. /\ ~(~i.move \/ size = 0 \/ (size = 1 /\ 1 \in {i.src[1], i.dst[1]}))
            /\ ~(i.src[1] \in {0, 1}) /\ i.dst[1] >= 2 /\ (i.dst[1] # 7 \/ i.dst[2] <= 1)
            /\ i.dst[1] \notin {0, 1} /\ (i.dst[1] = 6) = (m = 6)
        BY <1>1, <1>5, <2>9, <4>1, SMTT(30)
      <4> QED
        BY <2>1, <2>3, <3>1, <4>1, <4>2, ZenonT(60) DEF DecodeM68k
    <3>3. CASE ed < 0
      <4>1. ~Supported(i)
        BY <2>3, <2>5, <2>6, <2>9, <3>3, SMTT(30)
      <4>2. Decode(i).len = 0
        BY <1>3, <3>2, <3>3, SMTT(30) DEF NoDecode
      <4> QED
        BY <4>1, <4>2, Zenon
    <3>4. CASE ~(ed < 0)
      <4>1. Supported(i) <=> ~(m = 6 /\ i.full)
        BY <2>3, <2>5, <2>6, <2>9, <3>4, SMTT(30)
      <4>2. 2 + imm + ed = IsaLength(i) /\ IsaStores(i) = TRUE
        <5>1. 2 + imm + ed = 2 + 2 * (ws + wd)
          BY <2>1, <2>3, <2>4, <2>9, <3>1, <3>4, SMTT(30)
        <5>2. IsaStores(i) <=> TRUE
          BY <2>2, <2>5, <2>9, SMTT(30)
        <5> QED
          BY <2>2, <2>4, <5>1, <5>2, Zenon
      <4>3. /\ Decode(i).len = 2 + imm + ed /\ Decode(i).store = TRUE /\ Decode(i).size = size
            /\ Decode(i).reg = Immediate /\ (Decode(i).index # 0 <=> m = 6)
        BY <1>3, <3>1, <3>2, <3>4, SMTT(30)
      <4>4. Agrees(i, Decode(i))
        <5>1. Decode(i).len # 0 /\ Decode(i).size \in Sizes1
          BY <2>1, <3>1, <3>4, <4>3, SMTT(30) DEF Sizes1
        <5> QED
          BY <2>1, <4>2, <4>3, <5>1, Zenon DEF Agrees
      <4>5. Operand(i, Decode(i))
        <5>1. IsaStores(i) /\ i.dst[1] \notin {0, 1} /\ i.src = <<7, 4>>
          BY <1>1, <2>9, <4>2, SMTT(30)
        <5> QED
          BY <4>3, <5>1, ZenonT(60) DEF Operand
      <4>6. TextWithin(Decode(i))
        <5>1. PICK d : d = Decode(i)
          OBVIOUS
        <5>2. /\ d.len = 2 + imm + ed /\ d.index = (IF m = 6 THEN 2 + imm ELSE 0)
              /\ d.reg = Immediate /\ d.size = size
          BY <1>3, <3>1, <3>2, <3>4, <5>1, SMTT(30)
        <5>3. TextRead("m68k", d) =
                {2} \cup (IF d.index # 0 THEN {d.index + 2} ELSE {}) \cup {IF d.size = 4 THEN 6 ELSE 4}
          BY <5>2, SMTT(30) DEF TextRead
        <5>4. d.len \in Nat /\ TextRead("m68k", d) \subseteq 0..d.len
          BY <2>1, <2>3, <3>1, <3>4, <5>2, <5>3, SMTT(30)
        <5> QED
          BY <5>1, <5>4, Zenon DEF TextWithin
      <4>7. size # 8
        BY <2>1
      <4> QED
        BY <4>1, <4>3, <4>4, <4>5, <4>6, <4>7, ZenonT(60) DEF Agrees
    <3> QED
      BY <3>3, <3>4, Zenon
  <2>10. CASE ~(size = 1 /\ 1 \in {s, m}) /\ m \in {0, 1}
    <3>1. DecodeM68k(i) =
             IF es < 0 THEN NoDecode
             ELSE [len |-> 2 + 0 + es, store |-> FALSE, size |-> size, reg |-> RegOf(i.dst),
                   signed |-> FALSE, index |-> IF s = 6 \/ (s = 7 /\ t = 3) THEN 2 + 0 ELSE 0]
      BY <1>1, <1>5, <2>1, <2>3, <2>10, SMTT(30) DEF DecodeM68k
    <3>2. CASE es < 0
      <4>1. ~Supported(i)
        BY <2>3, <2>5, <2>6, <2>10, <3>2, SMTT(30)
      <4>2. Decode(i).len = 0
        BY <1>3, <3>1, <3>2, SMTT(30) DEF NoDecode
      <4> QED
        BY <4>1, <4>2, Zenon
    <3>3. CASE ~(es < 0)
      <4>1. Supported(i) <=> ~((s = 6 \/ (s = 7 /\ t = 3)) /\ i.full)
        BY <2>3, <2>5, <2>6, <2>10, <3>3, SMTT(30)
      <4>2. 2 + es = IsaLength(i) /\ IsaStores(i) = FALSE
        <5>1. 2 + es = 2 + 2 * (ws + wd)
          BY <2>3, <2>4, <2>10, <3>3, SMTT(30)
        <5>2. IsaStores(i) = FALSE
          BY <2>2, <2>5, <2>10, SMTT(30)
        <5> QED
          BY <2>2, <2>4, <5>1, <5>2, Zenon
      <4>3. /\ Decode(i).len = 2 + es /\ Decode(i).store = FALSE /\ Decode(i).size = size
            /\ Decode(i).index # 0 <=> s = 6 \/ (s = 7 /\ t = 3)
        BY <1>3, <3>1, <3>3, SMTT(30)
      <4>4. Agrees(i, Decode(i))
        <5>1. Decode(i).store = IsaStores(i)
          BY <4>2, <4>3, Zenon
        <5>2. Decode(i).size = IsaSize(i) /\ Decode(i).size \in Sizes1
          BY <2>1, <4>3, Zenon DEF Sizes1
        <5>3. Decode(i).len = IsaLength(i) /\ Decode(i).len # 0
          BY <3>3, <4>2, <4>3, SMTT(30)
        <5> QED
          BY <5>1, <5>2, <5>3, Zenon DEF Agrees
      <4>5. Operand(i, Decode(i))
        <5>1. i.dst[1] = m /\ Decode(i).reg = RegOf(i.dst) /\ ~IsaStores(i)
          BY <1>1, <1>3, <3>1, <3>3, <4>2, SMTT(30)
        <5>2. Decode(i).size = 1 => m = 0
          BY <2>10, <4>3, ZenonT(60)
        <5> QED
          BY <2>10, <5>1, <5>2, ZenonT(60) DEF Operand
      <4>6. TextWithin(Decode(i))
        <5>1. PICK d : d = Decode(i)
          OBVIOUS
        <5>2. /\ d.len = 2 + es /\ d.reg = RegOf(i.dst)
              /\ d.index = (IF s = 6 \/ (s = 7 /\ t = 3) THEN 2 ELSE 0)
          BY <1>3, <3>1, <3>3, <5>1, SMTT(30)
        <5>3. d.reg # Immediate
          BY <1>1, <5>2, SMTT(30) DEF RegOf, Immediate
        <5>4. TextRead("m68k", d) = {2} \cup (IF d.index # 0 THEN {d.index + 2} ELSE {})
          BY <5>3, SMTT(30) DEF TextRead
        <5>5. d.len \in Nat /\ TextRead("m68k", d) \subseteq 0..d.len
          BY <2>3, <3>3, <5>2, <5>4, SMTT(30)
        <5> QED
          BY <5>1, <5>5, Zenon DEF TextWithin
      <4>7. size # 8
        BY <2>1
      <4> QED
        BY <4>1, <4>3, <4>4, <4>5, <4>6, <4>7, ZenonT(60) DEF Agrees
    <3> QED
      BY <3>2, <3>3, Zenon
  <2>11. CASE /\ ~(size = 1 /\ 1 \in {s, m}) /\ m \notin {0, 1}
              /\ ~(s \in {0, 1} /\ m >= 2 /\ (m # 7 \/ n <= 1))
              /\ ~(s = 7 /\ t = 4 /\ m >= 2 /\ (m # 7 \/ n <= 1))
    <3>1. DecodeM68k(i) = NoDecode
      BY <1>1, <1>5, <2>1, <2>11, SMTT(30) DEF DecodeM68k
    <3>2. ~Supported(i)
      BY <2>5, <2>6, <2>11, SMTT(30)
    <3> QED
      BY <1>3, <3>1, <3>2, SMTT(30) DEF NoDecode
  <2> QED
    BY <2>7, <2>8, <2>9, <2>10, <2>11, Zenon
<1> QED
  BY <1>4, <1>5, Zenon

-----------------------------------------------------------------------------
(* What a serviced access leaves in registers and flags.                   *)

Registers == [RegNames -> Nat]

\* The registers after a load, as the handler sets them.
Loaded(isa, d, v, old) ==
    IF isa = "riscv" /\ d.reg = 0 THEN old ELSE [old EXCEPT ![d.reg] = Widen(isa, d, v, @)]

\* A RISC-V load extends the value to the register as its instruction says.
LEMMA RiscvLoads ==
    ASSUME NEW i \in Rv \cup Rvc, Supported(i), ~IsaStores(i), NEW old \in Registers, NEW v \in Nat
    PROVE  Loaded("riscv", Decode(i), v, old) = IsaLoads(i, old, v) /\ IsaLoads(i, old, v) \in Registers
<1>1. PICK d : d = Decode(i)
  OBVIOUS
<1>2. /\ Agrees(i, d) /\ d.reg = i.r /\ d.signed = (i.f < 3) /\ i.r \in RegNames /\ i.f \in 0..7
      /\ i.set \in {"rv", "rvc"} /\ (i.set = "rvc" => i.f < 4)
  <2>1. CASE i \in Rv
    BY <1>1, <2>1, RvDecoded, Zenon DEF Rv
  <2>2. CASE i \in Rvc
    <3>1. i.set = "rvc" /\ i.f \in 0..7 /\ i.r \in RegNames
      BY <2>2 DEF Rvc, RegNames
    <3>2. i.f < 4
      BY <3>1, SMTT(30) DEF IsaStores
    <3> QED
      BY <1>1, <2>2, <3>1, <3>2, RvcDecoded, Zenon
  <2> QED
    BY <2>1, <2>2, Zenon
<1>3. PICK s \in Sizes1 : s = IsaSize(i) /\ s = d.size /\ (i.f = 3 => s = 8)
  BY <1>2 DEF Agrees, IsaSize
<1>4. PICK w : w = IF i.set = "rv" /\ i.f > 3 THEN v % Values(s) ELSE Signed(v, s) % Values(8)
  OBVIOUS
<1>5. Widen("riscv", d, v, old[i.r]) = w /\ w \in Nat
  <2>1. 8 \in Sizes1 /\ s <= 8
    BY DEF Sizes1
  <2>2. /\ SignExtend(v, s, 8) \in Nat /\ SignExtend(v, s, 8) = Signed(v, s) % Values(8)
        /\ s = 8 => Low(v, s) = Signed(v, s) % Values(8)
    BY <2>1, Extension, Zenon
  <2>3. Low(v, s) \in Nat /\ Low(v, s) = v % Values(s)
    BY LowFacts, Zenon
  <2>4. Widen("riscv", d, v, old[i.r]) = IF d.signed THEN SignExtend(v, s, 8) ELSE Low(v, s)
    BY <1>3, Zenon DEF Widen
  <2>5. CASE i.f < 3
    <3>1. Widen("riscv", d, v, old[i.r]) = SignExtend(v, s, 8)
      BY <1>2, <2>4, <2>5, ZenonT(60)
    <3>2. w = Signed(v, s) % Values(8)
      BY <1>2, <1>4, <2>5, SMTT(30)
    <3> QED
      BY <2>2, <3>1, <3>2, Zenon
  <2>6. CASE i.f = 3
    BY <1>2, <1>3, <1>4, <2>2, <2>3, <2>4, <2>6, Zenon
  <2>7. CASE i.f > 3
    <3>1. Widen("riscv", d, v, old[i.r]) = Low(v, s)
      <4>1. ~(i.f < 3)
        BY <1>2, <2>7
      <4>2. ~d.signed
        BY <1>2, <4>1, ZenonT(60)
      <4> QED
        BY <2>4, <4>2, ZenonT(60)
    <3>2. w = v % Values(s)
      BY <1>2, <1>4, <2>7
    <3> QED
      BY <2>3, <3>1, <3>2, Zenon
  <2> QED
    BY <1>2, <2>5, <2>6, <2>7, SMTT(30)
<1>6. IsaLoads(i, old, v) = [r \in RegNames |-> IF r # i.r \/ r = 0 THEN old[r] ELSE w]
  BY <1>2, <1>3, <1>4, Zenon DEF IsaLoads
<1>7. CASE i.r = 0
  <2>1. IsaLoads(i, old, v) = old
    BY <1>6, <1>7, ZenonT(60) DEF Registers
  <2> QED
    BY <1>1, <1>2, <1>7, <2>1, Zenon DEF Loaded
<1>8. CASE i.r # 0
  <2>1. Loaded("riscv", d, v, old) = [old EXCEPT ![i.r] = w]
    BY <1>2, <1>5, <1>8, Zenon DEF Loaded
  <2> QED
    BY <1>1, <1>2, <1>5, <1>6, <1>8, <2>1, SMTT(30) DEF Registers
<1> QED
  BY <1>7, <1>8, Zenon

\* MOVE to a data register replaces its low bytes; MOVEA extends the sign.
LEMMA M68kLoads ==
    ASSUME NEW i \in M68k, Supported(i), ~IsaStores(i), NEW old \in Registers, NEW v \in Nat
    PROVE  Loaded("m68k", Decode(i), v, old) = IsaLoads(i, old, v) /\ IsaLoads(i, old, v) \in Registers
<1>1. PICK d : d = Decode(i)
  OBVIOUS
<1>2. Agrees(i, d) /\ Operand(i, d) /\ d.size # 8 /\ i.set = "m68k" /\ i.dst \in (0..7) \X (0..7)
  BY <1>1, M68kDecoded, Zenon DEF M68k
<1>3. PICK m \in {0, 1}, n \in 0..7 : i.dst[1] = m /\ i.dst[2] = n
  BY <1>2, Zenon DEF Operand
<1>4. PICK s \in Sizes1 : s = IsaSize(i) /\ s = d.size /\ s # 8
  BY <1>2, Zenon DEF Agrees
<1>5. CASE m = 0
  <2>1. d.reg = n /\ n \in RegNames
    BY <1>2, <1>3, <1>5 DEF Operand, RegOf, RegNames
  <2>2. PICK o \in Nat : o = old[n]
    BY <2>1, Zenon DEF Registers
  <2>3. Low(v, s) \in Nat /\ Low(v, s) = v % Values(s)
    BY LowFacts, Zenon
  <2>4. o - Low(o, s) \in Nat /\ Values(s) * (o \div Values(s)) = o - Low(o, s)
    BY LowFacts, Zenon
  <2>5. PICK w \in Nat : /\ w = Values(s) * (o \div Values(s)) + (v % Values(s))
                         /\ w = o - Low(o, s) + Low(v, s)
    BY <2>3, <2>4, SMTT(30)
  <2>6. Widen("m68k", d, v, o) = w
    BY <1>4, <2>1, <2>5, SMTT(30) DEF Widen
  <2>7. IsaLoads(i, old, v) = [old EXCEPT ![n] = w]
    BY <1>2, <1>3, <1>4, <1>5, <2>1, <2>2, <2>5, SMTT(30) DEF IsaLoads, Registers
  <2>8. Loaded("m68k", d, v, old) = [old EXCEPT ![n] = w]
    BY <2>1, <2>2, <2>6, Zenon DEF Loaded, Registers
  <2> QED
    BY <1>1, <2>1, <2>5, <2>7, <2>8, ZenonT(60) DEF Registers
<1>6. CASE m = 1
  <2>1. d.reg = 8 + n /\ 8 + n \in RegNames
    BY <1>2, <1>3, <1>6 DEF Operand, RegOf, RegNames
  <2>2. s = 2 \/ s = 4
    BY <1>2, <1>3, <1>4, <1>6, Zenon DEF Operand, Sizes1
  <2>3. 4 \in Sizes1 /\ s <= 4
    BY <2>2 DEF Sizes1
  <2>4. /\ SignExtend(v, s, 4) \in Nat /\ SignExtend(v, s, 4) = Signed(v, s) % Values(4)
        /\ s = 4 => Low(v, s) = Signed(v, s) % Values(4)
    BY <2>3, Extension, Zenon
  <2>5. PICK w \in Nat : w = Signed(v, s) % Values(4)
    BY <2>4, Zenon
  <2>6. Widen("m68k", d, v, old[8 + n]) = w
    BY <1>4, <2>1, <2>2, <2>4, <2>5, SMTT(30) DEF Widen
  <2>7. IsaLoads(i, old, v) = [old EXCEPT ![8 + n] = w]
    BY <1>2, <1>3, <1>4, <1>6, <2>5, Zenon DEF IsaLoads
  <2>8. Loaded("m68k", d, v, old) = [old EXCEPT ![8 + n] = w]
    BY <2>1, <2>6, Zenon DEF Loaded, Registers
  <2> QED
    BY <1>1, <2>1, <2>5, <2>7, <2>8, ZenonT(60) DEF Registers
<1> QED
  BY <1>5, <1>6, Zenon

\* The bytes that a store passes to the mailbox are those the instruction
\* stores.
LEMMA StoresAgree ==
    ASSUME NEW i \in Rv \cup Rvc \cup M68k, Supported(i), IsaStores(i), x \in Registers,
           NEW isa \in {"riscv", "m68k"}, (isa = "m68k") <=> (i.set = "m68k")
    PROVE  /\ StoreValue(isa, i, Decode(i)) \in Nat /\ IsaStored(i, x) \in Nat
           /\ Low(StoreValue(isa, i, Decode(i)), IsaSize(i)) = Low(IsaStored(i, x), IsaSize(i))
<1>1. PICK d : d = Decode(i)
  OBVIOUS
<1>2. CASE i \in Rv \cup Rvc
  <2>1. Agrees(i, d) /\ d.reg = i.r /\ i.r \in RegNames /\ i.set # "m68k"
    <3>1. CASE i \in Rv
      BY <1>1, <3>1, RvDecoded, Zenon DEF Rv
    <3>2. CASE i \in Rvc
      <4>1. i.set = "rvc" /\ i.r \in RegNames
        BY <3>2 DEF Rvc, RegNames
      <4> QED
        BY <1>1, <3>2, <4>1, RvcDecoded, Zenon
    <3> QED
      BY <1>2, <3>1, <3>2, Zenon
  <2>2. PICK s \in Sizes1 : s = IsaSize(i)
    BY <2>1, Zenon DEF Agrees
  <2>3. PICK v \in Nat : v = x[i.r]
    BY <2>1, Zenon DEF Registers
  <2>4. StoreValue(isa, i, d) = v /\ IsaStored(i, x) = v % Values(s)
    BY <2>1, <2>2, <2>3, Zenon DEF StoreValue, IsaStored
  <2>5. Low(v, s) \in Nat /\ Low(v, s) = v % Values(s) /\ Low(v, s) % Values(s) = Low(v, s)
    BY LowFacts, Zenon
  <2>6. Low(Low(v, s), s) = Low(v, s)
    BY <2>5, Zenon DEF Low
  <2> QED
    BY <1>1, <2>2, <2>3, <2>4, <2>5, <2>6, Zenon
<1>3. CASE i \in M68k
  <2>1. /\ Agrees(i, d) /\ Operand(i, d) /\ d.size # 8 /\ i.set = "m68k" /\ isa = "m68k"
        /\ i.src \in (0..7) \X (0..7) /\ i.imm \in Nat
    BY <1>1, <1>3, M68kDecoded, Zenon DEF M68k
  <2>2. PICK s \in Sizes1 : s = IsaSize(i) /\ s = d.size /\ s # 8
    BY <2>1, Zenon DEF Agrees
  <2>3. CASE i.src = <<7, 4>>
    <3>1. d.reg = Immediate
      BY <2>1, <2>3, Zenon DEF Operand
    <3>2. PICK v \in Nat : v = i.imm
      BY <2>1, Zenon
    <3>3. PICK u \in Nat : u = Low(v, s) /\ u = v % Values(s) /\ Low(u, s) = u
      <4>1. Low(v, s) \in Nat /\ Low(v, s) = v % Values(s) /\ Low(v, s) % Values(s) = Low(v, s)
        BY LowFacts, Zenon
      <4> QED
        BY <4>1, Zenon DEF Low
    <3>4. IsaStored(i, x) = u
      BY <2>1, <2>2, <2>3, <3>2, <3>3, Zenon DEF IsaStored
    <3>5. StoreValue(isa, i, d) = Low(IF s = 4 THEN v ELSE Low(v, 2), s)
      BY <2>1, <2>2, <3>1, <3>2, Zenon DEF StoreValue
    <3>6. StoreValue(isa, i, d) = u
      <4>1. CASE s = 4
        BY <3>3, <3>5, <4>1, Zenon
      <4>2. CASE s \in {1, 2}
        <5>1. Low(Low(v, 2), s) = Low(v, s)
          BY <4>2, LowOfLow, Zenon
        <5> QED
          BY <3>3, <3>5, <4>2, <5>1, Zenon
      <4> QED
        BY <2>2, <4>1, <4>2, Zenon DEF Sizes1
    <3> QED
      BY <1>1, <2>2, <3>3, <3>4, <3>6, Zenon
  <2>4. CASE i.src # <<7, 4>>
    <3>1. i.src[1] \in {0, 1} /\ d.reg = RegOf(i.src) /\ i.src[2] \in 0..7
      BY <2>1, <2>4, ZenonT(60) DEF Operand
    <3>2. PICK k \in RegNames : k = d.reg /\ k = (IF i.src[1] = 1 THEN 8 ELSE 0) + i.src[2] /\ k # Immediate
      BY <3>1 DEF RegOf, RegNames, Immediate
    <3>3. PICK v \in Nat : v = x[k]
      BY Zenon DEF Registers
    <3>4. PICK u \in Nat : u = Low(v, s) /\ u = v % Values(s) /\ Low(u, s) = u
      <4>1. Low(v, s) \in Nat /\ Low(v, s) = v % Values(s) /\ Low(v, s) % Values(s) = Low(v, s)
        BY LowFacts, Zenon
      <4> QED
        BY <4>1, Zenon DEF Low
    <3>5. StoreValue(isa, i, d) = u
      BY <2>1, <2>2, <3>2, <3>3, <3>4, Zenon DEF StoreValue
    <3>6. IsaStored(i, x) = u
      BY <2>1, <2>2, <2>4, <3>2, <3>3, <3>4, Zenon DEF IsaStored
    <3> QED
      BY <1>1, <2>2, <3>4, <3>5, <3>6, Zenon
  <2> QED
    BY <2>3, <2>4, Zenon
<1> QED
  BY <1>2, <1>3, Zenon

\* m68k_mmio_move_ccr sets the flags that a MOVE sets; they depend on the bytes
\* moved only.
LEMMA FlagsAgree ==
    ASSUME NEW i \in M68k, Supported(i), i.dst[1] # 1, NEW val \in Nat, NEW v \in Nat,
           Low(val, IsaSize(i)) = Low(v, IsaSize(i)), NEW old
    PROVE  MoveCcr(val, IsaSize(i), old) = IsaFlags(i, old, v)
<1>1. PICK s \in Sizes1 : s = IsaSize(i)
  BY M68kDecoded, Zenon DEF Agrees
<1>2. s <= s
  BY DEF Sizes1
<1>3. Negative(v, s) <=> Signed(v, s) < 0
  BY <1>2, Extension, Zenon
<1>4. Negative(val, s) <=> Negative(v, s)
  BY <1>1, Zenon DEF Negative
<1>5. Low(val, s) = v % Values(s)
  BY <1>1, LowFacts, Zenon
<1>6. i.set = "m68k"
  BY Zenon DEF M68k
<1>7. MoveCcr(val, s, old) = (old \cap {"X"}) \cup (IF v % Values(s) = 0 THEN {"Z"} ELSE {})
                               \cup (IF Signed(v, s) < 0 THEN {"N"} ELSE {})
  BY <1>3, <1>4, <1>5, Zenon DEF MoveCcr
<1>8. IsaFlags(i, old, v) =
        {f \in {"X", "N", "Z"} : CASE f = "X" -> "X" \in old [] f = "N" -> Signed(v, s) < 0
                                   [] f = "Z" -> v % Values(s) = 0}
  BY <1>1, <1>6, Zenon DEF IsaFlags
<1>9. ASSUME NEW f PROVE f \in MoveCcr(val, s, old) <=> f \in IsaFlags(i, old, v)
  <2>1. CASE f = "X"
    BY <1>7, <1>8, <2>1, Zenon
  <2>2. CASE f = "N"
    BY <1>7, <1>8, <2>2, Zenon
  <2>3. CASE f = "Z"
    BY <1>7, <1>8, <2>3, Zenon
  <2>4. CASE f \notin {"X", "N", "Z"}
    BY <1>7, <1>8, <2>4, Zenon
  <2> QED
    BY <2>1, <2>2, <2>3, <2>4, Zenon
<1>10. MoveCcr(val, s, old) = IsaFlags(i, old, v)
  BY <1>9, <1>7, <1>8, Zenon
<1> QED
  BY <1>1, <1>10, Zenon

-----------------------------------------------------------------------------
(* The faulting byte and its aperture.                                     *)

\* The host reports the first byte of the access that is reserved.
LEMMA FirstTouched ==
    ASSUME NEW a \in Accesses1, Touched(a) # {}
    PROVE  /\ FaultAddress(a) \in Nat /\ FaultAddress(a) \in AccessBytes(a) /\ Reserved(FaultAddress(a))
           /\ \A b \in AccessBytes(a) : Reserved(b) => FaultAddress(a) <= b
<1>1. a.lo \in Nat /\ a.bytes \in Nat
  BY Zenon DEF Accesses1
<1>2. Touched(a) = {b \in AccessBytes(a) : Reserved(b)} /\ AccessBytes(a) \subseteq Nat
  BY <1>1 DEF Touched, AccessBytes
<1>3. \E m \in Touched(a) : \A n \in Touched(a) : m <= n
  <2>1. Touched(a) \subseteq Nat
    BY <1>2, Zenon
  <2> QED
    BY <2>1, LeastNumber, Zenon
<1>4. FaultAddress(a) \in Touched(a) /\ \A n \in Touched(a) : FaultAddress(a) <= n
  BY <1>3, Zenon DEF FaultAddress
<1> QED
  BY <1>2, <1>4, Zenon

\* find_range finds an aperture that holds the address, if there is one.
LEMMA RangeFound ==
    ASSUME ranges \in Seq(Aperture), NEW addr \in Nat
    PROVE  /\ FindRange(addr) # NoRange =>
                FindRange(addr) \in DOMAIN ranges /\ addr \in Bytes1(ranges[FindRange(addr)])
           /\ (\E k \in DOMAIN ranges : addr \in Bytes1(ranges[k])) => FindRange(addr) # NoRange
<1> DEFINE held == {k \in DOMAIN ranges : addr >= ranges[k].base /\ addr - ranges[k].base < ranges[k].size}
<1>1. FindRange(addr) = IF held = {} THEN NoRange ELSE CHOOSE k \in held : \A j \in held : k <= j
  BY Zenon DEF FindRange
<1>2. \A k \in DOMAIN ranges : k \in Nat \ {0} /\ ranges[k].base \in Nat /\ ranges[k].size \in Nat
  <2>1. ASSUME NEW k \in DOMAIN ranges PROVE ranges[k] \in Aperture /\ k \in Nat \ {0}
    OBVIOUS
  <2> QED
    BY <2>1, Zenon DEF Aperture
<1>3. \A k \in DOMAIN ranges : k \in held <=> addr \in Bytes1(ranges[k])
  BY <1>2, SMTT(30) DEF Bytes1
<1>4. held \subseteq DOMAIN ranges
  BY Zenon
<1> HIDE DEF held
<1>5. CASE held = {}
  BY <1>1, <1>3, <1>5, Zenon
<1>6. CASE held # {}
  <2>1. held \subseteq Nat
    BY <1>2, <1>4, Zenon
  <2>2. \E k \in held : \A j \in held : k <= j
    BY <1>6, <2>1, LeastNumber, Zenon
  <2>3. FindRange(addr) \in held
    BY <1>1, <1>6, <2>2, Zenon
  <2>4. FindRange(addr) # NoRange
    BY <1>2, <1>4, <2>3, Zenon DEF NoRange
  <2> QED
    BY <1>3, <1>4, <2>3, <2>4, Zenon
<1> QED
  BY <1>5, <1>6, Zenon

\* The bytes of an aperture are reserved.
LEMMA ApertureReserved ==
    ASSUME ranges \in Seq(Aperture), NEW k \in DOMAIN ranges, NEW b \in Bytes1(ranges[k])
    PROVE  Reserved(b)
<1>0. Page \in Nat \ {0}
  BY UserMmioAssumption, Zenon
<1>1. PICK rb \in Nat, rs \in Nat \ {0} : rb = ranges[k].base /\ rs = ranges[k].size
  <2>1. ranges[k] \in Aperture
    OBVIOUS
  <2> QED
    BY <2>1, Zenon DEF Aperture
<1>2. PICK e \in Int : e = rs + Page - 1
  BY <1>0
<1>3. PICK q \in Int, r \in 0..Page - 1 : e \div Page = q /\ Divided(e, Page, q, r)
  BY <1>0, DivMod, Zenon
<1>4. PICK m \in Int : m = Page * q /\ m = q * Page /\ e = m + r
  BY <1>0, <1>3 DEF Divided
<1>5. PageUp(rs) = m
  BY <1>0, <1>2, <1>3, <1>4, Zenon DEF PageUp
<1>6. rs <= m
  BY <1>0, <1>2, <1>3, <1>4, SMTT(30)
<1>7. b >= rb /\ b < rb + m
  BY <1>1, <1>6, SMTT(30) DEF Bytes1
<1> QED
  BY <1>1, <1>5, <1>7, Zenon DEF Reserved

-----------------------------------------------------------------------------
(* A step of the guest.                                                    *)

ServeInv == MmioInv /\ x \in Registers /\ ran \in Nat /\ blocked = FALSE

\* The handler gets past the decoder exactly with a supported instruction.
LEMMA SupportedDecoded ==
    ASSUME NEW i \in Rv \cup Rvc \cup M68k
    PROVE  /\ Decode(i).len # 0 /\ ~(Decode(i).index # 0 /\ i.full) <=> Supported(i)
           /\ Supported(i) => Agrees(i, Decode(i))
<1>1. CASE i \in Rv
  BY <1>1, RvDecoded, Zenon
<1>2. CASE i \in Rvc
  BY <1>2, RvcDecoded, Zenon
<1>3. CASE i \in M68k
  BY <1>3, M68kDecoded, Zenon
<1> QED
  BY <1>1, <1>2, <1>3, Zenon

\* The access of the next instruction is one that the guest can make.
LEMMA CurrentAccess ==
    ASSUME ServeInv, Running
    PROVE  /\ Access1 \in Accesses1
           /\ job.isa \in {"riscv", "m68k"} /\ job.answer \in Nat /\ job.cpu \in Nat
           /\ (job.isa = "m68k") <=> (Access1.insn.set = "m68k")
           /\ Supported(Access1.insn) => Access1.bytes = IsaSize(Access1.insn)
           /\ Supported(Access1.insn) /\ Access1.from = "insn" =>
                 Access1.write = IsaStores(Access1.insn) /\ Access1.text >= IsaLength(Access1.insn)
<1>1. job \in Jobs /\ ran \in Nat /\ ran < Len(job.prog)
  BY Zenon DEF ServeInv, MmioInv, Running
<1>2. job.prog \in Seq(Accesses1)
  BY <1>1, GuestAssumption, Zenon
<1>3. ran + 1 \in DOMAIN job.prog /\ job.prog[ran + 1] \in Accesses1
  BY <1>1, <1>2
<1>4. job.isa \in {"riscv", "m68k"} /\ job.answer \in Nat /\ job.cpu \in Nat
  BY <1>1, UserMmioAssumption, Zenon
<1> QED
  BY <1>1, <1>3, <1>4, GuestAssumption, Zenon DEF Access1

\* What the request is for: within the aperture, from the first byte of the
\* access that is not below it.
LEMMA RequestPlace ==
    ASSUME ServeInv, NEW a \in Accesses1, Touched(a) # {}, NEW k \in DOMAIN ranges,
           FaultAddress(a) \in Bytes1(ranges[k]),
           a.bytes <= ranges[k].size - (FaultAddress(a) - ranges[k].base)
    PROVE  /\ FaultAddress(a)..FaultAddress(a) + a.bytes - 1 \subseteq Bytes1(ranges[k])
           /\ FaultAddress(a) = a.lo \/ (a.lo < ranges[k].base /\ FaultAddress(a) = ranges[k].base)
<1>0. ranges \in Seq(Aperture)
  BY Zenon DEF ServeInv, MmioInv
<1>1. PICK rb \in Nat, rs \in Nat \ {0} : rb = ranges[k].base /\ rs = ranges[k].size
  <2>1. ranges[k] \in Aperture
    BY <1>0
  <2> QED
    BY <2>1, ZenonT(60) DEF Aperture
<1>2. PICK lo \in Nat, n \in Nat \ {0} : lo = a.lo /\ n = a.bytes
  BY Zenon DEF Accesses1
<1>3. PICK f \in Nat : /\ f = FaultAddress(a) /\ f \in AccessBytes(a)
                       /\ \A b \in AccessBytes(a) : Reserved(b) => f <= b
  BY FirstTouched, ZenonT(60)
<1>4. f >= rb /\ f <= rb + rs - 1 /\ n <= rs - (f - rb) /\ f >= lo /\ f <= lo + n - 1
  BY <1>1, <1>2, <1>3, SMTT(30) DEF Bytes1, AccessBytes
<1>5. f..f + n - 1 \subseteq rb..rb + rs - 1
  BY <1>4
<1>6. ASSUME f # lo, rb < f PROVE FALSE
  <2>1. f - 1 \in AccessBytes(a) /\ f - 1 \in Bytes1(ranges[k]) /\ ~(f <= f - 1)
    BY <1>1, <1>2, <1>4, <1>6, SMTT(30) DEF AccessBytes, Bytes1
  <2>2. Reserved(f - 1)
    BY <1>0, <2>1, ApertureReserved, ZenonT(60)
  <2> QED
    BY <1>3, <2>1, <2>2, ZenonT(60)
<1>7. f = lo \/ (lo < rb /\ f = rb)
  BY <1>4, <1>6, SMTT(30)
<1> QED
  BY <1>1, <1>2, <1>3, <1>5, <1>7, Zenon DEF Bytes1

\* An access that passes the early returns is serviced as the instruction set
\* says.
LEMMA HandleStep ==
    ASSUME ServeInv, HandleFault
    PROVE  ServicedLikeIsa /\ x' \in Registers /\ ran' \in Nat /\ blocked' = FALSE
<1>0. Running
  BY Zenon DEF HandleFault
<1>1. PICK a \in Accesses1 : a = Access1
  BY <1>0, CurrentAccess, Zenon
<1>2. PICK i \in Rv \cup Rvc \cup M68k : i = a.insn
  BY Zenon DEF Accesses1
<1>3. PICK f : f = FaultAddress(a)
  OBVIOUS
<1>4. PICK d : d = Decode(i)
  OBVIOUS
<1>5. PICK val : val = IF d.store THEN StoreValue(job.isa, i, d) ELSE job.answer
  OBVIOUS
<1>6. /\ Touched(a) # {} /\ Serves(a, f)
      /\ request' = [client |-> ranges[FindRange(f)].client, vcpu |-> job.cpu, addr |-> f, size |-> d.size,
                     write |-> d.store, value |-> val]
      /\ x' = IF d.store \/ (job.isa = "riscv" /\ d.reg = 0) THEN x
              ELSE [x EXCEPT ![d.reg] = Widen(job.isa, d, val, @)]
      /\ ccr' = IF job.isa = "m68k" /\ (d.store \/ d.reg < 8) THEN MoveCcr(val, d.size, ccr) ELSE ccr
      /\ pc' = pc + d.len /\ blocked' = Resume(blocked, TRUE) /\ ran' = ran + 1
  BY <1>1, <1>2, <1>3, <1>4, <1>5, Zenon DEF HandleFault
<1>7. /\ a.from = "insn" /\ FindRange(f) # NoRange
      /\ d.len # 0 /\ d.store = a.write /\ ~(d.index # 0 /\ i.full)
      /\ d.size <= ranges[FindRange(f)].size - (f - ranges[FindRange(f)].base)
  BY <1>2, <1>4, <1>6, Zenon DEF Serves
<1>8. Supported(i) /\ Agrees(i, d)
  BY <1>4, <1>7, SupportedDecoded, Zenon
<1>9. /\ job.isa \in {"riscv", "m68k"} /\ job.answer \in Nat
      /\ (job.isa = "m68k") <=> (i.set = "m68k")
      /\ a.bytes = IsaSize(i) /\ a.write = IsaStores(i)
  BY <1>0, <1>1, <1>2, <1>7, <1>8, CurrentAccess, Zenon
<1>10. PICK s \in Sizes1 : s = IsaSize(i) /\ s = d.size /\ s = a.bytes
  BY <1>8, <1>9, Zenon DEF Agrees
<1>11. ran \in Nat /\ blocked = FALSE /\ x \in Registers /\ ranges \in Seq(Aperture)
  BY Zenon DEF ServeInv, MmioInv
<1>12. d.store = IsaStores(i) /\ d.len = IsaLength(i)
  BY <1>8, Zenon DEF Agrees
<1>13. PICK moved \in Nat : /\ moved = IF IsaStores(i) THEN IsaStored(i, x) ELSE job.answer
                            /\ val \in Nat /\ Low(val, s) = Low(moved, s)
  <2>1. CASE IsaStores(i)
    <3>1. /\ StoreValue(job.isa, i, d) \in Nat /\ IsaStored(i, x) \in Nat
          /\ Low(StoreValue(job.isa, i, d), s) = Low(IsaStored(i, x), s)
      BY <1>4, <1>8, <1>9, <1>10, <1>11, <2>1, StoresAgree, Zenon
    <3> QED
      BY <1>5, <1>12, <2>1, <3>1, Zenon
  <2>2. CASE ~IsaStores(i)
    BY <1>5, <1>9, <1>12, <2>2, Zenon
  <2> QED
    BY <2>1, <2>2, Zenon
<1>14. /\ x' = IF IsaStores(i) THEN x ELSE IsaLoads(i, x, job.answer)
       /\ x' \in Registers
  <2>1. CASE IsaStores(i)
    BY <1>6, <1>11, <1>12, <2>1, Zenon
  <2>2. CASE ~IsaStores(i)
    <3>1. val = job.answer /\ x' = Loaded(job.isa, d, job.answer, x)
      BY <1>5, <1>6, <1>12, <2>2, Zenon DEF Loaded
    <3>2. CASE job.isa = "riscv"
      <4>1. i \in Rv \cup Rvc
        BY <1>9, <3>2, Zenon DEF M68k
      <4> QED
        <5>1. /\ Loaded("riscv", Decode(i), job.answer, x) = IsaLoads(i, x, job.answer)
              /\ IsaLoads(i, x, job.answer) \in Registers
          BY <1>8, <1>9, <1>11, <2>2, <4>1, RiscvLoads, Zenon
        <5> QED
          BY <1>4, <2>2, <3>1, <3>2, <5>1, Zenon
    <3>3. CASE job.isa = "m68k"
      <4>1. i \in M68k
        BY <1>9, <3>3, Zenon DEF Rv, Rvc
      <4> QED
        <5>1. /\ Loaded("m68k", Decode(i), job.answer, x) = IsaLoads(i, x, job.answer)
              /\ IsaLoads(i, x, job.answer) \in Registers
          BY <1>8, <1>9, <1>11, <2>2, <4>1, M68kLoads, Zenon
        <5> QED
          BY <1>4, <2>2, <3>1, <3>3, <5>1, Zenon
    <3> QED
      BY <1>9, <3>2, <3>3, Zenon
  <2> QED
    BY <2>1, <2>2, Zenon
<1>15. ccr' = IsaFlags(i, ccr, moved)
  <2>1. CASE job.isa = "riscv"
    BY <1>6, <1>9, <2>1, Zenon DEF IsaFlags
  <2>2. CASE job.isa = "m68k"
    <3>1. i \in M68k /\ i.set = "m68k"
      BY <1>9, <2>2, Zenon DEF Rv, Rvc
    <3>2. Operand(i, d) /\ i.dst \in (0..7) \X (0..7)
      BY <1>4, <1>8, <3>1, M68kDecoded, ZenonT(60) DEF M68k
    <3>3. (d.store \/ d.reg < 8) <=> i.dst[1] # 1
      BY <1>12, <3>2, SMTT(30) DEF Operand, RegOf
    <3>4. CASE i.dst[1] # 1
      <4>1. MoveCcr(val, s, ccr) = IsaFlags(i, ccr, moved)
        <5>1. Low(val, IsaSize(i)) = Low(moved, IsaSize(i)) /\ val \in Nat
          BY <1>10, <1>13, Zenon
        <5>2. MoveCcr(val, IsaSize(i), ccr) = IsaFlags(i, ccr, moved)
          BY <1>8, <3>1, <3>4, <5>1, FlagsAgree, Zenon
        <5> QED
          BY <1>10, <5>2, Zenon
      <4> QED
        BY <1>6, <1>10, <2>2, <3>3, <3>4, <4>1, Zenon
    <3>5. CASE i.dst[1] = 1
      BY <1>6, <2>2, <3>3, <3>5, Zenon DEF IsaFlags
    <3> QED
      BY <3>4, <3>5, Zenon
  <2> QED
    BY <1>9, <2>1, <2>2, Zenon
<1>16. request'.value % Values(a.bytes) = moved % Values(a.bytes)
  BY <1>6, <1>10, <1>13, Zenon DEF Low
<1>17. \E k \in DOMAIN ranges :
          /\ request'.client = ranges[k].client
          /\ request'.addr..request'.addr + a.bytes - 1 \subseteq Bytes1(ranges[k])
          /\ request'.addr = a.lo \/ (a.lo < ranges[k].base /\ request'.addr = ranges[k].base)
  <2>1. f \in Nat
    BY <1>3, <1>6, FirstTouched, Zenon
  <2>2. FindRange(f) \in DOMAIN ranges /\ f \in Bytes1(ranges[FindRange(f)])
    BY <1>7, <1>11, <2>1, RangeFound, Zenon
  <2>3. PICK k \in DOMAIN ranges : k = FindRange(f) /\ f \in Bytes1(ranges[k])
    BY <2>2, Zenon
  <2>4. a.bytes <= ranges[k].size - (f - ranges[k].base)
    BY <1>7, <1>10, <2>3, Zenon
  <2>5. /\ f..f + a.bytes - 1 \subseteq Bytes1(ranges[k])
        /\ f = a.lo \/ (a.lo < ranges[k].base /\ f = ranges[k].base)
    BY <1>3, <1>6, <2>3, <2>4, RequestPlace, Zenon
  <2>6. request'.client = ranges[k].client /\ request'.addr = f
    BY <1>6, <2>3, Zenon
  <2> QED
    BY <2>5, <2>6, Zenon
<1>18. request'.write = a.write /\ request'.vcpu = job.cpu /\ request'.size = a.bytes
  BY <1>6, <1>7, <1>10, Zenon
<1>19. ServicedLikeIsa
  BY <1>1, <1>2, <1>6, <1>7, <1>8, <1>9, <1>12, <1>13, <1>14, <1>15, <1>16, <1>17, <1>18,
     ZenonT(60) DEF ServicedLikeIsa
<1> QED
  BY <1>6, <1>11, <1>14, <1>19, SMTT(30) DEF Resume

\* get_user can read what the handler asks for, but for a compressed
\* instruction at the end of the readable text.
LEMMA TextReadable ==
    ASSUME ServeInv, Running, Supported(Access1.insn), Access1.from = "insn",
           ~(Access1.insn.set = "rvc" /\ Access1.text < 4)
    PROVE  \A n \in TextRead(job.isa, Decode(Access1.insn)) : n <= Access1.text
<1>1. PICK a \in Accesses1 : a = Access1
  BY CurrentAccess, Zenon
<1>2. PICK i \in Rv \cup Rvc \cup M68k : i = a.insn
  BY Zenon DEF Accesses1
<1>3. PICK text \in Nat : text = a.text
  BY Zenon DEF Accesses1
<1>4. (job.isa = "m68k" <=> i.set = "m68k") /\ job.isa \in {"riscv", "m68k"} /\ text >= IsaLength(i)
  BY <1>1, <1>2, <1>3, CurrentAccess, Zenon
<1>5. CASE job.isa = "m68k"
  <2>1. i \in M68k
    BY <1>4, <1>5, Zenon DEF Rv, Rvc
  <2>2. TextWithin(Decode(i)) /\ Agrees(i, Decode(i))
    BY <1>1, <1>2, <2>1, M68kDecoded, Zenon
  <2>3. Decode(i).len = IsaLength(i)
    BY <2>2, Zenon DEF Agrees
  <2>4. \A n \in TextRead("m68k", Decode(i)) : n <= text
    <3>1. PICK len \in Nat : len = Decode(i).len /\ TextRead("m68k", Decode(i)) \subseteq 0..len
      BY <2>2, Zenon DEF TextWithin
    <3> QED
      BY <1>4, <2>3, <3>1, SMTT(30)
  <2> QED
    BY <1>1, <1>2, <1>3, <1>5, <2>4, Zenon
<1>6. CASE job.isa = "riscv"
  <2>1. i.set = "rv" \/ i.set = "rvc"
    BY <1>4, <1>6, Zenon DEF Rv, Rvc, M68k
  <2>2. i.set = "rv" => IsaLength(i) = 4
    BY Zenon DEF IsaLength
  <2>3. text >= 4
    BY <1>1, <1>2, <1>3, <1>4, <2>1, <2>2, SMTT(30)
  <2>4. TextRead(job.isa, Decode(i)) = {4}
    BY <1>6, Zenon DEF TextRead
  <2> QED
    BY <1>1, <1>2, <1>3, <2>3, <2>4, Zenon
<1> QED
  BY <1>4, <1>5, <1>6, Zenon

\* A supported access within an aperture is serviced, unless its vCPU has no
\* mailbox or get_user fails: its first byte faults, find_range finds the one
\* aperture that holds it, and no early return applies.
LEMMA WithinServed ==
    ASSUME ServeInv, Running, Supported(Access1.insn), Access1.from = "insn", job.cpu < VcpuCount,
           ~(Access1.insn.set = "rvc" /\ Access1.text < 4),
           NEW k \in DOMAIN ranges, AccessBytes(Access1) \subseteq Bytes1(ranges[k]),
           Touched(Access1) # {}
    PROVE  Serves(Access1, FaultAddress(Access1))
<1>1. PICK a \in Accesses1 : a = Access1
  BY CurrentAccess, Zenon
<1>2. PICK i \in Rv \cup Rvc \cup M68k : i = a.insn
  BY Zenon DEF Accesses1
<1>3. PICK d : d = Decode(i)
  OBVIOUS
<1>4. PICK lo \in Nat, n \in Nat \ {0} : lo = a.lo /\ n = a.bytes
  BY Zenon DEF Accesses1
<1>5. ranges \in Seq(Aperture) /\ RangesSound
  BY Zenon DEF ServeInv, MmioInv
<1>6. lo \in AccessBytes(a) /\ lo + n - 1 \in AccessBytes(a)
  BY <1>4 DEF AccessBytes
<1>7. lo \in Bytes1(ranges[k]) /\ lo + n - 1 \in Bytes1(ranges[k])
  BY <1>1, <1>6, Zenon
<1>8. Reserved(lo)
  BY <1>5, <1>7, ApertureReserved, Zenon
<1>9. FaultAddress(a) = lo
  <2>1. /\ FaultAddress(a) \in Nat /\ FaultAddress(a) \in AccessBytes(a)
        /\ \A b \in AccessBytes(a) : Reserved(b) => FaultAddress(a) <= b
    BY <1>1, FirstTouched, Zenon
  <2>2. FaultAddress(a) <= lo
    BY <1>6, <1>8, <2>1, Zenon
  <2> QED
    BY <1>4, <2>1, <2>2, SMTT(30) DEF AccessBytes
<1>10. FindRange(lo) = k /\ FindRange(lo) # NoRange
  <2>1. FindRange(lo) # NoRange
    BY <1>5, <1>7, RangeFound, Zenon
  <2>2. FindRange(lo) \in DOMAIN ranges /\ lo \in Bytes1(ranges[FindRange(lo)])
    BY <1>5, <2>1, RangeFound, Zenon
  <2>3. FindRange(lo) # k => Bytes1(ranges[FindRange(lo)]) \cap Bytes1(ranges[k]) = {}
    BY <1>5, <2>2, Zenon DEF RangesSound
  <2>4. FindRange(lo) = k
    BY <1>7, <2>2, <2>3, Zenon
  <2> QED
    BY <2>1, <2>4, Zenon
<1>11. Agrees(i, d) /\ d.len # 0 /\ ~(d.index # 0 /\ i.full)
  BY <1>1, <1>2, <1>3, SupportedDecoded, Zenon
<1>12. d.store = a.write /\ d.size = n
  <2>1. a.bytes = IsaSize(i) /\ a.write = IsaStores(i)
    BY <1>1, <1>2, CurrentAccess, ZenonT(60)
  <2> QED
    BY <1>4, <1>11, <2>1, Zenon DEF Agrees
<1>13. d.size <= ranges[k].size - (lo - ranges[k].base)
  <2>1. ranges[k] \in Aperture
    BY <1>5
  <2>2. PICK rb \in Nat, rs \in Nat \ {0} : rb = ranges[k].base /\ rs = ranges[k].size
    BY <2>1, Zenon DEF Aperture
  <2> QED
    BY <1>7, <1>12, <2>2, SMTT(30) DEF Bytes1
<1>14. job.cpu < VcpusOf(ranges[k].client)
  <2>1. VcpusOf(ranges[k].client) > 0
    BY <1>5, Zenon DEF RangesSound
  <2>2. VcpusOf(ranges[k].client) \in {VcpuCount, 0, -1}
    BY Zenon DEF VcpusOf
  <2> QED
    BY <2>1, <2>2
<1>15. a.from \notin {"fetch", "helper"} /\ a.from = "insn"
  BY <1>1, SMTT(30)
<1>16. \A b \in TextRead(job.isa, d) : b <= a.text
  BY <1>1, <1>2, <1>3, TextReadable, Zenon
<1> QED
  BY <1>1, <1>2, <1>3, <1>9, <1>10, <1>11, <1>12, <1>13, <1>14, <1>15, <1>16, Zenon DEF Serves

\* An access that does not is left as it was, and is not a supported one within
\* an aperture.
LEMMA DeliverStep ==
    ASSUME ServeInv, DeliverFault
    PROVE  LeftUnchanged /\ UNCHANGED <<x, ran, blocked>>
<1>1. /\ Running /\ Touched(Access1) # {} /\ blocked = FALSE
      /\ blocked \/ ~Serves(Access1, FaultAddress(Access1))
      /\ phase' = IF blocked THEN "wedged" ELSE "segv"
      /\ UNCHANGED <<job, ranges, args, x, pc, ccr, blocked, ran, request>>
  BY Zenon DEF DeliverFault, ServeInv
<1>2. ~Serves(Access1, FaultAddress(Access1)) /\ phase' = "segv"
  BY <1>1, Zenon
<1>3. ASSUME Supported(Access1.insn), Access1.from = "insn", job.cpu < VcpuCount, NEW k \in DOMAIN ranges,
             AccessBytes(Access1) \subseteq Bytes1(ranges[k]), ~(Access1.insn.set = "rvc" /\ Access1.text < 4)
      PROVE  FALSE
  BY <1>1, <1>2, <1>3, WithinServed, Zenon
<1>4. Supported(Access1.insn) /\ Access1.from = "insn" /\ job.cpu < VcpuCount =>
        \A k \in DOMAIN ranges : AccessBytes(Access1) \subseteq Bytes1(ranges[k])
            => Access1.insn.set = "rvc" /\ Access1.text < 4
  BY <1>3, Zenon
<1> QED
  BY <1>1, <1>2, <1>4, Zenon DEF LeftUnchanged

\* For every page size, byte and address space, every list of apertures and
\* every program: an access that the handler services does to registers, flags
\* and program counter what the instruction set says, with one request for the
\* bytes it addressed, and one that it leaves to the guest is not a supported
\* access within an aperture, but for a compressed instruction at the end of
\* the readable text (sst_mmio_handle_fault, m68k_mmio_decode, get_user).
THEOREM HandlerActsLikeIsa == MmioSpec => ActsLikeIsa
<1>1. MmioInit => ServeInv
  <2>1. ASSUME MmioInit PROVE ServeInv
    <3>1. MmioInv
      BY <2>1, MmioInitial, Zenon
    <3>2. job \in Jobs /\ x = job.x /\ blocked = FALSE /\ ran = 0
      BY <2>1, Zenon DEF MmioInit
    <3>3. x \in Registers
      <4>1. PICK w \in Int : w = Wide(job.isa)
        <5>1. 4 \in Sizes1 /\ 8 \in Sizes1
          BY Zenon DEF Sizes1
        <5>2. Values(4) \in Nat \ {0} /\ Values(8) \in Nat \ {0}
          BY <5>1, ValuesGrow
        <5> QED
          BY <5>2 DEF Wide
      <4>2. job.x \in [RegNames -> 0..w - 1]
        BY <3>2, <4>1, UserMmioAssumption, Zenon
      <4> QED
        BY <3>2, <4>2, SMTT(30) DEF Registers
    <3> QED
      BY <3>1, <3>2, <3>3, Zenon DEF ServeInv
  <2> QED
    BY <2>1, Zenon
<1>2. ServeInv /\ [MmioNext]_mmioVars => ServeInv' /\ ((ServicedLikeIsa /\ LeftUnchanged) \/ UNCHANGED mmioVars)
  <2>1. ASSUME ServeInv, UNCHANGED mmioVars PROVE ServeInv'
    <3>1. MmioInv'
      BY <2>1, MmioStep, Zenon DEF ServeInv
    <3> QED
      BY <2>1, <3>1, Zenon DEF ServeInv, mmioVars
  <2>2. ASSUME ServeInv, RegisterRange \/ ApplyReservation
        PROVE  ServeInv' /\ ServicedLikeIsa /\ LeftUnchanged
    <3>1. MmioInv'
      BY <2>2, MmioStep, Zenon DEF ServeInv, MmioNext
    <3>2. UNCHANGED <<x, ran, blocked>> /\ phase = "args"
      BY <2>2, Zenon DEF RegisterRange, ApplyReservation
    <3>3. ServicedLikeIsa /\ LeftUnchanged
      BY <3>2, Zenon DEF ServicedLikeIsa, LeftUnchanged
    <3> QED
      BY <2>2, <3>1, <3>2, <3>3, Zenon DEF ServeInv
  <2>3. ASSUME ServeInv, HandleFault PROVE ServeInv' /\ ServicedLikeIsa /\ LeftUnchanged
    <3>1. MmioInv'
      BY <2>3, MmioStep, Zenon DEF ServeInv, MmioNext
    <3>2. phase' = phase
      BY <2>3, Zenon DEF HandleFault
    <3>3. LeftUnchanged
      BY <3>2, Zenon DEF LeftUnchanged
    <3> QED
      BY <2>3, <3>1, <3>3, HandleStep, Zenon DEF ServeInv
  <2>4. ASSUME ServeInv, DeliverFault PROVE ServeInv' /\ ServicedLikeIsa /\ LeftUnchanged
    <3>1. MmioInv'
      BY <2>4, MmioStep, Zenon DEF ServeInv, MmioNext
    <3>2. LeftUnchanged /\ UNCHANGED <<x, ran, blocked>>
      BY <2>4, DeliverStep, Zenon
    <3>3. ServicedLikeIsa
      BY <3>2, Zenon DEF ServicedLikeIsa
    <3> QED
      BY <2>4, <3>1, <3>2, <3>3, Zenon DEF ServeInv
  <2> QED
    BY <2>1, <2>2, <2>3, <2>4, Zenon DEF MmioNext
<1> QED
  BY <1>1, <1>2, PTL DEF MmioSpec, ActsLikeIsa
=============================================================================
