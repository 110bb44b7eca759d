------------------------- MODULE TracePipelineProofs ------------------------
(***************************************************************************)
(* No event of TracePipeline is lost, repeated or reordered on its way to  *)
(* the core, and the doorbell's packet is in memory before the doorbell is *)
(* rung, for every value of the constants.                                 *)
(***************************************************************************)
EXTENDS TracePipelineInvariant
-----------------------------------------------------------------------------
(* The concatenation of sequences.  Facts about it are proved with the     *)
(* least number for which they would fail.                                 *)

\* A set of numbers has a least element ...
LEMMA LeastNumber ==
    ASSUME NEW T, T \subseteq Nat, T # {}
    PROVE  \E m \in T : \A n \in T : m <= n
<1> DEFINE R == {ss \in Nat \X Nat : ss[1] < ss[2]}
<1>1. IsWellFoundedOn(R, Nat)
  BY NatLessThanWellFounded, Zenon DEF OpToRel
<1>3. \A x, y \in Nat : x < y => <<x, y>> \in R
  OBVIOUS
<1> HIDE DEF R
<1>4. PICK m \in T : \A n \in T : <<n, m>> \notin R
  BY <1>1, WFMin, Zenon
<1>5. ASSUME NEW n \in T PROVE m <= n
  <2>1. ~(n < m)
    BY <1>3, <1>4, Zenon
  <2>2. m \in Nat /\ n \in Nat
    BY <1>4, Zenon
  <2> QED BY <2>1, <2>2
<1> QED BY <1>5, Zenon

\* A set of numbers that holds 0, and n + 1 whenever n, holds them all.
LEMMA AllNumbers ==
    ASSUME NEW A, 0 \in A, \A n \in Nat : n \in A => n + 1 \in A
    PROVE  Nat \subseteq A
<1> DEFINE T == {n \in Nat : n \notin A}
<1>1. CASE T = {}
  BY <1>1, Zenon
<1>2. CASE T # {}
  <2>1. PICK m \in T : \A n \in T : m <= n
    BY <1>2, LeastNumber, Zenon
  <2>2. m \in Nat /\ m # 0 /\ m \notin A
    BY <2>1, Zenon
  <2>3. m - 1 \in Nat /\ m - 1 \notin T /\ (m - 1) + 1 = m
    BY <2>1, <2>2
  <2> QED BY <2>2, <2>3, Zenon
<1> QED BY <1>1, <1>2, Zenon

\* f concatenates the first n sequences of ss.
Joins(f, ss, n) == f[0] = << >> /\ \A i \in 1..n : f[i] = f[i - 1] \o ss[i]

\* There is one such function ...
LEMMA JoinsUnique ==
    ASSUME NEW ss, NEW f, NEW g, NEW n \in Nat, Joins(f, ss, n), Joins(g, ss, n)
    PROVE  f[n] = g[n]
<1> DEFINE A == {i \in Nat : i <= n => f[i] = g[i]}
<1>1. 0 \in A
  BY Zenon DEF Joins
<1>2. ASSUME NEW i \in Nat, i \in A PROVE i + 1 \in A
  <2>1. CASE i + 1 <= n
    <3>1. i + 1 \in 1..n /\ (i + 1) - 1 = i /\ i <= n
      BY <2>1
    <3>2. f[i + 1] = f[i] \o ss[i + 1] /\ g[i + 1] = g[i] \o ss[i + 1]
      BY <3>1, Zenon DEF Joins
    <3>3. f[i] = g[i]
      BY <1>2, <3>1, Zenon
    <3>4. f[i + 1] = g[i + 1]
      BY <3>2, <3>3, Zenon
    <3>5. i + 1 \in Nat
      OBVIOUS
    <3> QED BY <3>4, <3>5, Zenon
  <2>2. CASE ~(i + 1 <= n)
    BY <2>2
  <2> QED BY <2>1, <2>2, Zenon
<1> HIDE DEF A
<1>3. n \in A
  BY <1>1, <1>2, AllNumbers, Zenon
<1> QED BY <1>3 DEF A

\* ... for every n.
LEMMA JoinsExist ==
    ASSUME NEW ss, NEW n \in Nat
    PROVE  \E f : Joins(f, ss, n)
<1> DEFINE A == {i \in Nat : \E f : Joins(f, ss, i)}
<1>1. 0 \in A
  <2>1. Joins([i \in {0} |-> << >>], ss, 0)
    BY DEF Joins
  <2> QED BY <2>1, Zenon
<1>2. ASSUME NEW i \in Nat, i \in A PROVE i + 1 \in A
  <2>1. PICK f : Joins(f, ss, i)
    BY <1>2, Zenon
  <2> DEFINE g == [k \in 0..(i + 1) |-> IF k = i + 1 THEN f[i] \o ss[i + 1] ELSE f[k]]
  <2>2. g[0] = << >>
    BY <2>1 DEF Joins
  <2>3. ASSUME NEW k \in 1..(i + 1) PROVE g[k] = g[k - 1] \o ss[k]
    <3>1. CASE k = i + 1
      <4>1. k - 1 = i /\ k - 1 \in 0..(i + 1) /\ k - 1 # i + 1
        BY <3>1
      <4> QED BY <3>1, <4>1
    <3>2. CASE k # i + 1
      <4>1. k \in 1..i /\ k - 1 \in 0..(i + 1) /\ k - 1 # i + 1 /\ k \in 0..(i + 1)
        BY <3>2
      <4>2. f[k] = f[k - 1] \o ss[k]
        BY <2>1, <4>1, Zenon DEF Joins
      <4> QED BY <3>2, <4>1, <4>2, Zenon
    <3> QED BY <3>1, <3>2, Zenon
  <2> HIDE DEF g
  <2>4. Joins(g, ss, i + 1)
    BY <2>2, <2>3, Zenon DEF Joins
  <2> QED BY <2>4
<1> HIDE DEF A
<1>3. n \in A
  BY <1>1, <1>2, AllNumbers, Zenon
<1> QED BY <1>3, Zenon DEF A

\* The recursive function of Joined exists.
LEMMA JoinedFunction ==
    ASSUME NEW ss
    PROVE  \E f : f = [i \in Nat |-> IF i = 0 THEN << >> ELSE f[i - 1] \o ss[i]]
<1> DEFINE F(n) == CHOOSE f : Joins(f, ss, n)
           h == [i \in Nat |-> F(i)[i]]
<1>1. \A n \in Nat : Joins(F(n), ss, n)
  BY JoinsExist, Zenon
<1>2. F(0)[0] = << >>
  BY <1>1, Zenon DEF Joins
<1>3. ASSUME NEW n \in Nat, n # 0 PROVE F(n)[n] = F(n - 1)[n - 1] \o ss[n]
  <2>1. n - 1 \in Nat /\ n \in 1..n /\ \A i \in 1..(n - 1) : i \in 1..n
    BY <1>3
  <2>2. Joins(F(n), ss, n) /\ Joins(F(n - 1), ss, n - 1)
    BY <1>1, <2>1, Zenon
  <2> HIDE DEF F
  <2>3. Joins(F(n), ss, n - 1) /\ F(n)[n] = F(n)[n - 1] \o ss[n]
    BY <2>1, <2>2, Zenon DEF Joins
  <2>4. F(n)[n - 1] = F(n - 1)[n - 1]
    BY <2>1, <2>2, <2>3, JoinsUnique
  <2> QED BY <2>3, <2>4, Zenon
<1> HIDE DEF F
<1>4. \A i \in Nat : h[i] = F(i)[i] /\ (i # 0 => h[i - 1] = F(i - 1)[i - 1])
  OBVIOUS
<1>5. \A i \in Nat : h[i] = IF i = 0 THEN << >> ELSE h[i - 1] \o ss[i]
  BY <1>2, <1>3, <1>4, Zenon
<1>6. h = [i \in Nat |-> h[i]]
  OBVIOUS
<1> HIDE DEF h
<1> QED BY <1>5, <1>6, Zenon

\* Nothing joined is nothing.
LEMMA JoinedZero == ASSUME NEW ss PROVE Joined(ss, 0) = << >>
<1> DEFINE f == CHOOSE f : f = [i \in Nat |-> IF i = 0 THEN << >> ELSE f[i - 1] \o ss[i]]
<1>1. f = [i \in Nat |-> IF i = 0 THEN << >> ELSE f[i - 1] \o ss[i]]
  BY JoinedFunction, Zenon
<1>2. Joined(ss, 0) = f[0]
  BY Zenon DEF Joined
<1> HIDE DEF f
<1> QED BY <1>1, <1>2, Zenon

\* The last sequence comes last.
LEMMA JoinedNext ==
    ASSUME NEW ss, NEW n \in Nat PROVE Joined(ss, n + 1) = Joined(ss, n) \o ss[n + 1]
<1> DEFINE f == CHOOSE f : f = [i \in Nat |-> IF i = 0 THEN << >> ELSE f[i - 1] \o ss[i]]
<1>1. f = [i \in Nat |-> IF i = 0 THEN << >> ELSE f[i - 1] \o ss[i]]
  BY JoinedFunction, Zenon
<1>2. Joined(ss, n + 1) = f[n + 1] /\ Joined(ss, n) = f[n]
  BY Zenon DEF Joined
<1> HIDE DEF f
<1>3. n + 1 \in Nat /\ n + 1 # 0 /\ (n + 1) - 1 = n
  OBVIOUS
<1>4. f[n + 1] = f[n] \o ss[n + 1]
  BY <1>1, <1>3, Zenon
<1> QED BY <1>2, <1>4, Zenon

\* Sequences that agree up to n are concatenated to the same.
LEMMA JoinedSame ==
    ASSUME NEW ss, NEW tt, NEW n \in Nat, \A i \in 1..n : ss[i] = tt[i]
    PROVE  Joined(ss, n) = Joined(tt, n)
<1> DEFINE A == {i \in Nat : i <= n => Joined(ss, i) = Joined(tt, i)}
<1>1. 0 \in A
  BY JoinedZero, Zenon
<1>2. ASSUME NEW i \in Nat, i \in A PROVE i + 1 \in A
  <2>1. CASE i + 1 <= n
    <3>1. i + 1 \in 1..n /\ i <= n
      BY <2>1
    <3>2. Joined(ss, i) = Joined(tt, i) /\ ss[i + 1] = tt[i + 1]
      BY <1>2, <3>1, Zenon
    <3>3. Joined(ss, i + 1) = Joined(tt, i + 1)
      BY <3>2, JoinedNext, Zenon
    <3> QED BY <3>3
  <2>2. CASE ~(i + 1 <= n)
    BY <2>2
  <2> QED BY <2>1, <2>2, Zenon
<1> HIDE DEF A
<1>3. n \in A
  BY <1>1, <1>2, AllNumbers, Zenon
<1> QED BY <1>3 DEF A

\* The concatenation is a sequence of the same things.
LEMMA JoinedType ==
    ASSUME NEW V, NEW ss, NEW n \in Nat, \A i \in 1..n : ss[i] \in Seq(V)
    PROVE  Joined(ss, n) \in Seq(V)
<1> DEFINE A == {i \in Nat : i <= n => Joined(ss, i) \in Seq(V)}
<1>1. 0 \in A
  <2>1. Joined(ss, 0) = << >>
    BY JoinedZero, Zenon
  <2>2. << >> \in Seq(V)
    OBVIOUS
  <2>3. Joined(ss, 0) \in Seq(V)
    BY <2>1, <2>2, Zenon
  <2> QED BY <2>3, Zenon
<1>2. ASSUME NEW i \in Nat, i \in A PROVE i + 1 \in A
  <2>1. CASE i + 1 <= n
    <3>1. i + 1 \in 1..n /\ i <= n
      BY <2>1
    <3>2. Joined(ss, i) \in Seq(V) /\ ss[i + 1] \in Seq(V)
      BY <1>2, <3>1, Zenon
    <3>3. Joined(ss, i + 1) \in Seq(V)
      <4>1. Joined(ss, i + 1) = Joined(ss, i) \o ss[i + 1]
        BY JoinedNext, Zenon
      <4>2. \A s, t \in Seq(V) : s \o t \in Seq(V)
        OBVIOUS
      <4> QED BY <3>2, <4>1, <4>2, Zenon
    <3> QED BY <3>3
  <2>2. CASE ~(i + 1 <= n)
    BY <2>2
  <2> QED BY <2>1, <2>2, Zenon
<1> HIDE DEF A
<1>3. n \in A
  BY <1>1, <1>2, AllNumbers, Zenon
<1> QED BY <1>3 DEF A

\* Concatenation is associative ...
LEMMA Associative ==
    ASSUME NEW V, NEW s \in Seq(V), NEW t \in Seq(V), NEW u \in Seq(V)
    PROVE  (s \o t) \o u = s \o (t \o u)
OBVIOUS

\* ... and the empty sequence is neutral.
LEMMA Neutral ==
    ASSUME NEW V, NEW s \in Seq(V) PROVE s \o << >> = s /\ << >> \o s = s
OBVIOUS

Sequences(ss, n, V) == \A i \in 1..n : ss[i] \in Seq(V)
Shifted(ss, tt, n) == \A i \in 1..n : tt[i] = ss[i + 1]

FirstOff(ss, tt, n) == Joined(ss, n + 1) = ss[1] \o Joined(tt, n)

\* The first sequence can be taken off.
LEMMA JoinedShift ==
    ASSUME NEW V, NEW ss, NEW tt, NEW n \in Nat, Sequences(ss, n + 1, V), Shifted(ss, tt, n)
    PROVE  FirstOff(ss, tt, n)
<1> DEFINE A == {i \in Nat : i <= n => Joined(ss, i + 1) = ss[1] \o Joined(tt, i)}
<1>0. /\ ss[1] \in Seq(V) /\ \A i \in 1..n : tt[i] \in Seq(V)
      /\ \A i \in 1..n : tt[i] = ss[i + 1]
  BY DEF Sequences, Shifted
<1>1. 0 \in A
  <2>1. Joined(ss, 0 + 1) = Joined(ss, 0) \o ss[0 + 1]
    BY JoinedNext, Zenon
  <2>2. Joined(ss, 0 + 1) = << >> \o ss[1]
    <3>1. Joined(ss, 0) = << >>
      BY JoinedZero, Zenon
    <3>2. ss[0 + 1] = ss[1]
      OBVIOUS
    <3> QED BY <2>1, <3>1, <3>2, Zenon
  <2>3. Joined(ss, 0 + 1) = ss[1] \o Joined(tt, 0)
    BY <1>0, <2>2, JoinedZero, Neutral, Zenon
  <2> QED BY <2>3, Zenon
<1>2. ASSUME NEW i \in Nat, i \in A PROVE i + 1 \in A
  <2>1. CASE i + 1 <= n
    <3>1. i + 1 \in 1..n /\ i <= n /\ i + 1 \in Nat
      BY <2>1
    <3>2. Joined(ss, i + 1) = ss[1] \o Joined(tt, i) /\ tt[i + 1] = ss[(i + 1) + 1]
      BY <1>0, <1>2, <3>1, Zenon
    <3>3. Joined(ss, (i + 1) + 1) = Joined(ss, i + 1) \o ss[(i + 1) + 1] /\ Joined(tt, i + 1) = Joined(tt, i) \o tt[i + 1]
      BY <3>1, JoinedNext, Zenon
    <3>4. Joined(tt, i) \in Seq(V) /\ tt[i + 1] \in Seq(V)
      <4>1. \A k \in 1..i : tt[k] \in Seq(V)
        BY <1>0, <3>1
      <4> QED BY <1>0, <3>1, <4>1, JoinedType, Zenon
    <3>5. (ss[1] \o Joined(tt, i)) \o tt[i + 1] = ss[1] \o (Joined(tt, i) \o tt[i + 1])
      <4>1. \A s, t, u \in Seq(V) : (s \o t) \o u = s \o (t \o u)
        OBVIOUS
      <4> QED BY <1>0, <3>4, <4>1, Zenon
    <3>6. Joined(ss, (i + 1) + 1) = ss[1] \o Joined(tt, i + 1)
      BY <3>2, <3>3, <3>5, Zenon
    <3> QED BY <3>1, <3>6, Zenon
  <2>2. CASE ~(i + 1 <= n)
    BY <2>2
  <2> QED BY <2>1, <2>2, Zenon
<1> HIDE DEF A
<1>3. n \in A
  BY <1>1, <1>2, AllNumbers, Zenon
<1> QED BY <1>3 DEF A, FirstOff

-----------------------------------------------------------------------------
(* Runs, and the events that messages stand for.                           *)

Trace == Seq(Records)

\* Concatenation of traces.
LEMMA TraceConcat ==
    /\ \A s, t \in Trace : s \o t \in Trace
    /\ \A s, t, u \in Trace : (s \o t) \o u = s \o (t \o u)
    /\ \A s \in Trace : s \o << >> = s /\ << >> \o s = s
    /\ << >> \in Trace /\ \A e \in Records : <<e>> \in Trace
<1>1. \A s, t \in Trace : s \o t \in Trace
  BY DEF Trace
<1>2. \A s, t, u \in Trace : (s \o t) \o u = s \o (t \o u)
  BY DEF Trace
<1>3. \A s \in Trace : s \o << >> = s /\ << >> \o s = s
  BY DEF Trace
<1>4. << >> \in Trace /\ \A e \in Records : <<e>> \in Trace
  BY DEF Trace
<1> QED BY <1>1, <1>2, <1>3, <1>4, Zenon

\* The same, for three given traces.
LEMMA TraceAssociative ==
    ASSUME NEW s \in Trace, NEW t \in Trace, NEW u \in Trace
    PROVE  (s \o t) \o u = s \o (t \o u)
BY TraceConcat, Zenon

\* The events of a message.
LEMMA RepeatFacts ==
    ASSUME NEW m, m.ev \in Records, m.n \in Nat
    PROVE  /\ Repeat(m) \in Trace
           /\ m.n = 0 => Repeat(m) = << >>
           /\ m.n = 1 => Repeat(m) = <<m.ev>>
<1>1. Repeat(m) \in Trace
  BY DEF Repeat, Trace
<1>2. m.n = 0 => Repeat(m) = << >>
  BY DEF Repeat
<1>3. m.n = 1 => Repeat(m) = <<m.ev>>
  BY DEF Repeat
<1> QED BY <1>1, <1>2, <1>3, Zenon

\* A run can be cut in two.
LEMMA RepeatCut ==
    ASSUME NEW e \in Records, NEW k \in Nat, NEW n \in Nat
    PROVE  [i \in 1..k |-> e] \o Repeat(Message(e, n)) = Repeat(Message(e, k + n))
<1> DEFINE s == [i \in 1..k |-> e]
           t == [i \in 1..n |-> e]
           u == [i \in 1..(k + n) |-> e]
<1>1. s \in Seq(Records) /\ t \in Seq(Records) /\ Len(s) = k /\ Len(t) = n /\ u \in Seq(Records) /\ Len(u) = k + n
  OBVIOUS
<1>2. s \o t \in Seq(Records) /\ Len(s \o t) = k + n
  BY <1>1
<1>3. ASSUME NEW i \in 1..(k + n) PROVE (s \o t)[i] = u[i]
  <2>1. (s \o t)[i] = IF i <= k THEN s[i] ELSE t[i - k]
    BY <1>1
  <2> QED BY <2>1
<1>4. s \o t = u
  BY <1>1, <1>2, <1>3
<1>5. Repeat(Message(e, n)) = t /\ Repeat(Message(e, k + n)) = u
  BY Zenon DEF Repeat, Message
<1> QED BY <1>4, <1>5, Zenon

\* A run that grows by one.
LEMMA RepeatMore ==
    ASSUME NEW e \in Records, NEW n \in Nat
    PROVE  Repeat(Message(e, n + 1)) = Repeat(Message(e, n)) \o <<e>>
<1>1. [i \in 1..n |-> e] \o Repeat(Message(e, 1)) = Repeat(Message(e, n + 1))
  BY RepeatCut, Zenon
<1>2. Repeat(Message(e, 1)) = <<e>> /\ Repeat(Message(e, n)) = [i \in 1..n |-> e]
  BY DEF Repeat, Message
<1> QED BY <1>1, <1>2, Zenon

\* A message stands for a trace.
LEMMA MessageEvents ==
    ASSUME NEW m \in Msg PROVE Repeat(m) \in Trace
<1>1. m.ev \in Records /\ m.n \in Nat
  BY MessageType, Zenon
<1> QED BY <1>1, RepeatFacts, Zenon

\* No message stands for no event.
LEMMA ExpandEmpty == Expand(<< >>) = << >>
<1>1. Len(<< >>) = 0
  OBVIOUS
<1> QED BY <1>1, JoinedZero, Zenon DEF Expand

\* Messages stand for a trace.
LEMMA ExpandType ==
    ASSUME NEW s \in Seq(Msg) PROVE Expand(s) \in Trace
<1> DEFINE ss == [i \in DOMAIN s |-> Repeat(s[i])]
<1>1. Len(s) \in Nat /\ \A i \in 1..Len(s) : ss[i] = Repeat(s[i]) /\ s[i] \in Msg
  OBVIOUS
<1> HIDE DEF ss
<1>2. \A i \in 1..Len(s) : ss[i] \in Seq(Records)
  BY <1>1, MessageEvents, Zenon DEF Trace
<1>3. Joined(ss, Len(s)) \in Seq(Records)
  BY <1>1, <1>2, JoinedType, Zenon
<1> QED BY <1>3, Zenon DEF Expand, ss, Trace

\* A message at the end adds its events at the end ...
LEMMA ExpandAppend ==
    ASSUME NEW s \in Seq(Msg), NEW m \in Msg
    PROVE  Expand(Append(s, m)) = Expand(s) \o Repeat(m)
<1> DEFINE t == Append(s, m)
           ss == [i \in DOMAIN s |-> Repeat(s[i])]
           tt == [i \in DOMAIN t |-> Repeat(t[i])]
<1>1. Len(s) \in Nat /\ Len(t) = Len(s) + 1 /\ t[Len(s) + 1] = m /\ Len(s) + 1 \in DOMAIN t
  OBVIOUS
<1>2. \A i \in 1..Len(s) : t[i] = s[i] /\ i \in DOMAIN t /\ i \in DOMAIN s
  OBVIOUS
<1> HIDE DEF t
<1>3. (\A i \in 1..Len(s) : tt[i] = ss[i]) /\ tt[Len(s) + 1] = Repeat(m)
  BY <1>1, <1>2, Zenon
<1> HIDE DEF ss, tt
<1>4. Joined(tt, Len(s) + 1) = Joined(tt, Len(s)) \o tt[Len(s) + 1]
  BY <1>1, JoinedNext, Zenon
<1>5. Joined(tt, Len(s)) = Joined(ss, Len(s))
  BY <1>1, <1>3, JoinedSame, Zenon
<1>6. Expand(t) = Joined(tt, Len(s) + 1) /\ Expand(s) = Joined(ss, Len(s))
  BY <1>1, Zenon DEF Expand, ss, tt
<1>7. Expand(t) = Expand(s) \o Repeat(m)
  BY <1>3, <1>4, <1>5, <1>6, Zenon
<1> QED BY <1>7, Zenon DEF t

\* ... and the first one has its events at the front.
LEMMA ExpandHead ==
    ASSUME NEW s \in Seq(Msg), s # << >>
    PROVE  Expand(s) = Repeat(Head(s)) \o Expand(Tail(s))
<1> DEFINE t == Tail(s)
           n == Len(t)
           ss == [i \in DOMAIN s |-> Repeat(s[i])]
           tt == [i \in DOMAIN t |-> Repeat(t[i])]
<1>1. /\ t \in Seq(Msg) /\ n \in Nat /\ Len(s) = n + 1 /\ Head(s) = s[1] /\ 1 \in DOMAIN s
      /\ \A i \in 1..n : t[i] = s[i + 1] /\ i \in DOMAIN t /\ i + 1 \in DOMAIN s
      /\ \A i \in 1..(n + 1) : i \in DOMAIN s /\ s[i] \in Msg
  BY HeadTail
<1> HIDE DEF t, n
<1>2. ss[1] = Repeat(Head(s)) /\ (\A i \in 1..n : tt[i] = ss[i + 1])
  BY <1>1, Zenon
<1>3. \A i \in 1..(n + 1) : ss[i] = Repeat(s[i]) /\ s[i] \in Msg
  BY <1>1, Zenon
<1> HIDE DEF ss, tt
<1>4. \A i \in 1..(n + 1) : ss[i] \in Seq(Records)
  BY <1>3, MessageEvents, Zenon DEF Trace
<1>5. Joined(ss, n + 1) = ss[1] \o Joined(tt, n)
  <2>1. n \in Nat
    BY <1>1, Zenon
  <2>2. Shifted(ss, tt, n)
    BY <1>2, Zenon DEF Shifted
  <2>3. Sequences(ss, n + 1, Records)
    BY <1>4, Zenon DEF Sequences
  <2>4. FirstOff(ss, tt, n)
    BY <2>1, <2>2, <2>3, JoinedShift, Zenon
  <2> QED BY <2>4, Zenon DEF FirstOff
<1>6. Expand(s) = Joined(ss, n + 1) /\ Expand(t) = Joined(tt, n)
  BY <1>1, Zenon DEF Expand, ss, tt, n
<1>7. Expand(s) = Repeat(Head(s)) \o Expand(t)
  BY <1>2, <1>5, <1>6, Zenon
<1> QED BY <1>7, Zenon DEF t

\* A single message.
LEMMA ExpandOne ==
    ASSUME NEW m \in Msg PROVE Expand(<<m>>) = Repeat(m)
<1>1. << >> \in Seq(Msg) /\ Append(<< >>, m) = <<m>>
  OBVIOUS
<1>2. Expand(<<m>>) = Expand(<< >>) \o Repeat(m)
  BY <1>1, ExpandAppend, Zenon
<1> QED BY <1>2, ExpandEmpty, MessageEvents, TraceConcat, Zenon

-----------------------------------------------------------------------------
(* Stream: what is in flight is what was executed.                         *)

\* What a core has consumed, staged and begun to expand.
Pipelined(p) == p.done \o Staging(p) \o Repeat(p.run)

Streams(c) == InFlight(c) = Executed(c)

\* The parts of what is in flight.
LEMMA InFlightParts ==
    ASSUME NEW c
    PROVE  InFlight(c) = Pipelined(pipe[c]) \o Expand(ring[c]) \o Expand(out[c]) \o Repeat(acc[c])
BY Zenon DEF InFlight, Pipelined

\* The staging queue is a trace.
LEMMA StagingType ==
    ASSUME NEW p \in Pipes PROVE Staging(p) \in Trace
<1>1. p.q \in Seq(Entry)
  BY Zenon DEF Pipes, PipeRecord
<1>2. \A i \in DOMAIN p.q : p.q[i].ev \in Records
  <2>1. \A i \in DOMAIN p.q : p.q[i] \in Entry
    BY <1>1
  <2> QED BY <2>1, Zenon DEF Entry
<1> QED BY <1>1, <1>2 DEF Staging, Trace

\* The parts of a pipeline are traces ...
LEMMA PipelinedType ==
    ASSUME NEW p \in Pipes
    PROVE  p.done \in Trace /\ Staging(p) \in Trace /\ Repeat(p.run) \in Trace /\ Pipelined(p) \in Trace
<1>1. p.done \in Trace /\ p.run \in Run
  BY Zenon DEF Pipes, PipeRecord, Trace
<1>2. p.run.ev \in Records /\ p.run.n \in Nat
  BY <1>1, Zenon DEF Run, Records
<1>3. Repeat(p.run) \in Trace
  BY <1>2, RepeatFacts, Zenon
<1> QED BY <1>1, <1>3, StagingType, TraceConcat, Zenon DEF Pipelined

\* ... and so are the ring, the callback and the open run.
LEMMA PartsType ==
    ASSUME GuestTypes, SstTypes, NEW c \in Cores
    PROVE  /\ pipe[c] \in Pipes /\ Pipelined(pipe[c]) \in Trace
           /\ ring[c] \in Seq(Msg) /\ out[c] \in Seq(Msg)
           /\ Expand(ring[c]) \in Trace /\ Expand(out[c]) \in Trace /\ Repeat(acc[c]) \in Trace
<1>1. pipe[c] \in Pipes /\ ring[c] \in Seq(Msg) /\ out[c] \in Seq(Msg)
  BY Zenon DEF GuestTypes, SstTypes, Rings
<1>2. acc[c].ev \in Records /\ acc[c].n \in Nat
  BY FlushIsPlain, Zenon DEF Records
<1> QED BY <1>1, <1>2, PipelinedType, ExpandType, RepeatFacts, Zenon

\* A pipeline's step that pops the head of the queue, or keeps its events.
LEMMA StagingSame ==
    ASSUME NEW p \in Pipes, NEW x \in Pipes, Len(x.q) = Len(p.q), \A i \in DOMAIN p.q : x.q[i].ev = p.q[i].ev
    PROVE  Staging(x) = Staging(p)
<1>1. p.q \in Seq(Entry) /\ x.q \in Seq(Entry)
  BY Zenon DEF Pipes, PipeRecord
<1>2. DOMAIN x.q = DOMAIN p.q
  BY <1>1
<1> QED BY <1>2, Zenon DEF Staging

\* Popping the head moves its event from the queue to what was consumed.
LEMMA StagingPop ==
    ASSUME NEW p \in Pipes, NEW x \in Pipes, p.q # << >>,
           x.q = Tail(p.q), x.done = Append(p.done, Head(p.q).ev)
    PROVE  x.done \o Staging(x) = p.done \o Staging(p)
<1> DEFINE e == Head(p.q).ev
           s == Staging(p)
           t == Staging(x)
<1>1. p.q \in Seq(Entry) /\ x.q \in Seq(Entry) /\ p.done \in Seq(Records) /\ x.done \in Seq(Records)
  BY Zenon DEF Pipes, PipeRecord
<1>2. s \in Seq(Records) /\ t \in Seq(Records)
  BY StagingType, Zenon DEF Trace
<1>3. Len(s) = Len(p.q) /\ Len(t) = Len(p.q) - 1 /\ Len(p.q) > 0 /\ s[1] = e /\ e \in Records
  <2>1. Head(p.q) = p.q[1] /\ Len(p.q) > 0 /\ Len(x.q) = Len(p.q) - 1 /\ Head(p.q) \in Entry
    BY <1>1, HeadTail, Zenon
  <2>2. Len(s) = Len(p.q) /\ Len(t) = Len(x.q)
    BY <1>1 DEF Staging
  <2>3. s[1] = e
    BY <1>1, <2>1 DEF Staging
  <2> QED BY <2>1, <2>2, <2>3, Zenon DEF Entry
<1>4. \A i \in 1..(Len(p.q) - 1) : t[i] = s[i + 1]
  <2>1. \A i \in 1..(Len(p.q) - 1) : x.q[i] = p.q[i + 1] /\ i \in DOMAIN x.q /\ i + 1 \in DOMAIN p.q
    BY <1>1, HeadTail
  <2> QED BY <2>1, Zenon DEF Staging
<1> HIDE DEF s, t, e
<1>5. s = <<e>> \o t
  BY <1>1, <1>2, <1>3, <1>4, SMTT(30)
<1>6. x.done = p.done \o <<e>>
  BY <1>1, <1>3, SMTT(30) DEF e
<1>7. p.done \in Trace /\ <<e>> \in Trace /\ t \in Trace
  BY <1>1, <1>2, <1>3, TraceConcat, Zenon DEF Trace
<1>8. (p.done \o <<e>>) \o t = p.done \o (<<e>> \o t)
  BY <1>7, TraceConcat, Zenon
<1>9. x.done \o t = p.done \o s
  BY <1>5, <1>6, <1>8, Zenon
<1> QED BY <1>9, Zenon DEF s, t

\* Length and elements of a concatenation.
LEMMA ConcatFacts ==
    ASSUME NEW S, NEW s \in Seq(S), NEW t \in Seq(S)
    PROVE  /\ s \o t \in Seq(S) /\ Len(s \o t) = Len(s) + Len(t)
           /\ \A i \in 1..(Len(s) + Len(t)) : (s \o t)[i] = IF i <= Len(s) THEN s[i] ELSE t[i - Len(s)]
OBVIOUS

\* k entries with the same event are pushed.
LEMMA StagingPush ==
    ASSUME NEW p \in Pipes, NEW x \in Pipes, NEW e \in Records, NEW k \in Nat,
           x.q = p.q \o [i \in 1..k |-> Staged(e)]
    PROVE  Staging(x) = Staging(p) \o [i \in 1..k |-> e]
<1> DEFINE s == Staging(p)
           t == Staging(x)
           w == [i \in 1..k |-> Staged(e)]
           v == [i \in 1..k |-> e]
           n == Len(p.q)
<1>1. p.q \in Seq(Entry) /\ x.q \in Seq(Entry) /\ n \in Nat
  <2>1. p.q \in Seq(Entry) /\ x.q \in Seq(Entry)
    BY Zenon DEF Pipes, PipeRecord
  <2> QED BY <2>1
<1>2. s \in Seq(Records) /\ t \in Seq(Records) /\ v \in Seq(Records) /\ Len(v) = k
  BY StagingType DEF Trace
<1>3. w \in Seq(Entry) /\ Len(w) = k
  BY StagedType
<1>4. Len(x.q) = n + k /\ \A i \in 1..(n + k) : x.q[i] = IF i <= n THEN p.q[i] ELSE Staged(e)
  BY <1>1, <1>3
<1>5. Len(s) = n /\ Len(t) = n + k
  BY <1>1, <1>4, SMTT(30) DEF Staging
<1>6. \A i \in 1..(n + k) : t[i] = x.q[i].ev
  BY <1>1, <1>4 DEF Staging
<1>7. \A i \in 1..n : s[i] = p.q[i].ev
  BY <1>1 DEF Staging
<1>8. \A i \in 1..(n + k) : t[i] = IF i <= n THEN s[i] ELSE e
  BY <1>1, <1>4, <1>6, <1>7, StagedType, SMTT(30)
<1>9. s \o v \in Seq(Records) /\ Len(s \o v) = n + k /\ \A i \in 1..(n + k) : (s \o v)[i] = IF i <= n THEN s[i] ELSE e
  <2>1. \A i \in 1..k : v[i] = e
    OBVIOUS
  <2> HIDE DEF s, t, v, w, n
  <2>2. s \o v \in Seq(Records) /\ Len(s \o v) = n + k
    BY <1>2, <1>5, ConcatFacts, Zenon
  <2>3. \A i \in 1..(n + k) : (s \o v)[i] = IF i <= n THEN s[i] ELSE v[i - n]
    BY <1>2, <1>5, ConcatFacts, Zenon
  <2>4. \A i \in 1..(n + k) : i <= n \/ i - n \in 1..k
    BY <1>1
  <2> QED BY <2>1, <2>2, <2>3, <2>4, Zenon
<1> HIDE DEF s, t, v, w, n
<1>10. t = s \o v
  BY <1>1, <1>2, <1>5, <1>8, <1>9, SMTT(30)
<1> QED BY <1>10, Zenon DEF s, t, v

-----------------------------------------------------------------------------

\* What was executed depends on the vCPU's own variables.
LEMMA ExecutedSame ==
    ASSUME NEW c \in Cores, prog' = prog, mode' = mode, at'[c] = at[c], called'[c] = called[c],
           (leaving' > c) = (leaving > c)
    PROVE  Executed(c)' = Executed(c)
<1>1. Traced(c, at[c])' = Traced(c, at[c])
  BY DEF Traced, Joined
<1>2. Delayed(c)' = Delayed(c)
  BY Zenon DEF Delayed, Unclassed
<1> QED BY <1>1, <1>2, Zenon DEF Executed

\* A step that touches neither the vCPU nor the order of the pipeline's events.
LEMMA StreamKept ==
    ASSUME NEW c \in Cores, Streams(c), prog' = prog, mode' = mode, at'[c] = at[c], called'[c] = called[c],
           (leaving' > c) = (leaving > c),
           Pipelined(pipe'[c]) = Pipelined(pipe[c]), ring'[c] = ring[c], out'[c] = out[c], acc'[c] = acc[c]
    PROVE  Streams(c)'
<1>1. Executed(c)' = Executed(c)
  BY ExecutedSame, Zenon
<1>2. InFlight(c)' = InFlight(c)
  <2>1. /\ InFlight(c) = Pipelined(pipe[c]) \o Expand(ring[c]) \o Expand(out[c]) \o Repeat(acc[c])
        /\ InFlight(c)' = Pipelined(pipe'[c]) \o Expand(ring'[c]) \o Expand(out'[c]) \o Repeat(acc'[c])
    BY Zenon DEF InFlight, Pipelined, Staging, Repeat, Expand, Joined
  <2> QED BY <2>1, Zenon
<1> QED BY <1>1, <1>2, Zenon DEF Streams

\* The vCPU adds x to the trace.
LEMMA StreamGrows ==
    ASSUME GuestTypes, SstTypes, GuestTypes', NEW c \in Cores, Streams(c), NEW x \in Trace,
           pipe'[c] = pipe[c], ring'[c] = ring[c],
           Expand(out'[c]) \o Repeat(acc'[c]) = (Expand(out[c]) \o Repeat(acc[c])) \o x,
           Executed(c)' = Executed(c) \o x
    PROVE  Streams(c)'
<1> DEFINE a == Pipelined(pipe[c]) \o Expand(ring[c])
           o == Expand(out[c])
           r == Repeat(acc[c])
           oo == Expand(out'[c])
           rr == Repeat(acc'[c])
<1>1. a \in Trace /\ o \in Trace /\ r \in Trace
  BY PartsType, TraceConcat, Zenon
<1>2. oo \in Trace /\ rr \in Trace
  <2>1. out'[c] \in Seq(Msg) /\ acc'[c] \in OpenRun
    BY Zenon DEF GuestTypes
  <2>2. acc'[c].ev \in Records /\ acc'[c].n \in Nat
    BY <2>1, Sizes DEF OpenRun, Records
  <2> QED BY <2>1, <2>2, ExpandType, RepeatFacts, Zenon
<1>3. InFlight(c) = (a \o o) \o r
  BY InFlightParts, Zenon
<1>4. InFlight(c)' = (a \o oo) \o rr
  <2>1. InFlight(c)' = Pipelined(pipe'[c]) \o Expand(ring'[c]) \o Expand(out'[c]) \o Repeat(acc'[c])
    BY Zenon DEF InFlight, Pipelined, Staging, Repeat, Expand, Joined
  <2> QED BY <2>1, Zenon
<1> HIDE DEF a, o, r, oo, rr
<1>5. (a \o oo) \o rr = a \o (oo \o rr) /\ (a \o o) \o r = a \o (o \o r)
  <2>1. (a \o oo) \o rr = a \o (oo \o rr)
    BY <1>1, <1>2, TraceAssociative, ZenonT(60)
  <2>2. (a \o o) \o r = a \o (o \o r)
    BY <1>1, TraceAssociative, Zenon
  <2> QED BY <2>1, <2>2, Zenon
<1>6. o \o r \in Trace
  BY <1>1, TraceConcat, Zenon
<1>7. a \o ((o \o r) \o x) = (a \o (o \o r)) \o x
  BY <1>1, <1>6, TraceAssociative, ZenonT(60)
<1>8. oo \o rr = (o \o r) \o x
  BY Zenon DEF oo, rr, o, r
<1>9. InFlight(c)' = InFlight(c) \o x
  BY <1>3, <1>4, <1>5, <1>7, <1>8, Zenon
<1> QED BY <1>9, Zenon DEF Streams

-----------------------------------------------------------------------------
(* What a callback writes, as events.                                      *)

\* An empty run stands for nothing.
LEMMA EmptyRun ==
    ASSUME NEW e \in Compute PROVE Repeat(Message(e, 0)) = << >>
<1>1. Message(e, 0).ev \in Records /\ Message(e, 0).n = 0
  BY Zenon DEF Message, Records
<1> QED BY <1>1, RepeatFacts

\* A message for one event.
LEMMA SingleEvent ==
    ASSUME NEW e \in Records PROVE Repeat(Message(e, 1)) = <<e>>
<1>1. Message(e, 1).ev = e /\ Message(e, 1).n = 1
  BY Zenon DEF Message
<1> QED BY <1>1, RepeatFacts

\* flush_run writes the open run.
LEMMA FlushEvents ==
    ASSUME GuestTypes, NEW c \in Cores
    PROVE  Expand(FlushRun(c)) = Repeat(acc[c]) /\ FlushRun(c) \in Seq(Msg)
<1>1. acc[c].ev \in Compute /\ acc[c].n \in Nat /\ acc[c] = Message(acc[c].ev, acc[c].n) /\ FlushRun(c) \in Seq(Msg)
  BY FlushIsPlain, PlainSeq, Zenon
<1>2. acc[c].ev \in Records
  BY <1>1, Zenon DEF Records
<1>3. CASE acc[c].n = 0
  BY <1>1, <1>2, <1>3, RepeatFacts, ExpandEmpty, Zenon DEF FlushRun
<1>4. CASE acc[c].n # 0
  <2>1. acc[c] \in Msg
    BY <1>1, RunIsPlain, Zenon DEF Plain
  <2> QED BY <1>1, <1>4, <2>1, ExpandOne, Zenon DEF FlushRun
<1> QED BY <1>1, <1>3, <1>4, Zenon

\* The open run alone is written: nothing is added.
LEMMA FlushAdds ==
    ASSUME GuestTypes, NEW c \in Cores, out[c] = << >>,
           out' = [out EXCEPT ![c] = FlushRun(c)], acc' = [acc EXCEPT ![c].n = 0]
    PROVE  Expand(out'[c]) \o Repeat(acc'[c]) = (Expand(out[c]) \o Repeat(acc[c])) \o << >>
<1>1. acc[c].ev \in Compute /\ acc[c].n \in Nat
  BY FlushIsPlain, Zenon
<1>2. out'[c] = FlushRun(c) /\ acc'[c] = Message(acc[c].ev, 0)
  BY ClosedRunType, Zenon DEF GuestTypes
<1>3. Repeat(acc[c]) \in Trace
  BY <1>1, RepeatFacts, Zenon DEF Records
<1>4. Expand(out[c]) = << >> /\ Repeat(acc'[c]) = << >> /\ Expand(out'[c]) = Repeat(acc[c])
  BY <1>1, <1>2, ExpandEmpty, EmptyRun, FlushEvents, Zenon
<1> QED BY <1>3, <1>4, TraceConcat, Zenon

\* The open run, then one message m for the event e.
LEMMA FlushAndOne ==
    ASSUME GuestTypes, NEW c \in Cores, out[c] = << >>, NEW e \in Records \ Compute,
           out'[c] = FlushRun(c) \o <<Message(e, 1)>>, acc' = [acc EXCEPT ![c].n = 0]
    PROVE  Expand(out'[c]) \o Repeat(acc'[c]) = (Expand(out[c]) \o Repeat(acc[c])) \o <<e>>
<1>1. acc[c].ev \in Compute /\ acc[c].n \in Nat
  BY FlushIsPlain, Zenon
<1>2. acc'[c] = Message(acc[c].ev, 0)
  BY ClosedRunType, Zenon DEF GuestTypes
<1>3. Repeat(acc[c]) \in Trace /\ <<e>> \in Trace
  BY <1>1, RepeatFacts, TraceConcat, Zenon DEF Records
<1>4. Message(e, 1) \in Msg /\ FlushRun(c) \in Seq(Msg)
  BY FlushEvents, Zenon DEF Message, Msg
<1>5. out'[c] = Append(FlushRun(c), Message(e, 1))
  BY <1>4
<1>6. Expand(out'[c]) = Repeat(acc[c]) \o <<e>>
  BY <1>4, <1>5, ExpandAppend, FlushEvents, SingleEvent, Zenon
<1>7. Expand(out[c]) = << >> /\ Repeat(acc'[c]) = << >>
  BY <1>1, <1>2, ExpandEmpty, EmptyRun, Zenon
<1>8. Repeat(acc[c]) \o <<e>> \in Trace
  BY <1>3, TraceConcat, Zenon
<1> QED BY <1>3, <1>6, <1>7, <1>8, TraceConcat, Zenon

\* accumulate_compute adds the instruction, in the open run or in a run that is
\* written.
LEMMA AccumulateAdds ==
    ASSUME GuestTypes, NEW c \in Cores, out[c] = << >>, NEW e \in Compute, Accumulate(c, e)
    PROVE  Expand(out'[c]) \o Repeat(acc'[c]) = (Expand(out[c]) \o Repeat(acc[c])) \o <<e>>
<1> DEFINE closed == IF acc[c].ev # e THEN FlushRun(c) ELSE << >>
           before == IF acc[c].ev # e THEN 0 ELSE acc[c].n
           run == Message(e, before + 1)
<1>0. acc[c].ev \in Compute /\ acc[c].n \in Nat /\ acc[c] = Message(acc[c].ev, acc[c].n)
  BY FlushIsPlain, Zenon
<1>1. /\ out'[c] = closed \o (IF run.n >= RunMax THEN <<run>> ELSE << >>)
      /\ acc'[c] = IF run.n >= RunMax THEN Message(e, 0) ELSE run
  <2>1. run = Message(e, IF acc[c].ev # e THEN 1 ELSE acc[c].n + 1)
    BY <1>0
  <2> QED BY <2>1, Zenon DEF Accumulate, GuestTypes
<1>2. closed \in Seq(Msg) /\ before \in Nat /\ e \in Records /\ run \in Msg
  <2>1. before \in Nat /\ e \in Records
    BY <1>0, Zenon DEF Records
  <2>2. run \in Msg
    BY <2>1, RunIsPlain, SMTT(40) DEF Plain
  <2>3. closed \in Seq(Msg)
    BY FlushEvents
  <2> QED BY <2>1, <2>2, <2>3, Zenon
<1>3. Expand(closed) \o Repeat(Message(e, before)) = Repeat(acc[c]) /\ Expand(closed) \in Trace /\ Repeat(acc[c]) \in Trace
  <2>1. Repeat(acc[c]) \in Trace
    BY <1>0, RepeatFacts, Zenon DEF Records
  <2>2. Expand(closed) \in Trace
    BY <1>2, ExpandType, Zenon
  <2>3. CASE acc[c].ev # e
    BY <2>1, <2>3, FlushEvents, EmptyRun, TraceConcat, Zenon
  <2>4. CASE acc[c].ev = e
    BY <1>0, <2>1, <2>4, ExpandEmpty, TraceConcat, Zenon
  <2> QED BY <2>1, <2>2, <2>3, <2>4, Zenon
<1> HIDE DEF closed, before
<1>4. Repeat(run) = Repeat(Message(e, before)) \o <<e>> /\ Repeat(Message(e, before)) \in Trace /\ <<e>> \in Trace
  <2>1. Message(e, before).ev = e /\ Message(e, before).n = before
    BY Zenon DEF Message
  <2> QED BY <1>2, <2>1, RepeatMore, RepeatFacts, TraceConcat, Zenon
<1>5. Expand(out'[c]) \o Repeat(acc'[c]) = Expand(closed) \o Repeat(run)
  <2>1. CASE run.n >= RunMax
    <3>1. out'[c] = Append(closed, run) /\ acc'[c] = Message(e, 0)
      BY <1>1, <1>2, <2>1, SMTT(40)
    <3>2. Expand(out'[c]) = Expand(closed) \o Repeat(run)
      BY <1>2, <3>1, ExpandAppend, Zenon
    <3>3. Expand(closed) \o Repeat(run) \in Trace
      BY <1>2, <1>3, MessageEvents, TraceConcat, Zenon
    <3> QED BY <3>1, <3>2, <3>3, EmptyRun, TraceConcat, ZenonT(60)
  <2>2. CASE ~(run.n >= RunMax)
    <3>1. out'[c] = closed /\ acc'[c] = run
      BY <1>1, <1>2, <2>2, SMTT(40)
    <3> QED BY <3>1, Zenon
  <2> QED BY <2>1, <2>2, Zenon
<1>6. Expand(closed) \o (Repeat(Message(e, before)) \o <<e>>) = (Expand(closed) \o Repeat(Message(e, before))) \o <<e>>
  BY <1>3, <1>4, TraceAssociative, Zenon
<1>7. Expand(out[c]) \o Repeat(acc[c]) = Repeat(acc[c])
  BY <1>3, ExpandEmpty, TraceConcat, Zenon
<1> QED BY <1>3, <1>4, <1>5, <1>6, <1>7, Zenon

-----------------------------------------------------------------------------
(* How what was executed grows.                                            *)

\* The part of Executed that the EXIT record follows.
Counted(c) == IF mode = "precise" THEN Traced(c, at[c]) ELSE Delayed(c)

\* The instructions of a program.
LEMMA EventTypes ==
    ASSUME GuestTypes, NEW c \in Cores
    PROVE  /\ prog[c] \in Seq(Events) /\ at[c] \in Nat /\ at[c] <= Len(prog[c]) /\ Len(prog[c]) \in Nat
           /\ \A i \in 1..Len(prog[c]) : prog[c][i] \in Events
           /\ Events \subseteq Records \union {"doorbell"}
<1>1. prog[c] \in Seq(Events) /\ at[c] \in Nat /\ at[c] <= Len(prog[c])
  BY TraceAssumption DEF GuestTypes
<1>2. Events \subseteq Records \union {"doorbell"}
  BY Zenon DEF Events, Records, Compute
<1> QED BY <1>1, <1>2, SMTT(30)

\* The next instruction is traced, unless it writes a doorbell.
LEMMA TracedNext ==
    ASSUME NEW c, NEW n \in Nat
    PROVE  Traced(c, n + 1) = Traced(c, n) \o (IF prog[c][n + 1] = "doorbell" THEN << >> ELSE <<prog[c][n + 1]>>)
<1> DEFINE one(i) == IF prog[c][i] = "doorbell" THEN << >> ELSE <<prog[c][i]>>
           ss == [i \in 1..n |-> one(i)]
           tt == [i \in 1..(n + 1) |-> one(i)]
<1>1. (\A i \in 1..n : tt[i] = ss[i]) /\ tt[n + 1] = one(n + 1)
  BY Zenon, SMT
<1>2. Traced(c, n) = Joined(ss, n) /\ Traced(c, n + 1) = Joined(tt, n + 1)
  BY Zenon DEF Traced
<1> HIDE DEF ss, tt
<1>3. Joined(tt, n + 1) = Joined(tt, n) \o tt[n + 1]
  BY JoinedNext, Zenon
<1>4. Joined(tt, n) = Joined(ss, n)
  BY <1>1, JoinedSame, Zenon
<1> QED BY <1>1, <1>2, <1>3, <1>4, Zenon

\* What was traced is a trace.
LEMMA TracedType ==
    ASSUME GuestTypes, NEW c \in Cores, NEW n \in Nat, n <= Len(prog[c])
    PROVE  Traced(c, n) \in Trace
<1> DEFINE one(i) == IF prog[c][i] = "doorbell" THEN << >> ELSE <<prog[c][i]>>
           ss == [i \in 1..n |-> one(i)]
<1>1. ASSUME NEW i \in 1..n PROVE ss[i] \in Seq(Records)
  <2>1. prog[c][i] \in Records \union {"doorbell"}
    BY EventTypes
  <2>2. one(i) \in Seq(Records)
    BY <2>1, TraceConcat, Zenon DEF Trace
  <2>3. ss[i] = one(i)
    OBVIOUS
  <2> QED BY <2>2, <2>3, Zenon
<1> HIDE DEF ss
<1>2. Joined(ss, n) \in Seq(Records)
  BY <1>1, JoinedType, Zenon
<1> QED BY <1>2, Zenon DEF Traced, ss, Trace

\* The next instruction, without its class.
LEMMA UnclassedNext ==
    ASSUME NEW c, NEW n \in Nat
    PROVE  /\ Unclassed(c, n) \in Trace /\ Unclassed(c, 0) = << >>
           /\ Unclassed(c, n + 1) = Unclassed(c, n) \o <<IF prog[c][n + 1] \in Accesses THEN prog[c][n + 1] ELSE "other">>
<1> DEFINE one(i) == IF prog[c][i] \in Accesses THEN prog[c][i] ELSE "other"
           s == [i \in 1..n |-> one(i)]
           t == [i \in 1..(n + 1) |-> one(i)]
<1>1. \A i : one(i) \in Records
  BY Zenon DEF Records, Compute
<1>2. Unclassed(c, n) = s /\ Unclassed(c, n + 1) = t /\ Unclassed(c, 0) = << >>
  BY DEF Unclassed
<1> HIDE DEF one
<1>3. /\ s \in Seq(Records) /\ t \in Seq(Records) /\ Len(s) = n /\ Len(t) = n + 1
      /\ (\A i \in 1..n : s[i] = t[i]) /\ t[n + 1] = one(n + 1)
  BY <1>1
<1> HIDE DEF s, t
<1>4. t = s \o <<one(n + 1)>>
  BY <1>1, <1>3
<1> QED BY <1>2, <1>3, <1>4, Zenon DEF one, Trace

\* What was counted is a trace.
LEMMA CountedType ==
    ASSUME GuestTypes, NEW c \in Cores
    PROVE  Counted(c) \in Trace
<1>1. Traced(c, at[c]) \in Trace
  BY EventTypes, TracedType, Zenon
<1>2. <<"other">> \in Trace /\ << >> \in Trace /\ at[c] \in Nat
  BY EventTypes, TraceConcat, Zenon DEF Records, Compute
<1>3. \A n \in Nat : <<"other">> \o Unclassed(c, n) \in Trace
  BY <1>2, UnclassedNext, TraceConcat, Zenon
<1>4. at[c] # 0 => at[c] - 1 \in Nat
  BY <1>2
<1>5. Delayed(c) \in Trace
  BY <1>2, <1>3, <1>4, Zenon DEF Delayed
<1> QED BY <1>1, <1>5, Zenon DEF Counted

\* The EXIT record ends the trace.
LEMMA ExecutedParts ==
    ASSUME GuestTypes, NEW c \in Cores
    PROVE  Executed(c) = IF leaving > c THEN Counted(c) \o <<"exit">> ELSE Counted(c)
BY CountedType, TraceConcat, Zenon DEF Executed, Counted

\* While the guest runs no vCPU is past its EXIT record.
LEMMA ExecutedRunning ==
    ASSUME GuestTypes, NEW c \in Cores, leaving = 0
    PROVE  Executed(c) = Counted(c)
<1>1. ~(leaving > c)
  BY Sizes DEF Cores
<1> QED BY <1>1, ExecutedParts, Zenon

\* An instruction executes.
LEMMA CountedStep ==
    ASSUME GuestTypes, NEW c \in Cores, at[c] < Len(prog[c]), called[c] = (mode = "delayed"),
           prog' = prog, mode' = mode, at'[c] = at[c] + 1, called'[c] = FALSE
    PROVE  Counted(c)' = Counted(c) \o
             (IF mode = "precise" THEN IF Insn(c) = "doorbell" THEN << >> ELSE <<Insn(c)>>
              ELSE IF Insn(c) \in Accesses THEN <<Insn(c)>> ELSE << >>)
<1>1. at[c] \in Nat /\ mode \in {"precise", "delayed"} /\ Insn(c) = prog[c][at[c] + 1]
  BY EventTypes, TraceAssumption, Zenon DEF GuestTypes, Insn
<1>2. CASE mode = "precise"
  <2>1. Counted(c) = Traced(c, at[c])
    BY <1>2, Zenon DEF Counted
  <2>2. Counted(c)' = Traced(c, at[c] + 1)
    BY <1>2 DEF Counted, Traced, Joined
  <2> QED BY <1>1, <1>2, <2>1, <2>2, TracedNext, Zenon
<1>3. CASE mode = "delayed"
  <2>1. Counted(c) = <<"other">> \o Unclassed(c, at[c])
    BY <1>3, Zenon DEF Counted, Delayed
  <2>2. Counted(c)' = <<"other">> \o Unclassed(c, IF Insn(c) \in Accesses THEN at[c] + 1 ELSE at[c])
    <3>1. at[c] + 1 # 0 /\ (at[c] + 1) - 1 = at[c]
      BY <1>1, SMTT(40)
    <3>2. Counted(c)' = Delayed(c)'
      BY <1>3, Zenon DEF Counted
    <3>3. Delayed(c)' = <<"other">> \o Unclassed(c, IF prog[c][at[c] + 1] \in Accesses THEN at[c] + 1 ELSE (at[c] + 1) - 1)
      BY <3>1, Zenon DEF Delayed, Unclassed
    <3> QED BY <1>1, <3>1, <3>2, <3>3, Zenon
  <2>3. CASE Insn(c) \in Accesses
    <3>1. Unclassed(c, at[c] + 1) = Unclassed(c, at[c]) \o <<Insn(c)>> /\ Unclassed(c, at[c]) \in Trace
      <4>1. Unclassed(c, at[c] + 1) = Unclassed(c, at[c]) \o <<IF prog[c][at[c] + 1] \in Accesses THEN prog[c][at[c] + 1] ELSE "other">>
        BY <1>1, UnclassedNext, Zenon
      <4> QED BY <1>1, <2>3, <4>1, UnclassedNext, Zenon
    <3>2. <<"other">> \in Trace /\ <<Insn(c)>> \in Trace
      BY <2>3, TraceConcat, Zenon DEF Records, Compute
    <3>3. (<<"other">> \o Unclassed(c, at[c])) \o <<Insn(c)>> = <<"other">> \o (Unclassed(c, at[c]) \o <<Insn(c)>>)
      BY <3>1, <3>2, TraceAssociative, Zenon
    <3> QED BY <1>3, <2>1, <2>2, <2>3, <3>1, <3>3, Zenon
  <2>4. CASE Insn(c) \notin Accesses
    BY <1>3, <2>1, <2>2, <2>4, CountedType, TraceConcat, Zenon
  <2> QED BY <2>3, <2>4, Zenon
<1> QED BY <1>1, <1>2, <1>3, Zenon

\* handle_exec_delayed counts the previous instruction, unless it was an access.
LEMMA CountedCallback ==
    ASSUME GuestTypes, NEW c \in Cores, mode = "delayed", ~called[c], Flags(c),
           prog' = prog, mode' = mode, at'[c] = at[c], called'[c] = TRUE
    PROVE  Counted(c)' = Counted(c) \o (IF seen[c] THEN << >> ELSE <<"other">>)
<1>1. at[c] \in Nat /\ (at[c] # 0 => at[c] - 1 \in Nat /\ (at[c] - 1) + 1 = at[c] /\ at[c] > 0)
  BY EventTypes
<1>2. Counted(c)' = <<"other">> \o Unclassed(c, at[c])
  BY Zenon DEF Counted, Delayed, Unclassed
<1>3. seen[c] = (at[c] > 0 /\ prog[c][at[c]] \in Accesses)
  BY Zenon DEF Flags
<1>4. <<"other">> \in Trace /\ << >> \in Trace
  BY TraceConcat, Zenon DEF Records, Compute
<1>5. CASE at[c] = 0
  <2>1. Counted(c) = << >> /\ ~seen[c]
    <3>1. Counted(c) = << >>
      BY <1>5, Zenon DEF Counted, Delayed
    <3>2. ~(at[c] > 0)
      BY <1>5
    <3> QED BY <1>3, <3>1, <3>2, Zenon
  <2>2. Counted(c)' = <<"other">>
    BY <1>2, <1>4, <1>5, UnclassedNext, TraceConcat, Zenon
  <2> QED BY <1>4, <2>1, <2>2, TraceConcat, Zenon
<1>6. CASE at[c] # 0 /\ prog[c][at[c]] \in Accesses
  <2>1. Counted(c) = <<"other">> \o Unclassed(c, at[c]) /\ seen[c]
    BY <1>1, <1>3, <1>6, Zenon DEF Counted, Delayed
  <2> QED BY <1>2, <2>1, CountedType, TraceConcat, Zenon
<1>7. CASE at[c] # 0 /\ prog[c][at[c]] \notin Accesses
  <2>1. Counted(c) = <<"other">> \o Unclassed(c, at[c] - 1) /\ ~seen[c]
    BY <1>1, <1>3, <1>7, Zenon DEF Counted, Delayed
  <2>2. Unclassed(c, at[c]) = Unclassed(c, at[c] - 1) \o <<"other">> /\ Unclassed(c, at[c] - 1) \in Trace
    <3>1. Unclassed(c, (at[c] - 1) + 1) = Unclassed(c, at[c] - 1) \o <<IF prog[c][(at[c] - 1) + 1] \in Accesses THEN prog[c][(at[c] - 1) + 1] ELSE "other">>
      BY <1>1, <1>7, UnclassedNext, Zenon
    <3> QED BY <1>1, <1>7, <3>1, UnclassedNext, Zenon
  <2>3. (<<"other">> \o Unclassed(c, at[c] - 1)) \o <<"other">> = <<"other">> \o (Unclassed(c, at[c] - 1) \o <<"other">>)
    BY <1>4, <2>2, TraceAssociative, Zenon
  <2> QED BY <1>2, <2>1, <2>2, <2>3, Zenon
<1> QED BY <1>5, <1>6, <1>7, Zenon

-----------------------------------------------------------------------------
StreamInv == \A c \in Cores : Streams(c)

\* Nothing but one vCPU's variables and messages changes.
LEMMA GuestStream ==
    ASSUME TraceInv, TraceInv', StreamInv, NEW c \in Cores, NEW x \in Trace, leaving = 0,
           UNCHANGED <<prog, mode, leaving, ring, pipe>>,
           \A d \in Cores \ {c} : at'[d] = at[d] /\ called'[d] = called[d] /\ out'[d] = out[d] /\ acc'[d] = acc[d],
           Expand(out'[c]) \o Repeat(acc'[c]) = (Expand(out[c]) \o Repeat(acc[c])) \o x,
           Counted(c)' = Counted(c) \o x
    PROVE  StreamInv'
<1>1. ASSUME NEW d \in Cores \ {c} PROVE Streams(d)'
  BY <1>1, StreamKept, Zenon DEF StreamInv
<1>2. Streams(c)'
  <2>1. GuestTypes /\ SstTypes /\ GuestTypes' /\ Streams(c)
    BY Zenon DEF TraceInv, StreamInv
  <2>2. Executed(c) = Counted(c)
    BY <2>1, ExecutedRunning, ZenonT(60)
  <2>3. ~(leaving' > c)
    BY Sizes, SMTT(30) DEF Cores
  <2>4. Executed(c)' = Counted(c)'
    <3>1. Executed(c)' = Counted(c)' \o << >>
      BY <2>3, ZenonT(60) DEF Executed, Counted
    <3>2. Counted(c)' \in Trace
      BY <2>1, <2>2, TraceConcat, CountedType, SMTT(40)
    <3> QED BY <3>1, <3>2, TraceConcat, Zenon
  <2>5. Executed(c)' = Executed(c) \o x
    BY <2>2, <2>4, Zenon
  <2> QED BY <2>1, <2>5, StreamGrows, Zenon
<1> QED BY <1>1, <1>2, Zenon DEF StreamInv

\* A step that executes nothing.
LEMMA CountedSame ==
    ASSUME NEW c \in Cores, prog' = prog, mode' = mode, at'[c] = at[c], called'[c] = called[c], GuestTypes
    PROVE  Counted(c)' = Counted(c) \o << >>
<1>1. Traced(c, at[c])' = Traced(c, at[c])
  BY DEF Traced, Joined
<1>2. Delayed(c)' = Delayed(c)
  BY Zenon DEF Delayed, Unclassed
<1> QED BY <1>1, <1>2, CountedType, TraceConcat, ZenonT(60) DEF Counted

\* Every step of the guest preserves the stream: a flush ...
LEMMA DoorbellFlushStream ==
    ASSUME TraceInv, TraceInv', StreamInv, NEW c \in Cores, DoorbellFlush(c)
    PROVE  StreamInv'
<1>1. /\ leaving = 0 /\ out[c] = << >> /\ UNCHANGED <<prog, mode, leaving, ring, pipe>> /\ at' = at /\ called' = called
      /\ out' = [out EXCEPT ![c] = FlushRun(c)] /\ acc' = [acc EXCEPT ![c].n = 0]
  BY Zenon DEF DoorbellFlush, Ready, Running, InCall, fixed, sst
<1>2. Writes(c)
  BY <1>1, FlushStep, Zenon DEF TraceInv
<1>3. Expand(out'[c]) \o Repeat(acc'[c]) = (Expand(out[c]) \o Repeat(acc[c])) \o << >>
  BY <1>1, FlushAdds, Zenon DEF TraceInv
<1>4. Counted(c)' = Counted(c) \o << >>
  BY <1>1, CountedSame, Zenon DEF TraceInv
<1>5. << >> \in Trace
  BY TraceConcat, Zenon
<1>6. \A d \in Cores \ {c} : at'[d] = at[d] /\ called'[d] = called[d] /\ out'[d] = out[d] /\ acc'[d] = acc[d]
  BY <1>1, <1>2, Zenon DEF Writes
<1> QED BY <1>1, <1>3, <1>4, <1>5, <1>6, GuestStream, ZenonT(60)

\* ... also after the doorbell was answered ...
LEMMA ReplyStream ==
    ASSUME TraceInv, TraceInv', StreamInv, NEW c \in Cores, Reply(c)
    PROVE  StreamInv'
<1>1. /\ bell[c] # "idle" /\ UNCHANGED <<prog, mode, leaving, ring, pipe>> /\ at' = at /\ called' = called
      /\ out' = [out EXCEPT ![c] = FlushRun(c)] /\ acc' = [acc EXCEPT ![c].n = 0]
  BY Zenon DEF Reply, fixed, sst
<1>2. leaving = 0 /\ out[c] = << >>
  BY <1>1, Zenon DEF TraceInv, CoreInv, Blocked
<1>3. Writes(c)
  BY <1>1, FlushStep, Zenon DEF TraceInv
<1>4. Expand(out'[c]) \o Repeat(acc'[c]) = (Expand(out[c]) \o Repeat(acc[c])) \o << >>
  BY <1>1, <1>2, FlushAdds, Zenon DEF TraceInv
<1>5. Counted(c)' = Counted(c) \o << >>
  BY <1>1, CountedSame, ZenonT(60) DEF TraceInv
<1>6. << >> \in Trace
  BY TraceConcat, Zenon
<1>7. \A d \in Cores \ {c} : at'[d] = at[d] /\ called'[d] = called[d] /\ out'[d] = out[d] /\ acc'[d] = acc[d]
  BY <1>1, <1>3, Zenon DEF Writes
<1> QED BY <1>1, <1>2, <1>4, <1>5, <1>6, <1>7, GuestStream, ZenonT(60)

\* Nothing was written, and the open run is as it was.
LEMMA NothingAdds ==
    ASSUME GuestTypes, NEW c \in Cores, out'[c] = out[c], acc'[c] = acc[c]
    PROVE  Expand(out'[c]) \o Repeat(acc'[c]) = (Expand(out[c]) \o Repeat(acc[c])) \o << >>
<1>1. Expand(out[c]) \in Trace /\ Repeat(acc[c]) \in Trace
  <2>1. out[c] \in Seq(Msg) /\ acc[c].ev \in Records /\ acc[c].n \in Nat
    BY FlushIsPlain, Zenon DEF GuestTypes, Records
  <2> QED BY <2>1, ExpandType, RepeatFacts, Zenon
<1>2. Expand(out[c]) \o Repeat(acc[c]) \in Trace
  BY <1>1, TraceConcat, Zenon
<1> QED BY <1>2, TraceConcat, Zenon

\* ... a doorbell write ...
LEMMA DoorbellWriteStream ==
    ASSUME TraceInv, TraceInv', StreamInv, NEW c \in Cores, DoorbellWrite(c)
    PROVE  StreamInv'
<1>1. /\ leaving = 0 /\ UNCHANGED <<prog, mode, leaving, ring, pipe>> /\ out' = out /\ acc' = acc
      /\ at[c] < Len(prog[c]) /\ called[c] = (mode = "delayed") /\ Insn(c) = "doorbell"
      /\ at' = [at EXCEPT ![c] = @ + 1] /\ called' = [called EXCEPT ![c] = FALSE]
  BY Zenon DEF DoorbellWrite, Ready, Running, Step, fixed, sst
<1>2. /\ at'[c] = at[c] + 1 /\ called'[c] = FALSE
      /\ \A d \in Cores \ {c} : at'[d] = at[d] /\ called'[d] = called[d] /\ out'[d] = out[d] /\ acc'[d] = acc[d]
  BY <1>1, Zenon DEF TraceInv, GuestTypes
<1>3. Expand(out'[c]) \o Repeat(acc'[c]) = (Expand(out[c]) \o Repeat(acc[c])) \o << >>
  BY <1>1, NothingAdds, Zenon DEF TraceInv
<1>4. Insn(c) \notin Accesses
  BY <1>1, TraceAssumption, Zenon
<1>5. Counted(c)' = Counted(c) \o << >>
  BY <1>1, <1>2, <1>4, CountedStep, ZenonT(60) DEF TraceInv
<1>6. << >> \in Trace
  BY TraceConcat, Zenon
<1> QED BY <1>1, <1>2, <1>3, <1>5, <1>6, GuestStream, ZenonT(60)

\* ... handle_exec_delayed ...
LEMMA ExecCallbackStream ==
    ASSUME TraceInv, TraceInv', StreamInv, NEW c \in Cores, ExecCallback(c)
    PROVE  StreamInv'
<1>1. /\ leaving = 0 /\ out[c] = << >> /\ UNCHANGED <<prog, mode, leaving, ring, pipe>> /\ at' = at
      /\ mode = "delayed" /\ ~called[c] /\ called' = [called EXCEPT ![c] = TRUE]
      /\ IF seen[c] THEN UNCHANGED <<out, acc>> ELSE Accumulate(c, "other")
  BY Zenon DEF ExecCallback, Running, InCall, fixed, sst
<1>2. called'[c] = TRUE /\ \A d \in Cores \ {c} : called'[d] = called[d]
  BY <1>1, Zenon DEF TraceInv, GuestTypes
<1>3. Counted(c)' = Counted(c) \o (IF seen[c] THEN << >> ELSE <<"other">>)
  BY <1>1, <1>2, CountedCallback, Zenon DEF TraceInv, CoreInv
<1>4. "other" \in Compute /\ << >> \in Trace /\ <<"other">> \in Trace
  BY TraceConcat, Zenon DEF Compute, Records
<1>5. CASE seen[c]
  <2>1. Expand(out'[c]) \o Repeat(acc'[c]) = (Expand(out[c]) \o Repeat(acc[c])) \o << >>
    BY <1>1, <1>5, NothingAdds, Zenon DEF TraceInv
  <2>2. \A d \in Cores \ {c} : at'[d] = at[d] /\ called'[d] = called[d] /\ out'[d] = out[d] /\ acc'[d] = acc[d]
    BY <1>1, <1>2, <1>5, Zenon
  <2>3. Counted(c)' = Counted(c) \o << >>
    BY <1>3, <1>5, Zenon
  <2> QED BY <1>1, <1>4, <2>1, <2>2, <2>3, GuestStream, ZenonT(60)
<1>6. CASE ~seen[c]
  <2>1. Accumulate(c, "other")
    BY <1>1, <1>6, Zenon
  <2>2. Expand(out'[c]) \o Repeat(acc'[c]) = (Expand(out[c]) \o Repeat(acc[c])) \o <<"other">>
    BY <1>1, <1>4, <2>1, AccumulateAdds, Zenon DEF TraceInv
  <2>3. Writes(c)
    BY <1>4, <2>1, AccumulateStep, Zenon DEF TraceInv
  <2>4. \A d \in Cores \ {c} : at'[d] = at[d] /\ called'[d] = called[d] /\ out'[d] = out[d] /\ acc'[d] = acc[d]
    BY <1>1, <1>2, <2>3, Zenon DEF Writes
  <2>5. Counted(c)' = Counted(c) \o <<"other">>
    BY <1>3, <1>6, Zenon
  <2> QED BY <1>1, <1>4, <2>2, <2>4, <2>5, GuestStream, ZenonT(60)
<1> QED BY <1>5, <1>6, Zenon

\* ... and an instruction.
LEMMA ExecuteStream ==
    ASSUME TraceInv, TraceInv', StreamInv, NEW c \in Cores, Execute(c)
    PROVE  StreamInv'
<1>1. /\ leaving = 0 /\ out[c] = << >> /\ UNCHANGED <<prog, mode, leaving, ring, pipe>>
      /\ at[c] < Len(prog[c]) /\ called[c] = (mode = "delayed") /\ Insn(c) # "doorbell"
      /\ at' = [at EXCEPT ![c] = @ + 1] /\ called' = [called EXCEPT ![c] = FALSE]
      /\ IF Insn(c) \in Compute THEN ComputeInsn(c) ELSE MemAccess(c)
  BY Zenon DEF Execute, Ready, Running, InCall, Step, fixed, sst
<1>2. at'[c] = at[c] + 1 /\ called'[c] = FALSE /\ \A d \in Cores \ {c} : at'[d] = at[d] /\ called'[d] = called[d]
  BY <1>1, Zenon DEF TraceInv, GuestTypes
<1>3. /\ Insn(c) \in Events /\ mode \in {"precise", "delayed"} /\ << >> \in Trace
      /\ Accesses \intersect Compute = {}
  <2>1. at[c] + 1 \in 1..Len(prog[c])
    BY <1>1, EventTypes, SMTT(40) DEF TraceInv
  <2> QED BY <2>1, EventTypes, TraceAssumption, TraceConcat, ZenonT(60) DEF Insn, TraceInv, GuestTypes
<1>4. Counted(c)' = Counted(c) \o
         (IF mode = "precise" THEN IF Insn(c) = "doorbell" THEN << >> ELSE <<Insn(c)>>
          ELSE IF Insn(c) \in Accesses THEN <<Insn(c)>> ELSE << >>)
  BY <1>1, <1>2, CountedStep, Zenon DEF TraceInv
<1>5. CASE Insn(c) \in Compute /\ mode = "precise"
  <2>1. Accumulate(c, Insn(c)) /\ <<Insn(c)>> \in Trace
    BY <1>1, <1>5, TraceConcat, Zenon DEF ComputeInsn, Records
  <2>2. Expand(out'[c]) \o Repeat(acc'[c]) = (Expand(out[c]) \o Repeat(acc[c])) \o <<Insn(c)>>
    BY <1>1, <1>5, <2>1, AccumulateAdds, Zenon DEF TraceInv
  <2>3. Writes(c)
    BY <1>5, <2>1, AccumulateStep, Zenon DEF TraceInv
  <2>4. \A d \in Cores \ {c} : at'[d] = at[d] /\ called'[d] = called[d] /\ out'[d] = out[d] /\ acc'[d] = acc[d]
    BY <1>2, <2>3, Zenon DEF Writes
  <2>5. Counted(c)' = Counted(c) \o <<Insn(c)>>
    BY <1>1, <1>4, <1>5, Zenon
  <2> QED BY <1>1, <2>1, <2>2, <2>4, <2>5, GuestStream, ZenonT(60)
<1>6. CASE Insn(c) \in Compute /\ mode = "delayed"
  <2>1. UNCHANGED <<out, acc>> /\ Insn(c) \notin Accesses
    BY <1>1, <1>3, <1>6, Zenon DEF ComputeInsn
  <2>2. Expand(out'[c]) \o Repeat(acc'[c]) = (Expand(out[c]) \o Repeat(acc[c])) \o << >>
    BY <2>1, NothingAdds, Zenon DEF TraceInv
  <2>3. \A d \in Cores \ {c} : at'[d] = at[d] /\ called'[d] = called[d] /\ out'[d] = out[d] /\ acc'[d] = acc[d]
    BY <1>2, <2>1, Zenon
  <2>4. Counted(c)' = Counted(c) \o << >>
    BY <1>4, <1>6, <2>1, Zenon
  <2> QED BY <1>1, <1>3, <2>2, <2>3, <2>4, GuestStream, ZenonT(60)
<1>7. CASE Insn(c) \notin Compute
  <2>1. MemAccess(c) /\ Insn(c) \in Accesses /\ Insn(c) \in Records \ Compute
    BY <1>1, <1>3, <1>7, Zenon DEF Events, Compute, Records
  <2>2. out'[c] = FlushRun(c) \o <<Message(Insn(c), 1)>> /\ acc' = [acc EXCEPT ![c].n = 0]
    BY <2>1, Zenon DEF MemAccess, TraceInv, GuestTypes
  <2>3. Expand(out'[c]) \o Repeat(acc'[c]) = (Expand(out[c]) \o Repeat(acc[c])) \o <<Insn(c)>>
    BY <1>1, <2>1, <2>2, FlushAndOne, ZenonT(60) DEF TraceInv
  <2>4. Writes(c)
    BY <2>1, MemAccessStep, ZenonT(60) DEF TraceInv
  <2>5. \A d \in Cores \ {c} : at'[d] = at[d] /\ called'[d] = called[d] /\ out'[d] = out[d] /\ acc'[d] = acc[d]
    BY <1>2, <2>4, Zenon DEF Writes
  <2>6. Counted(c)' = Counted(c) \o <<Insn(c)>>
    BY <1>1, <1>4, <2>1, Zenon
  <2>7. <<Insn(c)>> \in Trace
    BY <2>1, TraceConcat, Zenon
  <2> QED BY <1>1, <2>3, <2>5, <2>6, <2>7, GuestStream, ZenonT(60)
<1> QED BY <1>3, <1>5, <1>6, <1>7, Zenon

-----------------------------------------------------------------------------

\* TunnelDef::writeMessage moves a message from the callback to the ring.
LEMMA WriteMessageStream ==
    ASSUME TraceInv, TraceInv', StreamInv, NEW c \in Cores, WriteMessage(c)
    PROVE  StreamInv'
<1> DEFINE m == Head(out[c])
           a == Pipelined(pipe[c])
           r == Expand(ring[c])
           t == Expand(Tail(out[c]))
           e == Repeat(acc[c])
<1>1. /\ UNCHANGED <<prog, mode, at, called, leaving, pipe, acc>> /\ out[c] # << >>
      /\ ring' = [ring EXCEPT ![c] = Append(@, Head(out[c]))] /\ out' = [out EXCEPT ![c] = Tail(@)]
  BY Zenon DEF WriteMessage, fixed, sst
<1>2. /\ ring'[c] = Append(ring[c], m) /\ out'[c] = Tail(out[c])
      /\ \A d \in Cores \ {c} : ring'[d] = ring[d] /\ out'[d] = out[d]
  BY <1>1, Zenon DEF TraceInv, GuestTypes
<1>3. ASSUME NEW d \in Cores \ {c} PROVE Streams(d)'
  BY <1>1, <1>2, <1>3, StreamKept, Zenon DEF StreamInv
<1>4. Streams(c)'
  <2>1. /\ a \in Trace /\ r \in Trace /\ e \in Trace /\ ring[c] \in Seq(Msg) /\ out[c] \in Seq(Msg)
    BY PartsType, Zenon DEF TraceInv
  <2>2. m \in Msg /\ Tail(out[c]) \in Seq(Msg)
    BY <1>1, <2>1, HeadTail, Zenon
  <2>3. t \in Trace /\ Repeat(m) \in Trace
    BY <2>2, ExpandType, MessageEvents, Zenon
  <2>4. Expand(out[c]) = Repeat(m) \o t /\ Expand(ring'[c]) = r \o Repeat(m) /\ Expand(out'[c]) = t
    BY <1>1, <1>2, <2>1, <2>2, ExpandHead, ExpandAppend, ZenonT(60)
  <2>5. InFlight(c) = ((a \o r) \o Expand(out[c])) \o e
    BY InFlightParts, Zenon
  <2>6. InFlight(c)' = ((a \o Expand(ring'[c])) \o Expand(out'[c])) \o e
    <3>1. InFlight(c)' = Pipelined(pipe'[c]) \o Expand(ring'[c]) \o Expand(out'[c]) \o Repeat(acc'[c])
      BY Zenon DEF InFlight, Pipelined, Staging, Repeat, Expand, Joined
    <3> QED BY <1>1, <3>1, Zenon
  <2> HIDE DEF a, r, t, e, m
  <2>7. a \o (r \o Repeat(m)) = (a \o r) \o Repeat(m) /\ a \o r \in Trace
    BY <2>1, <2>3, TraceAssociative, TraceConcat, ZenonT(60)
  <2>8. ((a \o r) \o Repeat(m)) \o t = (a \o r) \o (Repeat(m) \o t)
    BY <2>3, <2>7, TraceAssociative, Zenon
  <2>9. InFlight(c)' = InFlight(c)
    BY <2>4, <2>5, <2>6, <2>7, <2>8, Zenon
  <2> QED BY <1>1, <2>9, ExecutedSame, Zenon DEF Streams, StreamInv
<1> QED BY <1>3, <1>4, Zenon DEF StreamInv

\* The guest exits.
LEMMA GuestExitStream ==
    ASSUME TraceInv, StreamInv, GuestExit
    PROVE  StreamInv'
<1>1. /\ leaving = 0 /\ leaving' = 1
      /\ UNCHANGED <<prog, mode, at, called, acc, out, ring, pipe>>
  BY Zenon DEF GuestExit, fixed, sst
<1>2. ASSUME NEW d \in Cores PROVE Streams(d)'
  <2>1. (leaving' > d) = (leaving > d)
    BY <1>1, Sizes, SMTT(30) DEF Cores
  <2> QED BY <1>1, <2>1, StreamKept, Zenon DEF StreamInv
<1> QED BY <1>2, Zenon DEF StreamInv

\* cb_atexit adds the EXIT record.
LEMMA AtExitStream ==
    ASSUME TraceInv, TraceInv', StreamInv, AtExit
    PROVE  StreamInv'
<1>1. /\ leaving \in Cores /\ leaving' = leaving + 1 /\ \A c \in Cores : out[c] = << >>
      /\ out' = [out EXCEPT ![leaving] = AtExitMessages(leaving)] /\ acc' = [acc EXCEPT ![leaving].n = 0]
      /\ UNCHANGED <<prog, mode, at, called, ring, pipe>>
  BY Zenon DEF AtExit, fixed, sst
<1>2. leaving \in Nat /\ \A d \in Cores \ {leaving} : (leaving' > d) = (leaving > d)
  BY <1>1, Sizes, SMTT(30) DEF Cores
<1>3. ASSUME NEW d \in Cores \ {leaving} PROVE Streams(d)'
  <2>1. out'[d] = out[d] /\ acc'[d] = acc[d]
    BY <1>1, <1>3, Zenon DEF TraceInv, GuestTypes
  <2> QED BY <1>1, <1>2, <1>3, <2>1, StreamKept, ZenonT(60) DEF StreamInv
<1>4. ASSUME NEW c \in Cores, c = leaving PROVE Streams(c)'
  <2>1. "exit" \in Records \ Compute /\ <<"exit">> \in Trace
    BY TraceConcat, Zenon DEF Records, Compute
  <2>2. out'[c] = FlushRun(c) \o <<Message("exit", 1)>> /\ acc' = [acc EXCEPT ![c].n = 0]
    BY <1>1, <1>4, Zenon DEF AtExitMessages, TraceInv, GuestTypes
  <2>3. Expand(out'[c]) \o Repeat(acc'[c]) = (Expand(out[c]) \o Repeat(acc[c])) \o <<"exit">>
    BY <1>1, <2>1, <2>2, FlushAndOne, Zenon DEF TraceInv
  <2>4. ~(leaving > c) /\ leaving' > c
    BY <1>1, <1>2, <1>4, SMTT(30)
  <2>5. Executed(c) = Counted(c)
    BY <2>4, ExecutedParts, Zenon DEF TraceInv
  <2>6. Executed(c)' = Counted(c) \o <<"exit">>
    <3>1. Counted(c)' = Counted(c) \o << >>
      BY <1>1, CountedSame, Zenon DEF TraceInv
    <3>2. Counted(c)' = Counted(c)
      BY <3>1, CountedType, TraceConcat, Zenon DEF TraceInv
    <3> QED BY <2>4, <3>2, Zenon DEF Executed, Counted
  <2> QED BY <1>1, <2>1, <2>3, <2>5, <2>6, StreamGrows, ZenonT(60) DEF TraceInv, StreamInv
<1> QED BY <1>3, <1>4, Zenon DEF StreamInv

\* The guest and the rings rest, and core c's pipeline keeps its events in order.
LEMMA PipeStream ==
    ASSUME TraceInv, StreamInv, NEW c \in Cores, UNCHANGED <<prog, mode, at, called, leaving, acc, out, ring>>,
           Others(c), Pipelined(pipe'[c]) = Pipelined(pipe[c])
    PROVE  StreamInv'
<1>1. ASSUME NEW d \in Cores PROVE Pipelined(pipe'[d]) = Pipelined(pipe[d])
  BY Zenon DEF Others
<1>2. ASSUME NEW d \in Cores PROVE Streams(d)'
  BY <1>1, StreamKept, Zenon DEF StreamInv
<1> QED BY <1>2, Zenon DEF StreamInv

\* issueMemOp, the filter and the transform consume the head or leave it.
LEMMA MovesStream ==
    ASSUME TraceInv, StreamInv, NEW c \in Cores, UNCHANGED <<prog, mode, at, called, leaving, acc, out, ring>>,
           Moves(c)
    PROVE  StreamInv'
<1>1. pipe[c] \in Pipes /\ pipe'[c] \in Pipes /\ pipe[c].q # << >> /\ pipe'[c].run = pipe[c].run /\ Others(c)
  BY Zenon DEF TraceInv, SstTypes, Moves
<1>2. pipe'[c].done \o Staging(pipe'[c]) = pipe[c].done \o Staging(pipe[c])
  <2>1. CASE Keeps(c)
    BY <1>1, <2>1, StagingSame, Zenon DEF Keeps
  <2>2. CASE Pops(c)
    BY <1>1, <2>2, StagingPop, Zenon DEF Pops
  <2> QED BY <2>1, <2>2, Zenon DEF Moves
<1>3. Pipelined(pipe'[c]) = Pipelined(pipe[c])
  BY <1>1, <1>2, Zenon DEF Pipelined
<1> QED BY <1>1, <1>3, PipeStream, Zenon

\* drainRun moves instructions from the run to the queue.
LEMMA DrainRunStream ==
    ASSUME TraceInv, TraceInv', StreamInv, NEW c \in Cores, DrainRun(c)
    PROVE  StreamInv'
<1> DEFINE p == pipe[c]
           x == pipe'[c]
<1>1. UNCHANGED <<prog, mode, at, called, leaving, acc, out, ring>>
  BY Zenon DEF DrainRun, guest, fixed
<1>2. PICK k \in Nat : /\ k <= p.run.n
                       /\ x.q = p.q \o [i \in 1..k |-> Staged(p.run.ev)]
                       /\ x.run = [ev |-> p.run.ev, n |-> p.run.n - k]
  BY DrainRunStep, Zenon DEF TraceInv
<1>3. p \in Pipes /\ x \in Pipes /\ x.done = p.done /\ Others(c)
  BY DrainRunStep, Zenon DEF TraceInv, SstTypes, Refills
<1>4. p.run.ev \in Records /\ p.run.n \in Nat /\ p.run = Message(p.run.ev, p.run.n)
  <2>1. p.run \in Run
    BY <1>3, Zenon DEF Pipes, PipeRecord
  <2> QED BY <2>1, Zenon DEF Run, Records, Message
<1> DEFINE e == p.run.ev
           n == p.run.n - k
           v == [i \in 1..k |-> e]
<1>5. n \in Nat /\ k + n = p.run.n /\ x.run = Message(e, n)
  BY <1>2, <1>4, SMTT(40) DEF Message
<1>6. Staging(x) = Staging(p) \o v
  BY <1>2, <1>3, <1>4, StagingPush, ZenonT(60)
<1>7. v \o Repeat(x.run) = Repeat(p.run)
  <2>1. v \o Repeat(Message(e, n)) = Repeat(Message(e, k + n))
    BY <1>4, <1>5, RepeatCut, ZenonT(60)
  <2> QED BY <1>4, <1>5, <2>1, Zenon
<1>8. p.done \in Trace /\ Staging(p) \in Trace /\ v \in Trace /\ Repeat(x.run) \in Trace
  BY <1>3, <1>4, PipelinedType, SMTT(40) DEF Trace
<1>9. p.done \o Staging(p) \in Trace
  BY <1>8, TraceConcat, Zenon
<1> HIDE DEF v
<1>10. p.done \o (Staging(p) \o v) = (p.done \o Staging(p)) \o v
  BY <1>8, TraceAssociative, ZenonT(60)
<1>11. ((p.done \o Staging(p)) \o v) \o Repeat(x.run) = (p.done \o Staging(p)) \o (v \o Repeat(x.run))
  BY <1>8, <1>9, TraceAssociative, ZenonT(60)
<1>12. Pipelined(x) = Pipelined(p)
  BY <1>3, <1>6, <1>7, <1>10, <1>11, ZenonT(60) DEF Pipelined
<1> QED BY <1>1, <1>3, <1>12, PipeStream, Zenon

-----------------------------------------------------------------------------

\* readCommandNB takes a message off the ring: a run to expand, or an event.
LEMMA ReadCommandStream ==
    ASSUME TraceInv, TraceInv', StreamInv, NEW c \in Cores, ReadCommand(c)
    PROVE  StreamInv'
<1> DEFINE p == pipe[c]
           x == pipe'[c]
           m == Head(ring[c])
           t == Expand(Tail(ring[c]))
           o == Expand(out[c])
           r == Repeat(acc[c])
<1>1. UNCHANGED <<prog, mode, at, called, leaving, acc, out>> /\ p.run.n = 0
  BY Zenon DEF ReadCommand, guest, fixed
<1>2. /\ Refills(c) /\ ring[c] # << >> /\ m \in Msg /\ ring'[c] = Tail(ring[c])
      /\ \A d \in Cores \ {c} : ring'[d] = ring[d]
      /\ m.ev \in Compute => x.q = p.q /\ x.run = m
      /\ m.ev \notin Compute => x.q = Append(p.q, Staged(m.ev)) /\ x.run = p.run
  BY ReadCommandStep, Zenon DEF TraceInv
<1>3. p \in Pipes /\ x \in Pipes /\ x.done = p.done /\ Others(c)
  BY <1>2, Zenon DEF TraceInv, SstTypes, Refills
<1>4. ASSUME NEW d \in Cores \ {c} PROVE Streams(d)'
  <2>1. pipe'[d] = pipe[d]
    BY <1>3, Zenon DEF Others
  <2> QED BY <1>1, <1>2, <1>4, <2>1, StreamKept, ZenonT(60) DEF StreamInv
<1>5. /\ p.done \in Trace /\ Staging(p) \in Trace /\ Repeat(p.run) = << >> /\ Repeat(m) \in Trace
      /\ p.done \o Staging(p) \in Trace
  <2>1. p.run.ev \in Records /\ p.run.n \in Nat
    BY <1>3, Zenon DEF Pipes, PipeRecord, Run, Records
  <2> QED BY <1>1, <1>2, <1>3, <2>1, PipelinedType, MessageEvents, RepeatFacts, TraceConcat, ZenonT(60)
<1>6. Pipelined(p) = p.done \o Staging(p)
  BY <1>5, TraceConcat, Zenon DEF Pipelined
<1>7. Pipelined(x) = Pipelined(p) \o Repeat(m)
  <2>1. CASE m.ev \in Compute
    <3>1. x.q = p.q /\ x.run = m
      BY <1>2, <2>1, Zenon
    <3>2. Staging(x) = Staging(p)
      BY <3>1, ZenonT(60) DEF Staging
    <3> QED BY <1>3, <1>6, <3>1, <3>2, Zenon DEF Pipelined
  <2>2. CASE m.ev \notin Compute
    <3>1. x.q = Append(p.q, Staged(m.ev)) /\ x.run = p.run /\ m.n = 1 /\ m.ev \in Records
      BY <1>2, <2>2, MessageType, Zenon
    <3>2. x.q = p.q \o [i \in 1..1 |-> Staged(m.ev)]
      <4>1. p.q \in Seq(Entry) /\ Staged(m.ev) \in Entry
        BY <1>3, <3>1, StagedType, Zenon DEF Pipes, PipeRecord
      <4>2. [i \in 1..1 |-> Staged(m.ev)] = <<Staged(m.ev)>>
        OBVIOUS
      <4> QED BY <3>1, <4>1, <4>2, SMTT(40)
    <3>3. Staging(x) = Staging(p) \o Repeat(m)
      <4>1. Staging(x) = Staging(p) \o [i \in 1..1 |-> m.ev]
        BY <1>3, <3>1, <3>2, StagingPush, ZenonT(60)
      <4>2. Repeat(m) = [i \in 1..1 |-> m.ev]
        BY <3>1, Zenon DEF Repeat
      <4> QED BY <4>1, <4>2, Zenon
    <3>4. p.done \o (Staging(p) \o Repeat(m)) = (p.done \o Staging(p)) \o Repeat(m)
      BY <1>5, TraceAssociative, ZenonT(60)
    <3>5. (p.done \o Staging(p)) \o Repeat(m) \in Trace
      BY <1>5, TraceConcat, Zenon
    <3> QED BY <1>3, <1>5, <1>6, <3>1, <3>3, <3>4, <3>5, TraceConcat, ZenonT(60) DEF Pipelined
  <2> QED BY <2>1, <2>2, Zenon
<1>8. Streams(c)'
  <2>1. Pipelined(p) \in Trace /\ o \in Trace /\ r \in Trace /\ ring[c] \in Seq(Msg)
    BY PartsType, Zenon DEF TraceInv
  <2>2. Tail(ring[c]) \in Seq(Msg)
    BY <1>2, <2>1, HeadTail, Zenon
  <2>3. t \in Trace /\ Expand(ring[c]) = Repeat(m) \o t
    BY <1>2, <2>1, <2>2, ExpandType, ExpandHead, ZenonT(60)
  <2>4. InFlight(c) = ((Pipelined(p) \o Expand(ring[c])) \o o) \o r
    BY InFlightParts, Zenon
  <2>5. InFlight(c)' = ((Pipelined(x) \o t) \o o) \o r
    <3>1. InFlight(c)' = Pipelined(pipe'[c]) \o Expand(ring'[c]) \o Expand(out'[c]) \o Repeat(acc'[c])
      BY Zenon DEF InFlight, Pipelined, Staging, Repeat, Expand, Joined
    <3> QED BY <1>1, <1>2, <3>1, ZenonT(60)
  <2> HIDE DEF p, x, m, t, o, r
  <2>6. (Pipelined(p) \o Repeat(m)) \o t = Pipelined(p) \o (Repeat(m) \o t)
    <3>1. Pipelined(p) \in Trace /\ Repeat(m) \in Trace /\ t \in Trace
      BY <1>5, <2>1, <2>3, Zenon
    <3> QED BY <3>1, TraceAssociative, Zenon
  <2>7. InFlight(c)' = InFlight(c)
    BY <1>7, <2>3, <2>4, <2>5, <2>6, ZenonT(60)
  <2> QED BY <1>1, <2>7, ExecutedSame, ZenonT(60) DEF Streams, StreamInv
<1> QED BY <1>4, <1>8, Zenon DEF StreamInv

\* The other steps of a core leave its events alone.
LEMMA RefillStopsStream ==
    ASSUME TraceInv, StreamInv, NEW c \in Cores, RefillStops(c) \/ Response(c)
    PROVE  StreamInv'
<1>1. UNCHANGED <<prog, mode, at, called, leaving, acc, out, ring>>
  BY Zenon DEF RefillStops, Response, guest, fixed
<1>2. Others(c) /\ pipe'[c].q = pipe[c].q /\ pipe'[c].run = pipe[c].run /\ pipe'[c].done = pipe[c].done
  BY RefillStopsStep, ResponseStep, Zenon DEF TraceInv, Refills
<1>3. Pipelined(pipe'[c]) = Pipelined(pipe[c])
  BY <1>2, Zenon DEF Pipelined, Staging
<1> QED BY <1>1, <1>2, <1>3, PipeStream, Zenon

\* A core issues, consumes or halts.
LEMMA IssueStream ==
    ASSUME TraceInv, StreamInv, NEW c \in Cores, IssueMemOp(c) \/ Dispatch(c)
    PROVE  StreamInv'
<1>1. UNCHANGED <<prog, mode, at, called, leaving, acc, out, ring>>
  BY Zenon DEF IssueMemOp, Dispatch, guest, fixed
<1>2. Moves(c)
  BY IssueMemOpStep, DispatchStep, Zenon DEF TraceInv
<1> QED BY <1>1, <1>2, MovesStream, Zenon

\* The launcher and the rest of the tick do not touch the trace.
LEMMA OtherStream ==
    ASSUME StreamInv, UNCHANGED <<prog, mode, at, called, leaving, acc, out, ring, pipe>>
    PROVE  StreamInv'
<1>1. ASSUME NEW d \in Cores PROVE Streams(d)'
  BY StreamKept, Zenon DEF StreamInv
<1> QED BY <1>1, Zenon DEF StreamInv

\* Every step preserves the stream.
LEMMA StreamStep == TraceInv /\ TraceInv' /\ StreamInv /\ [Next]_vars => StreamInv'
<1> SUFFICES ASSUME TraceInv, TraceInv', StreamInv, [Next]_vars PROVE StreamInv'
  OBVIOUS
<1>1. ASSUME NEW c \in Cores, Guest(c) PROVE StreamInv'
  BY <1>1, ExecCallbackStream, ExecuteStream, DoorbellFlushStream, DoorbellWriteStream, WriteMessageStream, ZenonT(60) DEF Guest
<1>2. ASSUME NEW c \in Cores, SkipHalted(c) \/ QueueEmpty(c) PROVE StreamInv'
  BY <1>2, OtherStream, Zenon DEF SkipHalted, QueueEmpty, guest, fixed
<1>3. ASSUME NEW c \in Cores, Tick(c) PROVE StreamInv'
  BY <1>2, <1>3, DrainRunStream, ReadCommandStream, RefillStopsStream, IssueStream, ZenonT(60) DEF Tick
<1>4. ASSUME NEW c \in Cores, Response(c) \/ Reply(c) \/ Retire(c) PROVE StreamInv'
  <2>1. CASE Retire(c)
    BY <2>1, OtherStream, Zenon DEF Retire, guest, fixed
  <2> QED BY <1>4, <2>1, RefillStopsStream, ReplyStream, Zenon
<1>5. CASE GuestExit \/ AtExit
  BY <1>5, GuestExitStream, AtExitStream, Zenon
<1>6. CASE TickStart \/ TickEnd
  BY <1>6, OtherStream, Zenon DEF TickStart, TickEnd, fixed
<1>7. CASE Vanish \/ Attach \/ DieEarly \/ Fail \/ ProcessExit
  BY <1>7, OtherStream, Zenon DEF Vanish, Attach, DieEarly, Fail, ProcessExit, fixed, sst
<1>8. CASE Spawn \/ CheckAttached \/ CheckStarting \/ Terminate \/ EmergencyShutdown
  BY <1>8, OtherStream, Zenon DEF Spawn, CheckAttached, CheckStarting, Terminate, EmergencyShutdown, fixed, guest
<1>9. CASE UNCHANGED vars
  BY <1>9, OtherStream, Zenon DEF vars, guest, sst, fixed
<1> QED BY <1>1, <1>3, <1>4, <1>5, <1>6, <1>7, <1>8, <1>9, ZenonT(60) DEF Next

\* Initially nothing was executed and nothing is in flight.
LEMMA StreamInit == Init => StreamInv
<1> SUFFICES ASSUME Init, NEW c \in Cores PROVE Streams(c)
  BY Zenon DEF StreamInv
<1>1. /\ pipe[c].done = << >> /\ pipe[c].q = << >> /\ pipe[c].run = Message("int", 0) /\ acc[c] = Message("int", 0)
      /\ ring[c] = << >> /\ out[c] = << >> /\ at[c] = 0 /\ called[c] = FALSE /\ leaving = 0
  BY Zenon DEF Init
<1>2. Staging(pipe[c]) = << >>
  BY <1>1, SMTT(30) DEF Staging
<1>3. Repeat(pipe[c].run) = << >> /\ Repeat(acc[c]) = << >>
  BY <1>1, EmptyRun, Zenon DEF Compute
<1>4. << >> \o << >> = << >>
  OBVIOUS
<1>5. InFlight(c) = << >>
  BY <1>1, <1>2, <1>3, <1>4, ExpandEmpty, ZenonT(60) DEF InFlight
<1>6. ~(leaving > c)
  BY <1>1, Sizes, SMTT(30) DEF Cores
<1>7. Traced(c, 0) = << >>
  BY JoinedZero, Zenon DEF Traced
<1>8. Delayed(c) = << >>
  BY <1>1, Zenon DEF Delayed
<1> QED BY <1>1, <1>4, <1>5, <1>6, <1>7, <1>8, ZenonT(60) DEF Streams, Executed

\* The stream is invariant.
LEMMA StreamInvariant == Spec => []StreamInv
<1> QED BY StreamInit, StreamStep, TraceInvariant, PTL DEF Spec

\* Coalescing is invisible: however the guest's threads, the ring and the
\* rate-limited pipeline interleave, what a core has consumed followed by what is
\* in flight is what its vCPU executed, in order (flush_run, accumulate_compute,
\* handle_exec_delayed, refill, drainRun).
THEOREM NothingLostOrReordered == Spec => []Stream
<1>1. StreamInv => Stream
  BY Zenon DEF StreamInv, Stream, Streams, InFlight
<1> QED BY <1>1, StreamInvariant, PTL

-----------------------------------------------------------------------------
(* PacketFirst: the accesses of a trace.                                   *)

Picked(e) == IF Forwarded(e) THEN <<e>> ELSE << >>
AllMems(s) == Mems(s, Len(s))

\* Only an access reaches memory.
LEMMA PickedType ==
    /\ \A e : Picked(e) \in Trace
    /\ \A e : e \notin Accesses => Picked(e) = << >>
<1>1. ASSUME NEW e PROVE Picked(e) \in Trace
  <2>1. CASE Forwarded(e)
    <3>1. e \in Records
      BY <2>1, Zenon DEF Forwarded, Records
    <3> QED BY <2>1, <3>1, TraceConcat, Zenon DEF Picked
  <2>2. CASE ~Forwarded(e)
    BY <2>2, TraceConcat, Zenon DEF Picked
  <2> QED BY <2>1, <2>2, Zenon
<1>2. ASSUME NEW e, e \notin Accesses PROVE Picked(e) = << >>
  BY <1>2, Zenon DEF Picked, Forwarded
<1> QED BY <1>1, <1>2, Zenon

\* Mems joins what is picked.
LEMMA MemsPicked ==
    ASSUME NEW s, NEW n PROVE Mems(s, n) = Joined([i \in 1..n |-> Picked(s[i])], n)
BY Zenon DEF Mems, Picked

\* The accesses of a trace are a trace.
LEMMA MemsType ==
    ASSUME NEW s, NEW n \in Nat PROVE Mems(s, n) \in Trace
<1> DEFINE ss == [i \in 1..n |-> Picked(s[i])]
<1>1. \A i \in 1..n : ss[i] = Picked(s[i])
  OBVIOUS
<1>2. \A i \in 1..n : ss[i] \in Seq(Records)
  BY <1>1, PickedType, Zenon DEF Trace
<1> HIDE DEF ss
<1>3. Joined(ss, n) \in Seq(Records)
  BY <1>2, JoinedType, Zenon
<1> QED BY <1>3, MemsPicked, Zenon DEF ss, Trace

\* Nothing has no accesses.
LEMMA MemsZero == ASSUME NEW s PROVE Mems(s, 0) = << >>
BY JoinedZero, Zenon DEF Mems

\* Equal events have equal accesses.
LEMMA MemsSame ==
    ASSUME NEW s, NEW t, NEW n \in Nat, \A i \in 1..n : s[i] = t[i]
    PROVE  Mems(s, n) = Mems(t, n)
<1>1. [i \in 1..n |-> Picked(s[i])] = [i \in 1..n |-> Picked(t[i])]
  OBVIOUS
<1> QED BY <1>1, MemsPicked, Zenon

\* The next event adds itself, if it reaches memory.
LEMMA MemsNext ==
    ASSUME NEW s, NEW n \in Nat PROVE Mems(s, n + 1) = Mems(s, n) \o Picked(s[n + 1])
<1> DEFINE ss == [i \in 1..n |-> Picked(s[i])]
           tt == [i \in 1..(n + 1) |-> Picked(s[i])]
<1>1. (\A i \in 1..n : tt[i] = ss[i]) /\ tt[n + 1] = Picked(s[n + 1])
  OBVIOUS
<1>2. Mems(s, n) = Joined(ss, n) /\ Mems(s, n + 1) = Joined(tt, n + 1)
  BY MemsPicked, Zenon
<1> HIDE DEF ss, tt
<1>3. Joined(tt, n + 1) = Joined(tt, n) \o tt[n + 1]
  BY JoinedNext, Zenon
<1>4. Joined(tt, n) = Joined(ss, n)
  BY <1>1, JoinedSame, Zenon
<1> QED BY <1>1, <1>2, <1>3, <1>4, Zenon

\* One more event adds itself, if it reaches memory.
LEMMA MemsAppend ==
    ASSUME NEW s \in Trace, NEW e \in Records
    PROVE  AllMems(s \o <<e>>) = AllMems(s) \o Picked(e)
<1> DEFINE t == s \o <<e>>
           n == Len(s)
<1>1. n \in Nat /\ Len(t) = n + 1 /\ t[n + 1] = e /\ \A i \in 1..n : t[i] = s[i]
  BY DEF Trace
<1> HIDE DEF t, n
<1>2. Mems(t, n + 1) = Mems(t, n) \o Picked(t[n + 1])
  BY <1>1, MemsNext, Zenon
<1>3. Mems(t, n) = Mems(s, n)
  BY <1>1, MemsSame, Zenon
<1>4. AllMems(t) = AllMems(s) \o Picked(e)
  BY <1>1, <1>2, <1>3, Zenon DEF AllMems, n
<1> QED BY <1>4, Zenon DEF t

\* An empty trace has no accesses.
LEMMA MemsEmpty == AllMems(<< >>) = << >>
<1>1. Len(<< >>) = 0
  OBVIOUS
<1> QED BY <1>1, MemsZero, Zenon DEF AllMems

\* All accesses of a trace are a trace.
LEMMA MemsAllType == ASSUME NEW s \in Trace PROVE AllMems(s) \in Trace
<1>1. Len(s) \in Nat
  BY DEF Trace
<1> QED BY <1>1, MemsType, Zenon DEF AllMems

\* A run of compute instructions reaches no memory.
LEMMA RunMems ==
    ASSUME NEW s \in Trace, NEW e \in Compute, NEW n \in Nat
    PROVE  AllMems(s \o Repeat(Message(e, n))) = AllMems(s)
<1> DEFINE r(k) == Repeat(Message(e, k))
           A == {k \in Nat : AllMems(s \o r(k)) = AllMems(s)}
<1>1. e \in Records /\ e \notin Accesses /\ AllMems(s) \in Trace
  BY TraceAssumption, MemsAllType, Zenon DEF Records
<1>2. 0 \in A
  <2>1. s \o r(0) = s
    BY EmptyRun, TraceConcat, Zenon
  <2> QED BY <2>1, Zenon
<1>3. ASSUME NEW k \in Nat, k \in A PROVE k + 1 \in A
  <2>1. r(k + 1) = r(k) \o <<e>>
    BY <1>1, RepeatMore, Zenon
  <2>2. r(k) \in Trace /\ <<e>> \in Trace
    BY <1>1, RepeatFacts, TraceConcat, ZenonT(60) DEF Message
  <2>3. s \o (r(k) \o <<e>>) = (s \o r(k)) \o <<e>> /\ s \o r(k) \in Trace
    BY <2>2, TraceAssociative, TraceConcat, Zenon
  <2>4. AllMems((s \o r(k)) \o <<e>>) = AllMems(s \o r(k)) \o Picked(e)
    BY <1>1, <2>3, MemsAppend, Zenon
  <2>5. AllMems(s \o r(k + 1)) = AllMems(s)
    <3>1. Picked(e) = << >> /\ AllMems(s) \o << >> = AllMems(s)
      BY <1>1, PickedType, TraceConcat, Zenon
    <3>2. AllMems(s \o r(k)) = AllMems(s)
      BY <1>3, Zenon
    <3>3. s \o r(k + 1) = (s \o r(k)) \o <<e>>
      BY <2>1, <2>3, Zenon
    <3> HIDE DEF r
    <3> QED BY <2>4, <3>1, <3>2, <3>3, ZenonT(60)
  <2> QED BY <2>5, SMTT(30)
<1> HIDE DEF A
<1>4. n \in A
  BY <1>2, <1>3, AllNumbers, Zenon
<1> QED BY <1>4, Zenon DEF A

\* The accesses of the trace are those of the program: with classes ...
LEMMA TracedMems ==
    ASSUME GuestTypes, NEW c \in Cores, NEW n \in Nat, n <= Len(prog[c])
    PROVE  AllMems(Traced(c, n)) = Mems(prog[c], n)
<1> DEFINE A == {k \in Nat : k <= Len(prog[c]) => AllMems(Traced(c, k)) = Mems(prog[c], k)}
<1>1. 0 \in A
  <2>1. Traced(c, 0) = << >>
    BY JoinedZero, Zenon DEF Traced
  <2> QED BY <2>1, MemsEmpty, MemsZero, Zenon
<1>2. ASSUME NEW k \in Nat, k \in A PROVE k + 1 \in A
  <2> SUFFICES ASSUME k + 1 <= Len(prog[c]) PROVE AllMems(Traced(c, k + 1)) = Mems(prog[c], k + 1)
    OBVIOUS
  <2> DEFINE e == prog[c][k + 1]
  <2>1. k <= Len(prog[c]) /\ k + 1 \in 1..Len(prog[c])
    BY EventTypes, SMTT(30)
  <2>2. e \in Records \union {"doorbell"} /\ Traced(c, k) \in Trace /\ AllMems(Traced(c, k)) = Mems(prog[c], k)
    BY <1>2, <2>1, EventTypes, TracedType, ZenonT(60)
  <2>3. Traced(c, k + 1) = Traced(c, k) \o (IF e = "doorbell" THEN << >> ELSE <<e>>)
    BY TracedNext, Zenon
  <2>4. Mems(prog[c], k + 1) = Mems(prog[c], k) \o Picked(e)
    BY MemsNext, Zenon
  <2> HIDE DEF e
  <2>5. CASE e = "doorbell"
    <3>1. Picked(e) = << >>
      BY <2>5, TraceAssumption, PickedType, Zenon
    <3> QED BY <2>2, <2>3, <2>4, <2>5, <3>1, MemsType, TraceConcat, ZenonT(60)
  <2>6. CASE e # "doorbell"
    BY <2>2, <2>3, <2>4, <2>6, MemsAppend, ZenonT(60)
  <2> QED BY <2>5, <2>6, ZenonT(60)
<1> HIDE DEF A
<1>3. n \in A
  BY <1>1, <1>2, AllNumbers, Zenon
<1> QED BY <1>3, Zenon DEF A

\* ... and without, after the instruction counted too many.
LEMMA UnclassedMems ==
    ASSUME NEW c \in Cores, NEW n \in Nat
    PROVE  AllMems(<<"other">> \o Unclassed(c, n)) = Mems(prog[c], n)
<1> DEFINE A == {k \in Nat : AllMems(<<"other">> \o Unclassed(c, k)) = Mems(prog[c], k)}
<1>0. "other" \in Records /\ "other" \notin Accesses /\ <<"other">> \in Trace
  BY TraceAssumption, TraceConcat, Zenon DEF Records, Compute
<1>1. 0 \in A
  <2>1. <<"other">> \o Unclassed(c, 0) = << >> \o <<"other">>
    BY <1>0, UnclassedNext, TraceConcat, Zenon
  <2>2. AllMems(<< >> \o <<"other">>) = << >> \o Picked("other")
    <3>1. << >> \in Trace
      BY TraceConcat, Zenon
    <3>2. AllMems(<< >> \o <<"other">>) = AllMems(<< >>) \o Picked("other")
      BY <1>0, <3>1, MemsAppend, Zenon
    <3> QED BY <3>2, MemsEmpty, Zenon
  <2>3. Picked("other") = << >> /\ << >> \o << >> = << >>
    BY <1>0, PickedType, SMTT(30)
  <2> QED BY <2>1, <2>2, <2>3, MemsZero, ZenonT(60)
<1>2. ASSUME NEW k \in Nat, k \in A PROVE k + 1 \in A
  <2> DEFINE e == prog[c][k + 1]
             u == IF e \in Accesses THEN e ELSE "other"
             s == Unclassed(c, k)
  <2>1. Unclassed(c, k + 1) = s \o <<u>> /\ s \in Trace
    BY UnclassedNext, Zenon
  <2>2. u \in Records /\ <<u>> \in Trace
    BY <1>0, TraceConcat, Zenon DEF Records
  <2>3. Picked(u) = Picked(e)
    BY <1>0, PickedType, Zenon
  <2>4. Mems(prog[c], k + 1) = Mems(prog[c], k) \o Picked(e)
    BY MemsNext, Zenon
  <2> HIDE DEF e, u, s
  <2>5. <<"other">> \o (s \o <<u>>) = (<<"other">> \o s) \o <<u>> /\ <<"other">> \o s \in Trace
    BY <1>0, <2>1, <2>2, TraceAssociative, TraceConcat, ZenonT(60)
  <2>6. AllMems((<<"other">> \o s) \o <<u>>) = AllMems(<<"other">> \o s) \o Picked(u)
    BY <2>2, <2>5, MemsAppend, ZenonT(60)
  <2>7. AllMems(<<"other">> \o s) = Mems(prog[c], k)
    BY <1>2, Zenon DEF s
  <2>8. AllMems(<<"other">> \o Unclassed(c, k + 1)) = Mems(prog[c], k + 1)
    BY <2>1, <2>3, <2>4, <2>5, <2>6, <2>7, ZenonT(60)
  <2> QED BY <2>8
<1> HIDE DEF A
<1>3. n \in A
  BY <1>1, <1>2, AllNumbers, ZenonT(60)
<1> QED BY <1>3, Zenon DEF A

\* In either mode the accesses counted are those executed.
LEMMA CountedMems ==
    ASSUME GuestTypes, NEW c \in Cores
    PROVE  AllMems(Counted(c)) = Mems(prog[c], at[c])
<1>1. at[c] \in Nat /\ at[c] <= Len(prog[c]) /\ (at[c] # 0 => at[c] - 1 \in Nat /\ (at[c] - 1) + 1 = at[c])
  BY EventTypes
<1>2. CASE mode = "precise"
  BY <1>1, <1>2, TracedMems, ZenonT(60) DEF Counted
<1>3. CASE mode # "precise"
  <2>1. Counted(c) = Delayed(c)
    BY <1>3, Zenon DEF Counted
  <2>2. CASE called[c]
    BY <1>1, <2>1, <2>2, UnclassedMems, ZenonT(60) DEF Delayed
  <2>3. CASE ~called[c] /\ at[c] = 0
    BY <1>1, <2>1, <2>3, MemsEmpty, MemsZero, ZenonT(60) DEF Delayed
  <2>4. CASE ~called[c] /\ at[c] # 0 /\ prog[c][at[c]] \in Accesses
    BY <1>1, <2>1, <2>4, UnclassedMems, ZenonT(60) DEF Delayed
  <2>5. CASE ~called[c] /\ at[c] # 0 /\ prog[c][at[c]] \notin Accesses
    <3>1. Counted(c) = <<"other">> \o Unclassed(c, at[c] - 1)
      BY <2>1, <2>5, Zenon DEF Delayed
    <3>2. AllMems(Counted(c)) = Mems(prog[c], at[c] - 1)
      BY <1>1, <2>5, <3>1, UnclassedMems, ZenonT(60)
    <3>3. Mems(prog[c], (at[c] - 1) + 1) = Mems(prog[c], at[c] - 1) \o Picked(prog[c][(at[c] - 1) + 1])
      BY <1>1, <2>5, MemsNext, ZenonT(60)
    <3>4. Picked(prog[c][at[c]]) = << >> /\ Mems(prog[c], at[c] - 1) \in Trace
      BY <1>1, <2>5, PickedType, MemsType, ZenonT(60)
    <3> QED BY <1>1, <2>5, <3>2, <3>3, <3>4, TraceConcat, ZenonT(60)
  <2> QED BY <2>2, <2>3, <2>4, <2>5, ZenonT(60)
<1> QED BY <1>2, <1>3, Zenon

\* The port forwards a doorbell only when every access before it is in memory,
\* in program order, unless the core has halted (process, isDrained): the
\* doorbell's core is drained, so what it consumed is what its vCPU executed but
\* for the open compute run.
THEOREM PacketBeforeDoorbell == Spec => []PacketFirst
<1>1. TraceInv /\ StreamInv => PacketFirst
  <2> SUFFICES ASSUME TraceInv, StreamInv, NEW c \in Cores, bell[c] = "sent", ~pipe[c].halted PROVE Written(c)
    BY Zenon DEF PacketFirst
  <2> DEFINE p == pipe[c]
  <2>1. /\ p.q = << >> /\ p.run.n = 0 /\ ring[c] = << >> /\ p.pending = 0
        /\ out[c] = << >> /\ leaving = 0 /\ GuestTypes /\ SstTypes /\ p \in Pipes
    BY Zenon DEF TraceInv, CoreInv, Served, Blocked, SstTypes
  <2>2. p.done \in Trace /\ p.run.ev \in Records
    BY <2>1, PipelinedType, ZenonT(60) DEF Pipes, PipeRecord, Run, Records
  <2>3. Staging(p) = << >> /\ Repeat(p.run) = << >>
    <3>1. Staging(p) = << >>
      BY <2>1, SMTT(30) DEF Staging
    <3> QED BY <2>1, <2>2, <3>1, RepeatFacts, SMTT(30)
  <2>4. acc[c].ev \in Compute /\ acc[c].n \in Nat /\ acc[c] = Message(acc[c].ev, acc[c].n)
    BY <2>1, FlushIsPlain, Zenon
  <2>5. InFlight(c) = p.done \o Repeat(acc[c])
    <3>1. InFlight(c) = p.done \o << >> \o << >> \o << >> \o << >> \o Repeat(acc[c])
      BY <2>1, <2>3, ExpandEmpty, ZenonT(60) DEF InFlight
    <3>2. p.done \o << >> = p.done
      BY <2>2, TraceConcat, Zenon
    <3> QED BY <3>1, <3>2, ZenonT(60)
  <2>6. p.done \o Repeat(acc[c]) = Counted(c)
    BY <2>1, <2>5, ExecutedRunning, Zenon DEF StreamInv, Streams
  <2>7. AllMems(p.done) = AllMems(Counted(c))
    <3>1. AllMems(p.done \o Repeat(Message(acc[c].ev, acc[c].n))) = AllMems(p.done)
      BY <2>2, <2>4, RunMems, Zenon
    <3> QED BY <2>4, <2>6, <3>1, Zenon
  <2> QED BY <2>1, <2>7, CountedMems, ZenonT(60) DEF Written, AllMems
<1> QED BY <1>1, TraceInvariant, StreamInvariant, PTL
=============================================================================
