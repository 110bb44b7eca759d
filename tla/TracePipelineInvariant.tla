----------------------- MODULE TracePipelineInvariant -----------------------
(***************************************************************************)
(* The inductive invariant of TracePipeline, for any number of cores, any  *)
(* programs, queue sizes, budgets, latencies and region maps, and what     *)
(* follows from it without a look at the order of the events.              *)
(***************************************************************************)
EXTENDS TracePipeline, WellFoundedInduction, TLAPS

-----------------------------------------------------------------------------
(* The inductive invariant.                                                *)

\* A message is a run of compute instructions, or one access or EXIT.
Msg == {m \in [ev : Records, n : Nat] : m.ev \in Compute \/ m.n = 1}
Run == [ev : Compute, n : Nat]
Entry == [ev : Records, stall : Nat]

PipeRecord ==
    [q : Seq(Entry), run : Run, has : BOOLEAN, off : Nat, pending : Nat, insts : Nat,
     halted : BOOLEAN, exit : BOOLEAN, cap : BOOLEAN, done : Seq(Records)]

\* The cursor is inside the access at the head of the queue.
Cursor(p) ==
    IF p.has THEN p.q # << >> /\ Head(p.q).ev \in Accesses /\ p.off < SlotsNeeded(Head(p.q).ev)
    ELSE p.off = 0

Pipes == {p \in PipeRecord : Len(p.q) <= MaxQueue /\ p.pending <= MaxPending /\ Cursor(p)}
Rings == {r \in Seq(Msg) : Len(r) <= RingSize}
OpenRun == [ev : Compute, n : 0..(RunMax - 1)]
Bells == {"idle", "req", "armed", "sent", "direct"}
Children == {"none", "starting", "early", "running", "ok", "failed", "vanish", "killed"}
Steps == {"spawn", "attached?", "waitpid", "between", "refill", "issue", "after"}

GuestTypes ==
    /\ prog \in Programs /\ limit \in Limits /\ mode \in Accounting
    /\ at \in [Cores -> Nat] /\ \A c \in Cores : at[c] <= Len(prog[c])
    /\ called \in [Cores -> BOOLEAN] /\ seen \in [Cores -> BOOLEAN]
    /\ acc \in [Cores -> OpenRun]
    /\ out \in [Cores -> Seq(Msg)] /\ ring \in [Cores -> Rings]
    /\ bell \in [Cores -> Bells]
    /\ leaving \in 0..(N + 1) /\ child \in Children

SstTypes ==
    /\ pipe \in [Cores -> Pipes]
    /\ issued \in 0..MaxIssue /\ polls \in 0..(PollPeriod - 1)
    /\ step \in Steps /\ cur \in Cores /\ posted \subseteq Cores
    /\ pid \in BOOLEAN /\ reaped \in BOOLEAN /\ alive \in BOOLEAN
    /\ result \in Fatal \union {"none", "ending", "ok"}

Booting == step \in {"spawn", "attached?", "waitpid"}
Unended == result \in {"none", "ending"}

\* Where the child, SST's picture of it and the verdict agree.
Control ==
    /\ ~Booting => child \notin {"none", "starting", "early"}
    /\ step \in {"attached?", "waitpid"} => child # "none"
    /\ step = "spawn" => child = "none" /\ ~reaped /\ ~pid
    /\ Booting => alive /\ result # "ending" /\ result # "ok"
    /\ ~alive => child \notin {"starting", "running"}
    /\ child \in {"starting", "running"} => pid
    /\ Unended => child # "killed"
    /\ Live /\ Booting => ~reaped
    /\ child = "vanish" => leaving = 0
    /\ child = "ok" /\ Unended => leaving = N + 1 /\ \A c \in Cores : out[c] = << >>
    /\ Unended /\ ~alive => child # "failed"
    /\ child = "ok" => leaving = N + 1
    /\ pid /\ reaped => result = "not attached"
    /\ result = "no EXIT" => child = "vanish"
    /\ result = "child failed" => child = "failed"
    /\ result = "not attached" => child \notin {"none", "starting", "running"}
    /\ result = "ok" => child \notin {"none", "starting", "early", "running", "failed"} /\ (ExpectExit => child = "ok")
    /\ step = "issue" => ~pipe[cur].halted

HasExit(s) == \E i \in DOMAIN s : s[i].ev = "exit"

\* An EXIT record that was written is in the callback, in the ring or in the
\* queue, until its core halts; and there is none before.
ExitTrail(c) ==
    /\ leaving > c => pipe[c].halted \/ HasExit(pipe[c].q) \/ HasExit(ring[c]) \/ HasExit(out[c])
    /\ HasExit(pipe[c].q) \/ HasExit(ring[c]) \/ HasExit(out[c]) \/ pipe[c].exit => leaving > c

\* The core has refilled in this tick.
Refilled(c) == step = "after" \/ (step = "refill" /\ c < cur) \/ (step = "issue" /\ c <= cur)

\* If nothing can write to the ring, a refill that the queue's limit did not
\* stop has read everything, or the EXIT.
CaughtUp(c) ==
    Refilled(c) /\ ~pipe[c].halted /\ ~pipe[c].cap /\ (~alive \/ bell[c] = "armed")
      => HasExit(pipe[c].q) \/ (ring[c] = << >> /\ pipe[c].run.n = 0)

\* A vCPU that rang its doorbell is blocked, and its guest does not exit.
Blocked(c) == bell[c] # "idle" => out[c] = << >> /\ leaving = 0

\* The pipeline is empty while a forwarded doorbell is being served.
Served(c) ==
    bell[c] = "sent" /\ ~pipe[c].halted
      => pipe[c].q = << >> /\ pipe[c].run.n = 0 /\ ring[c] = << >> /\ pipe[c].pending = 0

\* The callbacks' flags tell what the last instruction was.
Flags(c) ==
    /\ mode = "precise" => ~called[c]
    /\ mode = "delayed" => seen[c] = (~called[c] /\ at[c] > 0 /\ prog[c][at[c]] \in Accesses)

\* Stream, for one core.
InFlight(c) ==
    pipe[c].done \o Staging(pipe[c]) \o Repeat(pipe[c].run)
      \o Expand(ring[c]) \o Expand(out[c]) \o Repeat(acc[c])

CoreInv(c) == ExitTrail(c) /\ CaughtUp(c) /\ Blocked(c) /\ Served(c) /\ Flags(c)

TraceInv == GuestTypes /\ SstTypes /\ Control /\ \A c \in Cores : CoreInv(c)

-----------------------------------------------------------------------------
(* What the operations of a pipeline do to its fields.                     *)

\* The sizes are positive numbers, and an access needs between one request and
\* as many as it is split into.
LEMMA Sizes ==
    /\ N \in Nat /\ N > 0 /\ 1 \in Cores
    /\ Slots \in Nat /\ Slots > 0 /\ RunMax \in Nat /\ RunMax > 0
    /\ RingSize \in Nat /\ RingSize > 0 /\ MaxQueue \in Nat /\ MaxQueue > 0
    /\ MaxIssue \in Nat /\ MaxIssue > 0 /\ MaxPending \in Nat /\ MaxPending > 0
    /\ PollPeriod \in Nat /\ PollPeriod > 0
    /\ Limits \subseteq Nat
    /\ \A e : SlotsNeeded(e) \in Nat /\ SlotsNeeded(e) > 0 /\ SlotsNeeded(e) <= Slots
BY TraceAssumption DEF SlotsNeeded, Cores

\* Entries and messages.
LEMMA StagedType ==
    ASSUME NEW e \in Records PROVE Staged(e) \in Entry /\ Staged(e).ev = e
BY TraceAssumption, Zenon DEF Staged, Entry

\* The fields of a message.
LEMMA MessageType ==
    ASSUME NEW m \in Msg
    PROVE  /\ m.ev \in Records /\ m.n \in Nat
           /\ m.ev \in Compute => m \in Run
           /\ m.ev \notin Compute => m.n = 1
BY Zenon DEF Msg, Run

\* A sequence that is not empty has a head and a tail.
LEMMA HeadTail ==
    ASSUME NEW S, NEW s \in Seq(S), s # << >>
    PROVE  /\ Head(s) \in S /\ Tail(s) \in Seq(S) /\ Head(s) = s[1]
           /\ Len(s) > 0 /\ Len(Tail(s)) = Len(s) - 1
           /\ \A i \in 1..Len(s) - 1 : Tail(s)[i] = s[i + 1]
OBVIOUS

\* Consume pops the head, counts it and may halt the core.
LEMMA Consumed ==
    ASSUME NEW p \in PipeRecord, p.q # << >>, limit \in Nat
    PROVE  /\ Consume(p) \in PipeRecord
           /\ Consume(p).q = Tail(p.q) /\ Consume(p).run = p.run /\ Consume(p).has = p.has
           /\ Consume(p).off = p.off /\ Consume(p).pending = p.pending
           /\ Consume(p).cap = p.cap /\ Consume(p).exit = p.exit
           /\ Consume(p).done = Append(p.done, Head(p.q).ev)
<1>1. Head(p.q) \in Entry /\ Tail(p.q) \in Seq(Entry)
  BY HeadTail, Zenon DEF PipeRecord
<1>2. Append(p.done, Head(p.q).ev) \in Seq(Records)
  BY <1>1 DEF PipeRecord, Entry
<1>3. (limit > 0 /\ p.insts + 1 >= limit) \in BOOLEAN /\ p.insts + 1 \in Nat
  BY DEF PipeRecord
<1> QED BY <1>1, <1>2, <1>3, Zenon DEF Consume, PipeRecord

\* Halt pops the head and halts the core.
LEMMA Halted ==
    ASSUME NEW p \in PipeRecord, p.q # << >>
    PROVE  /\ Halt(p) \in PipeRecord
           /\ Halt(p).q = Tail(p.q) /\ Halt(p).run = p.run /\ Halt(p).has = p.has
           /\ Halt(p).off = p.off /\ Halt(p).pending = p.pending
           /\ Halt(p).cap = p.cap /\ Halt(p).exit = (Head(p.q).ev = "exit") /\ Halt(p).halted
           /\ Halt(p).done = Append(p.done, Head(p.q).ev)
<1>1. Head(p.q) \in Entry /\ Tail(p.q) \in Seq(Entry)
  BY HeadTail, Zenon DEF PipeRecord
<1>2. Append(p.done, Head(p.q).ev) \in Seq(Records)
  BY <1>1 DEF PipeRecord, Entry
<1> QED BY <1>1, <1>2, Zenon DEF Halt, PipeRecord

\* x is a pipeline that differs from p in its queue, run, requests and cap flag.
Repacked(p, x, queue, run, n, b) ==
    /\ x \in Pipes /\ x.q = queue /\ x.run = run /\ x.pending = n /\ x.cap = b
    /\ x.done = p.done /\ x.halted = p.halted /\ x.exit = p.exit

\* A pipeline with a longer queue or another run is as good as before.
LEMMA Extended ==
    ASSUME NEW p \in Pipes, NEW s \in Seq(Entry), NEW r \in Run, Len(p.q) + Len(s) <= MaxQueue
    PROVE  Repacked(p, [p EXCEPT !.q = @ \o s, !.run = r], p.q \o s, r, p.pending, p.cap)
<1> DEFINE x == [p EXCEPT !.q = @ \o s, !.run = r]
<1>1. p \in PipeRecord /\ p.q \in Seq(Entry) /\ p.q \o s \in Seq(Entry) /\ Cursor(p) /\ p.pending <= MaxPending
  BY DEF Pipes, PipeRecord
<1>2. /\ x \in PipeRecord /\ x.q = p.q \o s /\ x.run = r /\ x.has = p.has /\ x.off = p.off
      /\ x.pending = p.pending /\ x.done = p.done
      /\ x.halted = p.halted /\ x.exit = p.exit /\ x.cap = p.cap
  BY <1>1, Zenon DEF PipeRecord
<1>3. p.q # << >> => p.q \o s # << >> /\ Head(p.q \o s) = Head(p.q)
  BY <1>1
<1>4. Len(p.q \o s) = Len(p.q) + Len(s)
  BY <1>1
<1>5. Cursor(x)
  BY <1>1, <1>2, <1>3, Zenon DEF Cursor
<1> QED BY <1>1, <1>2, <1>4, <1>5, Zenon DEF Pipes, Repacked

\* The same, of the fields on which the cursor does not depend.
LEMMA Capped ==
    ASSUME NEW p \in Pipes, NEW b \in BOOLEAN
    PROVE  Repacked(p, [p EXCEPT !.cap = b], p.q, p.run, p.pending, b)
<1> DEFINE x == [p EXCEPT !.cap = b]
<1>1. p \in PipeRecord /\ Cursor(p) /\ p.pending <= MaxPending /\ Len(p.q) <= MaxQueue
  BY Zenon DEF Pipes
<1>2. /\ x \in PipeRecord /\ x.q = p.q /\ x.run = p.run /\ x.pending = p.pending /\ x.has = p.has /\ x.off = p.off
      /\ x.done = p.done /\ x.halted = p.halted /\ x.exit = p.exit /\ x.cap = b
  BY <1>1, Zenon DEF PipeRecord
<1>3. Cursor(x)
  BY <1>1, <1>2, Zenon DEF Cursor
<1> QED BY <1>1, <1>2, <1>3, Zenon DEF Pipes, Repacked

\* The same, of the number of outstanding requests.
LEMMA Waited ==
    ASSUME NEW p \in Pipes, NEW n \in 0..MaxPending
    PROVE  Repacked(p, [p EXCEPT !.pending = n], p.q, p.run, n, p.cap)
<1> DEFINE y == [p EXCEPT !.pending = n]
<1>1. p \in PipeRecord /\ Cursor(p) /\ Len(p.q) <= MaxQueue /\ n \in Nat /\ n <= MaxPending
  BY Sizes DEF Pipes
<1>2. /\ y \in PipeRecord /\ y.q = p.q /\ y.run = p.run /\ y.pending = n /\ y.has = p.has /\ y.off = p.off
      /\ y.done = p.done /\ y.halted = p.halted /\ y.exit = p.exit /\ y.cap = p.cap
  BY <1>1, Zenon DEF PipeRecord
<1>3. Cursor(y)
  BY <1>1, <1>2, Zenon DEF Cursor
<1> QED BY <1>1, <1>2, <1>3, Zenon DEF Pipes, Repacked

\* Consume and Halt apply to a pipeline whose cursor is at rest.
LEMMA Popped ==
    ASSUME NEW p \in Pipes, p.q # << >>, ~p.has, limit \in Nat
    PROVE  Consume(p) \in Pipes /\ Halt(p) \in Pipes
<1>1. p \in PipeRecord /\ Cursor(p) /\ p.pending <= MaxPending /\ Len(p.q) <= MaxQueue /\ p.q \in Seq(Entry)
  BY Zenon DEF Pipes, PipeRecord
<1>2. Len(Tail(p.q)) <= MaxQueue
  BY <1>1, HeadTail, Sizes
<1>3. Cursor(Consume(p)) /\ Cursor(Halt(p))
  BY <1>1, Consumed, Halted, Zenon DEF Cursor
<1> QED BY <1>1, <1>2, <1>3, Consumed, Halted, Zenon DEF Pipes

\* A stall counts down in the head, which stays what it is.
LEMMA Stalled ==
    ASSUME NEW p \in Pipes, p.q # << >>, Head(p.q).stall > 0
    PROVE  LET x == [p EXCEPT !.q[1].stall = @ - 1]
           IN  /\ x \in Pipes /\ Len(x.q) = Len(p.q) /\ \A i \in DOMAIN p.q : x.q[i].ev = p.q[i].ev
               /\ x.run = p.run /\ x.pending = p.pending
               /\ x.done = p.done /\ x.halted = p.halted /\ x.exit = p.exit /\ x.cap = p.cap
<1> DEFINE x == [p EXCEPT !.q[1].stall = @ - 1]
           t == [p.q EXCEPT ![1].stall = @ - 1]
<1>1. p \in PipeRecord /\ Cursor(p) /\ p.pending <= MaxPending /\ Len(p.q) <= MaxQueue /\ p.q \in Seq(Entry)
  BY Zenon DEF Pipes, PipeRecord
<1>2. Head(p.q) = p.q[1] /\ 1 \in DOMAIN p.q /\ p.q[1] \in Entry /\ p.q[1].stall - 1 \in Nat
  <2>1. Head(p.q) = p.q[1] /\ 1 \in DOMAIN p.q /\ p.q[1] \in Entry
    BY <1>1
  <2> QED BY <2>1 DEF Entry
<1>3. [p.q[1] EXCEPT !.stall = @ - 1] \in Entry /\ [p.q[1] EXCEPT !.stall = @ - 1].ev = p.q[1].ev
  BY <1>2, Zenon DEF Entry
<1>4. t \in Seq(Entry) /\ Len(t) = Len(p.q) /\ \A i \in DOMAIN p.q : t[i].ev = p.q[i].ev
  BY <1>1, <1>2, <1>3
<1>5. x = [p EXCEPT !.q = t]
  BY <1>1, Zenon DEF PipeRecord
<1>6. /\ x \in PipeRecord /\ x.q = t /\ x.run = p.run /\ x.pending = p.pending /\ x.has = p.has /\ x.off = p.off
      /\ x.done = p.done /\ x.halted = p.halted /\ x.exit = p.exit /\ x.cap = p.cap
  BY <1>1, <1>4, <1>5, Zenon DEF PipeRecord
<1>7. Head(t).ev = Head(p.q).ev /\ t # << >>
  <2>1. t # << >> /\ Head(t) = t[1]
    BY <1>1, <1>2, <1>4
  <2> QED BY <1>2, <1>4, <2>1, Zenon
<1>8. Cursor(x)
  BY <1>1, <1>6, <1>7, Zenon DEF Cursor
<1> QED BY <1>1, <1>4, <1>6, <1>8, Zenon DEF Pipes

\* A new access is taken up.
LEMMA Emitted ==
    ASSUME NEW p \in Pipes, p.q # << >>, ~p.has, Head(p.q).ev \in Accesses
    PROVE  LET x == [p EXCEPT !.has = TRUE]
           IN  /\ x \in Pipes /\ x.q = p.q /\ x.run = p.run /\ x.pending = p.pending
               /\ x.done = p.done /\ x.halted = p.halted /\ x.exit = p.exit /\ x.cap = p.cap
<1> DEFINE x == [p EXCEPT !.has = TRUE]
<1>1. p \in PipeRecord /\ Cursor(p) /\ p.pending <= MaxPending /\ Len(p.q) <= MaxQueue
  BY Zenon DEF Pipes
<1>2. /\ x \in PipeRecord /\ x.q = p.q /\ x.run = p.run /\ x.pending = p.pending /\ x.has /\ x.off = p.off
      /\ x.done = p.done /\ x.halted = p.halted /\ x.exit = p.exit /\ x.cap = p.cap
  BY <1>1, Zenon DEF PipeRecord
<1>3. Cursor(x)
  BY <1>1, <1>2, Sizes, Zenon DEF Cursor
<1> QED BY <1>1, <1>2, <1>3, Zenon DEF Pipes

\* issueMemOp: the budgets hold, and the cursor stays inside the access or is
\* back at its start.
LEMMA Issued ==
    ASSUME NEW p \in Pipes, p.q # << >>, p.has, limit \in Nat, issued \in 0..MaxIssue
    PROVE  LET rest == SlotsNeeded(Head(p.q).ev) - p.off
               k == IF Budget(p) < rest THEN Budget(p) ELSE rest
               r == IssueAvailable(p, k)
               n == IF k = rest THEN Consume([r EXCEPT !.has = FALSE]) ELSE r
           IN  /\ issued + k \in 0..MaxIssue
               /\ n \in Pipes /\ n.run = p.run /\ n.exit = p.exit /\ n.cap = p.cap
               /\ k # rest => n.q = p.q /\ n.done = p.done /\ n.halted = p.halted
               /\ k = rest => n.q = Tail(p.q) /\ n.done = Append(p.done, Head(p.q).ev)
               /\ Head(p.q).ev \in Accesses
<1> DEFINE slots == SlotsNeeded(Head(p.q).ev)
           rest == slots - p.off
           k == IF Budget(p) < rest THEN Budget(p) ELSE rest
           off == (p.off + k) % slots
           r == IssueAvailable(p, k)
           z == [r EXCEPT !.has = FALSE]
           n == IF k = rest THEN Consume(z) ELSE r
<1>1. /\ p \in PipeRecord /\ Cursor(p) /\ Len(p.q) <= MaxQueue /\ p.q \in Seq(Entry)
      /\ p.pending \in Nat /\ p.pending <= MaxPending /\ p.off \in Nat
  BY Zenon DEF Pipes, PipeRecord
<1>2. Head(p.q).ev \in Accesses /\ p.off < slots /\ slots \in Nat
  BY <1>1, Sizes, Zenon DEF Cursor
<1>3. Budget(p) \in Nat /\ Budget(p) <= MaxIssue - issued /\ Budget(p) <= MaxPending - p.pending
  BY <1>1, Sizes DEF Budget
<1>4. k \in Nat /\ k <= rest /\ k <= MaxIssue - issued /\ k <= MaxPending - p.pending
  BY <1>1, <1>2, <1>3, Sizes, SMTT(30)
<1> HIDE DEF k
<1>5. off \in Nat /\ (k = rest => off = 0) /\ (k # rest => off < slots)
  <2>1. \A a, b \in Nat : a < b => a % b = a
    OBVIOUS
  <2>2. \A b \in Nat : b > 0 => b % b = 0
    OBVIOUS
  <2>3. CASE k = rest
    <3>1. p.off + k = slots
      BY <1>1, <1>2, <1>4, <2>3
    <3> QED BY <1>2, <1>1, <2>2, <2>3, <3>1
  <2>4. CASE k # rest
    <3>1. p.off + k < slots /\ p.off + k \in Nat
      BY <1>1, <1>2, <1>4, <2>4, SMTT(30)
    <3> QED BY <1>2, <2>1, <2>4, <3>1, Zenon
  <2> QED BY <2>3, <2>4, Zenon
<1>6. r = [p EXCEPT !.pending = @ + k, !.off = off]
  BY <1>1, Zenon DEF IssueAvailable, IssuePart, PipeRecord
<1> HIDE DEF r, off
<1>7. /\ r \in PipeRecord /\ r.q = p.q /\ r.run = p.run /\ r.exit = p.exit /\ r.cap = p.cap
      /\ r.halted = p.halted /\ r.done = p.done /\ r.has = p.has /\ r.off = off /\ r.pending = p.pending + k
  <2>1. p.pending + k \in Nat
    BY <1>1, <1>4
  <2> QED BY <1>1, <1>5, <1>6, <2>1, Zenon DEF PipeRecord
<1>8. r.pending <= MaxPending /\ Len(r.q) <= MaxQueue
  BY <1>1, <1>4, <1>7, Sizes
<1>9. issued + k \in 0..MaxIssue
  BY <1>4, Sizes
<1>10. CASE k # rest
  <2>1. Cursor(r)
    BY <1>2, <1>5, <1>7, <1>10, Zenon DEF Cursor
  <2> QED BY <1>2, <1>7, <1>8, <1>9, <1>10, <2>1, Zenon DEF Pipes, k, r
<1>11. CASE k = rest
  <2>1. /\ z \in PipeRecord /\ z.q = p.q /\ z.run = p.run /\ z.exit = p.exit /\ z.cap = p.cap
        /\ z.done = p.done /\ ~z.has /\ z.off = off /\ z.pending = r.pending
    BY <1>7, Zenon DEF PipeRecord
  <2> HIDE DEF z
  <2>2. z \in Pipes
    BY <1>5, <1>8, <1>7, <1>11, <2>1, Zenon DEF Pipes, Cursor
  <2>3. Consume(z) \in Pipes
    BY <2>1, <2>2, Popped, Zenon
  <2>4. /\ Consume(z).q = Tail(p.q) /\ Consume(z).run = p.run /\ Consume(z).exit = p.exit
        /\ Consume(z).cap = p.cap /\ Consume(z).done = Append(p.done, Head(p.q).ev)
    BY <2>1, Consumed, SMTT(30)
  <2> QED BY <1>2, <1>9, <1>11, <2>3, <2>4, Zenon DEF k, r, z
<1> QED BY <1>10, <1>11, Zenon

-----------------------------------------------------------------------------
(* The steps of QuetzEventPipeline, as far as the invariant sees them.     *)

\* Only core c's pipeline changes, to n.
LEMMA SetPipe ==
    ASSUME SstTypes, NEW c \in Cores, NEW n \in Pipes, Set(c, n)
    PROVE  pipe' \in [Cores -> Pipes] /\ pipe'[c] = n /\ \A d \in Cores \ {c} : pipe'[d] = pipe[d]
BY Zenon DEF SstTypes, Set

Others(c) == \A d \in Cores \ {c} : pipe'[d] = pipe[d]

\* The queue keeps its events, or loses its head.
Keeps(c) ==
    /\ Len(pipe'[c].q) = Len(pipe[c].q) /\ \A i \in DOMAIN pipe[c].q : pipe'[c].q[i].ev = pipe[c].q[i].ev
    /\ pipe'[c].done = pipe[c].done /\ pipe'[c].halted = pipe[c].halted /\ pipe'[c].exit = pipe[c].exit

Pops(c) ==
    /\ pipe'[c].q = Tail(pipe[c].q) /\ pipe'[c].done = Append(pipe[c].done, Head(pipe[c].q).ev)
    /\ Head(pipe[c].q).ev = "exit" => pipe'[c].halted
    /\ pipe'[c].exit => pipe[c].exit \/ Head(pipe[c].q).ev = "exit"

Moves(c) ==
    /\ pipe' \in [Cores -> Pipes] /\ Others(c)
    /\ pipe[c].q # << >> /\ (Keeps(c) \/ Pops(c))
    /\ pipe'[c].run = pipe[c].run /\ pipe'[c].cap = pipe[c].cap
    /\ (UNCHANGED <<step, cur>> /\ ~pipe'[c].halted) \/ NextCore(c)

\* What issueMemOp does to the pipeline.
LEMMA IssueMemOpStep ==
    ASSUME GuestTypes, SstTypes, Control, NEW c \in Cores, IssueMemOp(c)
    PROVE  Moves(c) /\ issued' \in 0..MaxIssue
<1> DEFINE p == pipe[c]
           rest == SlotsNeeded(Head(p.q).ev) - p.off
           k == IF Budget(p) < rest THEN Budget(p) ELSE rest
           r == IssueAvailable(p, k)
           n == IF k = rest THEN Consume([r EXCEPT !.has = FALSE]) ELSE r
<1>1. /\ p \in Pipes /\ p.q # << >> /\ p.has /\ limit \in Nat /\ issued \in 0..MaxIssue
      /\ Set(c, n) /\ issued' = issued + k /\ cur = c /\ step = "issue"
      /\ IF k = rest /\ ~n.halted THEN UNCHANGED <<step, cur>> ELSE NextCore(c)
  BY Sizes, Zenon DEF IssueMemOp, GuestTypes, SstTypes, Issuing
<1>2. /\ issued + k \in 0..MaxIssue
      /\ n \in Pipes /\ n.run = p.run /\ n.exit = p.exit /\ n.cap = p.cap
      /\ k # rest => n.q = p.q /\ n.done = p.done /\ n.halted = p.halted
      /\ k = rest => n.q = Tail(p.q) /\ n.done = Append(p.done, Head(p.q).ev)
      /\ Head(p.q).ev \in Accesses
  BY <1>1, Issued, Zenon
<1> HIDE DEF n, k, rest
<1>3. pipe' \in [Cores -> Pipes] /\ pipe'[c] = n /\ Others(c)
  BY <1>1, <1>2, SetPipe, Zenon DEF Others
<1>4. Head(p.q).ev # "exit"
  BY <1>2, TraceAssumption, Zenon
<1>5. Keeps(c) \/ Pops(c)
  BY <1>2, <1>3, <1>4, Zenon DEF Keeps, Pops
<1> QED BY <1>1, <1>2, <1>3, <1>5, Zenon DEF Moves

\* What the filter and the transform do to the pipeline.
LEMMA DispatchStep ==
    ASSUME GuestTypes, SstTypes, Control, NEW c \in Cores, Dispatch(c)
    PROVE  Moves(c)
<1> DEFINE p == pipe[c]
           h == Head(p.q)
<1>1. /\ p \in Pipes /\ p \in PipeRecord /\ p.q # << >> /\ ~p.has /\ limit \in Nat
      /\ cur = c /\ step = "issue" /\ ~p.halted
  BY Sizes, Zenon DEF Dispatch, GuestTypes, SstTypes, Issuing, Pipes, Control
<1>2. h \in Entry
  BY <1>1, HeadTail, Zenon DEF PipeRecord
<1>3. CASE /\ Filtered(h) \/ Transform(h) = "CONSUMED_NOOP"
           /\ Set(c, Consume(p))
           /\ IF Consume(p).halted THEN NextCore(c) ELSE UNCHANGED <<step, cur>>
  <2>1. h.ev # "exit"
    BY <1>3, TraceAssumption, Zenon DEF Filtered, Transform
  <2>2. pipe' \in [Cores -> Pipes] /\ pipe'[c] = Consume(p) /\ Others(c)
    BY <1>1, <1>3, SetPipe, Popped, Zenon DEF Others
  <2>3. Pops(c) /\ pipe'[c].run = p.run /\ pipe'[c].cap = p.cap
    BY <1>1, <2>1, <2>2, Consumed, SMTT(30) DEF Pops
  <2> QED BY <1>1, <1>3, <2>2, <2>3, Zenon DEF Moves
<1>4. CASE Set(c, Halt(p)) /\ NextCore(c)
  <2>2. pipe' \in [Cores -> Pipes] /\ pipe'[c] = Halt(p) /\ Others(c)
    BY <1>1, <1>4, SetPipe, Popped, Zenon DEF Others
  <2>3. Pops(c) /\ pipe'[c].run = p.run /\ pipe'[c].cap = p.cap
    BY <1>1, <2>2, Halted, ZenonT(60) DEF Pops
  <2> QED BY <1>1, <1>4, <2>2, <2>3, Zenon DEF Moves
<1>5. CASE Transform(h) = "STALL" /\ Set(c, [p EXCEPT !.q[1].stall = @ - 1]) /\ NextCore(c)
  <2>1. h.stall > 0
    BY <1>5, Zenon DEF Transform
  <2>2. /\ pipe' \in [Cores -> Pipes] /\ Others(c)
        /\ pipe'[c] = [p EXCEPT !.q[1].stall = @ - 1] /\ [p EXCEPT !.q[1].stall = @ - 1] \in Pipes
    BY <1>1, <1>5, <2>1, SetPipe, Stalled, Zenon DEF Others
  <2>3. Keeps(c) /\ pipe'[c].run = p.run /\ pipe'[c].cap = p.cap
    BY <1>1, <2>1, <2>2, Stalled DEF Keeps
  <2> QED BY <1>1, <1>5, <2>2, <2>3, Zenon DEF Moves
<1>6. CASE Transform(h) = "EMIT_MEMOP" /\ Set(c, [p EXCEPT !.has = TRUE]) /\ UNCHANGED <<step, cur>>
  <2>1. h.ev \in Accesses
    BY <1>2, <1>6, Zenon DEF Transform, Entry, Records
  <2>2. /\ pipe' \in [Cores -> Pipes] /\ Others(c)
        /\ pipe'[c] = [p EXCEPT !.has = TRUE] /\ [p EXCEPT !.has = TRUE] \in Pipes
    BY <1>1, <1>6, <2>1, SetPipe, Emitted, Zenon DEF Others
  <2>3. Keeps(c) /\ pipe'[c].run = p.run /\ pipe'[c].cap = p.cap /\ ~pipe'[c].halted
    BY <1>1, <2>1, <2>2, Emitted DEF Keeps
  <2> QED BY <1>1, <1>6, <2>2, <2>3, Zenon DEF Moves
<1> QED BY <1>3, <1>4, <1>5, <1>6, Zenon DEF Dispatch

\* A refill leaves alone what was consumed.
Refills(c) ==
    /\ pipe' \in [Cores -> Pipes] /\ Others(c)
    /\ pipe'[c].done = pipe[c].done /\ pipe'[c].pending = pipe[c].pending
    /\ pipe'[c].halted = pipe[c].halted /\ pipe'[c].exit = pipe[c].exit

\* What drainRun does: k instructions move from the run to the queue.
LEMMA DrainRunStep ==
    ASSUME SstTypes, NEW c \in Cores, DrainRun(c)
    PROVE  /\ Refills(c)
           /\ \E k \in Nat : /\ k <= pipe[c].run.n
                             /\ pipe'[c].q = pipe[c].q \o [i \in 1..k |-> Staged(pipe[c].run.ev)]
                             /\ pipe'[c].run = [ev |-> pipe[c].run.ev, n |-> pipe[c].run.n - k]
<1> DEFINE p == pipe[c]
           room == MaxQueue - Len(p.q)
           k == IF p.run.n < room THEN p.run.n ELSE room
           s == [i \in 1..k |-> Staged(p.run.ev)]
           r == [ev |-> p.run.ev, n |-> p.run.n - k]
           x == [p EXCEPT !.q = @ \o s, !.run = r]
<1>1. /\ p \in Pipes /\ p \in PipeRecord /\ p.run \in Run /\ p.q \in Seq(Entry) /\ Len(p.q) < MaxQueue
      /\ p.run.ev \in Records /\ p.run.n \in Nat
  BY Zenon DEF DrainRun, SstTypes, Pipes, PipeRecord, Run, Records
<1>2. k \in Nat /\ k <= p.run.n /\ Len(p.q) + k <= MaxQueue
  BY <1>1, Sizes
<1>3. Set(c, [p EXCEPT !.q = @ \o s, !.run.n = @ - k])
  BY Zenon DEF DrainRun
<1> HIDE DEF k
<1>4. s \in Seq(Entry) /\ Len(s) = k
  BY <1>1, <1>2, StagedType
<1>5. r \in Run /\ [p.run EXCEPT !.n = @ - k] = r
  BY <1>1, <1>2 DEF Run
<1> HIDE DEF s
<1>6. [p EXCEPT !.q = @ \o s, !.run.n = @ - k] = x
  BY <1>1, <1>5, Zenon DEF PipeRecord
<1> HIDE DEF r
<1>7. /\ x \in Pipes /\ x.q = p.q \o s /\ x.run = r /\ x.pending = p.pending /\ x.done = p.done
      /\ x.halted = p.halted /\ x.exit = p.exit
  <2>1. Len(p.q) + Len(s) <= MaxQueue
    BY <1>2, <1>4, Zenon
  <2>2. Repacked(p, x, p.q \o s, r, p.pending, p.cap)
    BY <1>1, <1>4, <1>5, <2>1, Extended, Zenon
  <2> HIDE DEF x
  <2> QED BY <2>2, Zenon DEF Repacked
<1>8. pipe' \in [Cores -> Pipes] /\ pipe'[c] = x /\ Others(c)
  BY <1>3, <1>6, <1>7, SetPipe, Zenon DEF Others
<1> QED BY <1>2, <1>7, <1>8, Zenon DEF Refills, s, r

\* An event is pushed.
LEMMA Pushed ==
    ASSUME NEW p \in Pipes, NEW e \in Records, Len(p.q) < MaxQueue
    PROVE  LET x == [p EXCEPT !.q = Append(@, Staged(e))]
           IN  /\ x \in Pipes /\ x.q = Append(p.q, Staged(e)) /\ x.run = p.run
               /\ x.pending = p.pending /\ x.done = p.done
               /\ x.halted = p.halted /\ x.exit = p.exit
<1>1. p \in PipeRecord /\ p.q \in Seq(Entry) /\ p.run \in Run
  BY Zenon DEF Pipes, PipeRecord
<1>2. /\ <<Staged(e)>> \in Seq(Entry) /\ Len(<<Staged(e)>>) = 1
      /\ Append(p.q, Staged(e)) = p.q \o <<Staged(e)>>
  BY <1>1, StagedType
<1>3. Len(p.q) + Len(<<Staged(e)>>) <= MaxQueue
  BY <1>1, <1>2, Sizes
<1>4. [p EXCEPT !.q = Append(@, Staged(e))] = [p EXCEPT !.q = @ \o <<Staged(e)>>, !.run = p.run]
  BY <1>1, <1>2, Zenon DEF PipeRecord
<1> DEFINE x == [p EXCEPT !.q = @ \o <<Staged(e)>>, !.run = p.run]
<1>5. Repacked(p, x, p.q \o <<Staged(e)>>, p.run, p.pending, p.cap)
  BY <1>1, <1>2, <1>3, Extended, Zenon
<1> HIDE DEF x
<1> QED BY <1>2, <1>4, <1>5, Zenon DEF Repacked, x

\* What reading a message does.
LEMMA ReadCommandStep ==
    ASSUME GuestTypes, SstTypes, NEW c \in Cores, ReadCommand(c)
    PROVE  LET m == Head(ring[c])
           IN  /\ Refills(c) /\ ring[c] # << >> /\ m \in Msg
               /\ ring' \in [Cores -> Rings] /\ ring'[c] = Tail(ring[c])
               /\ \A d \in Cores \ {c} : ring'[d] = ring[d]
               /\ m.ev \in Compute => pipe'[c].q = pipe[c].q /\ pipe'[c].run = m
               /\ m.ev \notin Compute => pipe'[c].q = Append(pipe[c].q, Staged(m.ev)) /\ pipe'[c].run = pipe[c].run
               /\ m.ev # "exit" => UNCHANGED <<step, cur, issued>>
               /\ m.ev = "exit" => step' = "issue" /\ cur' = c /\ issued' = 0
<1> DEFINE p == pipe[c]
           m == Head(ring[c])
           x == [p EXCEPT !.q = Append(@, Staged(m.ev))]
           y == [x EXCEPT !.cap = Len(x.q) >= MaxQueue]
           z == [p EXCEPT !.run = m]
<1>1. /\ p \in Pipes /\ Len(p.q) < MaxQueue /\ ring[c] # << >> /\ ring[c] \in Seq(Msg)
      /\ ring' = [ring EXCEPT ![c] = Tail(@)] /\ Len(ring[c]) <= RingSize
  BY Zenon DEF ReadCommand, GuestTypes, SstTypes, Rings
<1>2. m \in Msg /\ Tail(ring[c]) \in Rings
  BY <1>1, HeadTail, Sizes DEF Rings
<1>3. ring' \in [Cores -> Rings] /\ ring'[c] = Tail(ring[c]) /\ \A d \in Cores \ {c} : ring'[d] = ring[d]
  BY <1>1, <1>2, Zenon DEF GuestTypes
<1>4. m.ev \in Records
  BY <1>2, MessageType, Zenon
<1>5. /\ x \in Pipes /\ x.q = Append(p.q, Staged(m.ev)) /\ x.run = p.run
      /\ x.pending = p.pending /\ x.done = p.done /\ x.halted = p.halted /\ x.exit = p.exit
  BY <1>1, <1>4, Pushed, Zenon
<1>6. CASE m.ev = "exit"
  <2>1. Set(c, y) /\ step' = "issue" /\ cur' = c /\ issued' = 0
    BY <1>6, Zenon DEF ReadCommand, StopRefill
  <2>2. (Len(x.q) >= MaxQueue) \in BOOLEAN 
    OBVIOUS
  <2> HIDE DEF x
  <2>3. /\ y \in Pipes /\ y.q = x.q /\ y.run = x.run /\ y.pending = x.pending
        /\ y.done = x.done /\ y.halted = x.halted /\ y.exit = x.exit
    <3>1. Repacked(x, y, x.q, x.run, x.pending, Len(x.q) >= MaxQueue)
      BY <1>5, <2>2, Capped, Zenon
    <3> HIDE DEF y
    <3> QED BY <3>1, Zenon DEF Repacked
  <2> HIDE DEF y
  <2>4. pipe' \in [Cores -> Pipes] /\ pipe'[c] = y /\ Others(c)
    BY <2>1, <2>3, SetPipe, Zenon DEF Others
  <2>5. m.ev \notin Compute
    BY <1>6, Zenon DEF Compute
  <2> QED BY <1>1, <1>2, <1>3, <1>5, <1>6, <2>1, <2>3, <2>4, <2>5, Zenon DEF Refills
<1>7. CASE m.ev # "exit" /\ m.ev \notin Compute
  <2>1. Set(c, x) /\ UNCHANGED <<step, cur, issued>>
    BY <1>7, Zenon DEF ReadCommand
  <2> HIDE DEF x
  <2>2. pipe' \in [Cores -> Pipes] /\ pipe'[c] = x /\ Others(c)
    BY <1>5, <2>1, SetPipe, Zenon DEF Others
  <2> QED BY <1>1, <1>2, <1>3, <1>5, <1>7, <2>1, <2>2, Zenon DEF Refills
<1>8. CASE m.ev \in Compute
  <2>1. Set(c, z) /\ UNCHANGED <<step, cur, issued>> /\ m.ev # "exit"
    BY <1>8, Zenon DEF ReadCommand, Compute
  <2>2. m \in Run /\ p \in PipeRecord /\ Len(p.q) <= MaxQueue /\ p.pending <= MaxPending /\ Cursor(p)
    BY <1>1, <1>2, <1>8, MessageType, Zenon DEF Pipes
  <2>3. /\ z \in PipeRecord /\ z.q = p.q /\ z.run = m /\ z.pending = p.pending /\ z.done = p.done
        /\ z.halted = p.halted /\ z.exit = p.exit /\ z.has = p.has /\ z.off = p.off
    BY <2>2, Zenon DEF PipeRecord
  <2> HIDE DEF z
  <2>4. z \in Pipes
    BY <2>2, <2>3, Zenon DEF Pipes, Cursor
  <2>5. pipe' \in [Cores -> Pipes] /\ pipe'[c] = z /\ Others(c)
    BY <2>4, <2>1, SetPipe, Zenon DEF Others
  <2> QED BY <1>1, <1>2, <1>3, <1>8, <2>1, <2>3, <2>5, Zenon DEF Refills
<1> QED BY <1>6, <1>7, <1>8, Zenon

\* What the end of a refill does.
LEMMA RefillStopsStep ==
    ASSUME SstTypes, NEW c \in Cores, RefillStops(c)
    PROVE  /\ Refills(c) /\ pipe'[c].q = pipe[c].q /\ pipe'[c].run = pipe[c].run
           /\ pipe'[c].cap \/ (pipe[c].run.n = 0 /\ ring[c] = << >>)
           /\ step' = "issue" /\ cur' = c /\ issued' = 0
<1> DEFINE p == pipe[c]
           y == [p EXCEPT !.cap = Len(p.q) >= MaxQueue]
<1>1. /\ Set(c, y) /\ step' = "issue" /\ cur' = c /\ issued' = 0 /\ p \in Pipes
      /\ Len(p.q) >= MaxQueue \/ (p.run.n = 0 /\ ring[c] = << >>)
  BY Zenon DEF RefillStops, StopRefill, SstTypes
<1>2. (Len(p.q) >= MaxQueue) \in BOOLEAN
  OBVIOUS
<1>3. /\ y \in Pipes /\ y.q = p.q /\ y.run = p.run /\ y.pending = p.pending
      /\ y.done = p.done /\ y.halted = p.halted /\ y.exit = p.exit /\ y.cap = (Len(p.q) >= MaxQueue)
  <2>1. Repacked(p, y, p.q, p.run, p.pending, Len(p.q) >= MaxQueue)
    BY <1>1, <1>2, Capped, Zenon
  <2> HIDE DEF y
  <2> QED BY <2>1, Zenon DEF Repacked
<1> HIDE DEF y
<1>4. pipe' \in [Cores -> Pipes] /\ pipe'[c] = y /\ Others(c)
  BY <1>1, <1>3, SetPipe, Zenon DEF Others
<1> QED BY <1>1, <1>3, <1>4, Zenon DEF Refills

\* What a response does.
LEMMA ResponseStep ==
    ASSUME SstTypes, NEW c \in Cores, Response(c)
    PROVE  /\ pipe' \in [Cores -> Pipes] /\ Others(c)
           /\ pipe'[c] = [pipe[c] EXCEPT !.pending = @ - 1] /\ pipe[c].pending > 0
           /\ pipe'[c].q = pipe[c].q /\ pipe'[c].run = pipe[c].run /\ pipe'[c].done = pipe[c].done
           /\ pipe'[c].halted = pipe[c].halted /\ pipe'[c].exit = pipe[c].exit /\ pipe'[c].cap = pipe[c].cap
<1> DEFINE p == pipe[c]
           y == [p EXCEPT !.pending = p.pending - 1]
<1>1. Set(c, y) /\ p \in Pipes /\ p.pending > 0 /\ p.pending \in Nat /\ p.pending <= MaxPending
  BY Zenon DEF Response, SstTypes, Pipes, PipeRecord
<1>2. p.pending - 1 \in 0..MaxPending
  BY <1>1, Sizes
<1>3. /\ y \in Pipes /\ y.q = p.q /\ y.run = p.run /\ y.done = p.done
      /\ y.halted = p.halted /\ y.exit = p.exit /\ y.cap = p.cap
  <2>1. Repacked(p, y, p.q, p.run, p.pending - 1, p.cap)
    BY <1>1, <1>2, Waited, Zenon
  <2> HIDE DEF y
  <2> QED BY <2>1, Zenon DEF Repacked
<1> QED BY <1>1, <1>3, SetPipe, Zenon DEF Others

-----------------------------------------------------------------------------
(* The steps of the plugin, as far as the invariant sees them.             *)

\* What a callback writes while the guest runs.
Plain == {m \in Msg : m.ev # "exit"}

\* Such messages hold no EXIT.
LEMMA PlainSeq ==
    ASSUME NEW s \in Seq(Plain) PROVE s \in Seq(Msg) /\ ~HasExit(s)
BY DEF Plain, HasExit

\* A run is such a message.
LEMMA RunIsPlain ==
    ASSUME NEW e \in Compute, NEW n \in Nat
    PROVE  Message(e, n) \in Plain /\ Message(e, n).ev = e /\ Message(e, n).n = n
BY Zenon DEF Message, Plain, Msg, Compute, Records

\* flush_run writes such messages, and the open run is one.
LEMMA FlushIsPlain ==
    ASSUME GuestTypes, NEW c \in Cores
    PROVE  /\ FlushRun(c) \in Seq(Plain)
           /\ acc[c].ev \in Compute /\ acc[c].n \in Nat /\ acc[c] = Message(acc[c].ev, acc[c].n)
           /\ acc[c].n <= RunMax - 1
<1>1. acc[c] \in OpenRun
  BY Zenon DEF GuestTypes
<1>2. acc[c].ev \in Compute /\ acc[c].n \in Nat /\ acc[c] = Message(acc[c].ev, acc[c].n) /\ acc[c].n <= RunMax - 1
  BY <1>1, Sizes DEF OpenRun, Message
<1>3. acc[c] \in Plain
  BY <1>2, RunIsPlain, Zenon
<1> QED BY <1>2, <1>3 DEF FlushRun

\* A function changed at c only.
LEMMA ChangedAt ==
    ASSUME NEW S, NEW f \in [Cores -> S], NEW c \in Cores, NEW v \in S
    PROVE  /\ [f EXCEPT ![c] = v] \in [Cores -> S] /\ [f EXCEPT ![c] = v][c] = v
           /\ \A d \in Cores \ {c} : [f EXCEPT ![c] = v][d] = f[d]
OBVIOUS

\* An open run is shorter than the longest run; a closed one is empty.
LEMMA OpenRunType ==
    ASSUME NEW e \in Compute, NEW n \in Nat, n < RunMax
    PROVE  Message(e, n) \in OpenRun
<1>1. n \in 0..(RunMax - 1)
  BY Sizes
<1> QED BY <1>1, Zenon DEF OpenRun, Message

\* A run that was written is empty.
LEMMA ClosedRunType ==
    ASSUME GuestTypes, NEW c \in Cores
    PROVE  [acc[c] EXCEPT !.n = 0] \in OpenRun /\ [acc[c] EXCEPT !.n = 0] = Message(acc[c].ev, 0)
<1>1. acc[c] \in OpenRun
  BY Zenon DEF GuestTypes
<1>2. [acc[c] EXCEPT !.n = 0] = Message(acc[c].ev, 0) /\ acc[c].ev \in Compute
  BY <1>1 DEF OpenRun, Message
<1> QED BY <1>2, OpenRunType, Sizes, Zenon

\* What a callback of vCPU c does to the open run and to its messages.
Writes(c) ==
    /\ out' \in [Cores -> Seq(Msg)] /\ acc' \in [Cores -> OpenRun] /\ out'[c] \in Seq(Plain)
    /\ \A d \in Cores \ {c} : out'[d] = out[d] /\ acc'[d] = acc[d]

\* accumulate_compute touches one vCPU, and no EXIT is written.
LEMMA AccumulateStep ==
    ASSUME GuestTypes, NEW c \in Cores, NEW e \in Compute, Accumulate(c, e)
    PROVE  Writes(c)
<1> DEFINE closed == IF acc[c].ev # e THEN FlushRun(c) ELSE << >>
           run == Message(e, IF acc[c].ev # e THEN 1 ELSE acc[c].n + 1)
           o == closed \o (IF run.n >= RunMax THEN <<run>> ELSE << >>)
           a == IF run.n >= RunMax THEN Message(e, 0) ELSE run
<1>1. out' = [out EXCEPT ![c] = o] /\ acc' = [acc EXCEPT ![c] = a]
  BY Zenon DEF Accumulate
<1>2. run \in Plain /\ run.n \in Nat /\ run.ev = e
  BY FlushIsPlain, RunIsPlain
<1>3. closed \in Seq(Plain)
  BY FlushIsPlain
<1>4. a \in OpenRun
  <2>1. run.n >= RunMax \/ run.n < RunMax
    BY <1>2, Sizes
  <2>2. run = Message(e, run.n)
    BY <1>2, Zenon DEF Message
  <2> HIDE DEF run
  <2> QED BY <1>2, <2>1, <2>2, OpenRunType, Sizes, Zenon
<1> HIDE DEF closed, run
<1>5. o \in Seq(Plain)
  BY <1>2, <1>3
<1>6. o \in Seq(Msg)
  BY <1>5, PlainSeq, Zenon
<1> HIDE DEF o, a
<1> QED BY <1>1, <1>4, <1>5, <1>6, Zenon DEF GuestTypes, Writes

\* Neither does the callback of an access.
LEMMA MemAccessStep ==
    ASSUME GuestTypes, NEW c \in Cores, MemAccess(c), Insn(c) \in Accesses
    PROVE  Writes(c)
<1> DEFINE o == FlushRun(c) \o <<Message(Insn(c), 1)>>
           a == [acc[c] EXCEPT !.n = 0]
<1>1. out' = [out EXCEPT ![c] = o] /\ acc' = [acc EXCEPT ![c] = a]
  BY Zenon DEF MemAccess, GuestTypes
<1>2. Message(Insn(c), 1) \in Plain
  BY TraceAssumption, Zenon DEF Message, Plain, Msg, Records
<1>3. o \in Seq(Plain) /\ o \in Seq(Msg)
  <2>1. FlushRun(c) \in Seq(Plain) /\ <<Message(Insn(c), 1)>> \in Seq(Plain)
    BY <1>2, FlushIsPlain
  <2>2. o \in Seq(Plain)
    BY <2>1
  <2> HIDE DEF o
  <2> QED BY <2>2, PlainSeq, Zenon
<1>4. a \in OpenRun
  BY ClosedRunType, Zenon
<1> HIDE DEF o, a
<1> QED BY <1>1, <1>3, <1>4, Zenon DEF GuestTypes, Writes

\* The open run alone is written.
LEMMA FlushStep ==
    ASSUME GuestTypes, NEW c \in Cores,
           out' = [out EXCEPT ![c] = FlushRun(c)], acc' = [acc EXCEPT ![c].n = 0]
    PROVE  Writes(c)
<1> DEFINE a == [acc[c] EXCEPT !.n = 0]
<1>1. acc' = [acc EXCEPT ![c] = a]
  BY Zenon DEF GuestTypes
<1>3. FlushRun(c) \in Seq(Plain) /\ FlushRun(c) \in Seq(Msg)
  BY FlushIsPlain, PlainSeq, Zenon
<1>4. a \in OpenRun
  BY ClosedRunType, Zenon
<1> HIDE DEF a
<1> QED BY <1>1, <1>3, <1>4, Zenon DEF GuestTypes, Writes

-----------------------------------------------------------------------------
(* The invariant holds initially and every step keeps it.                  *)

\* EXIT in a sequence that grows or shrinks by an element.
LEMMA AppendedExit ==
    ASSUME NEW s, NEW S, s \in Seq(S), NEW m
    PROVE  HasExit(Append(s, m)) <=> HasExit(s) \/ m.ev = "exit"
<1>1. Len(s) \in Nat /\ DOMAIN s = 1..Len(s) /\ DOMAIN Append(s, m) = 1..(Len(s) + 1)
  OBVIOUS
<1>2. Append(s, m)[Len(s) + 1] = m /\ \A i \in 1..Len(s) : Append(s, m)[i] = s[i]
  OBVIOUS
<1> QED BY <1>1, <1>2 DEF HasExit

\* An EXIT is the head, or in the tail.
LEMMA PoppedExit ==
    ASSUME NEW S, NEW t \in Seq(S), t # << >>
    PROVE  HasExit(t) <=> Head(t).ev = "exit" \/ HasExit(Tail(t))
<1>1. Len(t) \in Nat /\ Len(t) > 0 /\ DOMAIN t = 1..Len(t) /\ DOMAIN Tail(t) = 1..(Len(t) - 1) /\ Head(t) = t[1]
  OBVIOUS
<1>2. \A i \in 1..(Len(t) - 1) : Tail(t)[i] = t[i + 1]
  OBVIOUS
<1>3. ASSUME NEW i \in 1..Len(t), i # 1 PROVE i - 1 \in 1..(Len(t) - 1) /\ Tail(t)[i - 1] = t[i]
  BY <1>1, <1>2, <1>3
<1>4. HasExit(t) => Head(t).ev = "exit" \/ HasExit(Tail(t))
  BY <1>1, <1>3, Zenon DEF HasExit
<1>5. Head(t).ev = "exit" \/ HasExit(Tail(t)) => HasExit(t)
  BY <1>1, <1>2 DEF HasExit
<1> QED BY <1>4, <1>5, Zenon

\* An EXIT that is moved from one sequence to another is not lost.
LEMMA MovedExit ==
    ASSUME NEW S, NEW s \in Seq(S), NEW t \in Seq(S), t # << >>
    PROVE  HasExit(Append(s, Head(t))) \/ HasExit(Tail(t)) <=> HasExit(s) \/ HasExit(t)
<1>1. HasExit(Append(s, Head(t))) <=> HasExit(s) \/ Head(t).ev = "exit"
  BY AppendedExit, Zenon
<1>2. HasExit(t) <=> Head(t).ev = "exit" \/ HasExit(Tail(t))
  BY PoppedExit, Zenon
<1> QED BY <1>1, <1>2, Zenon

\* The invariant holds initially.
LEMMA InvInit == Init => TraceInv
<1> SUFFICES ASSUME Init PROVE TraceInv
  OBVIOUS
<1> DEFINE p0 == [q |-> << >>, run |-> Message("int", 0), has |-> FALSE, off |-> 0, pending |-> 0, insts |-> 0,
                  halted |-> FALSE, exit |-> FALSE, cap |-> FALSE, done |-> << >>]
<1>1. Message("int", 0) \in Run /\ Message("int", 0) \in OpenRun
  BY OpenRunType, Sizes, Zenon DEF Message, Run, Compute
<1>2. p0 \in Pipes
  <2>1. p0 \in PipeRecord
    BY <1>1 DEF PipeRecord
  <2> QED BY <2>1, Sizes, SMTT(30) DEF Pipes, Cursor
<1>3. pipe = [c \in Cores |-> p0]
  BY Zenon DEF Init
<1>4. \A c \in Cores : pipe[c] = p0
  BY <1>3, Zenon
<1>5. GuestTypes
  <2>1. << >> \in Rings
    BY Sizes DEF Rings
  <2>2. prog \in [Cores -> Seq(Events)]
    BY TraceAssumption, Zenon DEF Init
  <2>3. \A c \in Cores : 0 <= Len(prog[c])
    BY <2>2
  <2>4. leaving \in 0..(N + 1)
    BY Sizes DEF Init
  <2> QED BY <1>1, <2>1, <2>3, <2>4 DEF GuestTypes, Init, Bells, Children
<1>6. SstTypes
  <2>1. pipe \in [Cores -> Pipes]
    BY <1>2, <1>3, Zenon
  <2>2. issued \in 0..MaxIssue /\ polls \in 0..(PollPeriod - 1)
    BY Sizes DEF Init
  <2> QED BY <2>1, <2>2, Sizes, Zenon DEF SstTypes, Init, Steps, Fatal
<1>7. Control
  BY Zenon DEF Init, Control, Booting, Unended, Live
<1>8. ASSUME NEW c \in Cores PROVE CoreInv(c)
  <2>1. c \in Nat /\ ~(0 > c)
    BY Sizes, SMTT(30) DEF Cores
  <2>2. pipe[c].q = << >> /\ ~pipe[c].exit
    BY <1>4
  <2>3. ring[c] = << >> /\ out[c] = << >> /\ bell[c] = "idle" /\ leaving = 0 /\ called[c] = FALSE /\ seen[c] = FALSE /\ at[c] = 0 /\ step = "spawn"
    BY Zenon DEF Init
  <2>4. ~HasExit(<< >>)
    BY DEF HasExit
  <2>5. ExitTrail(c)
    BY <2>1, <2>2, <2>3, <2>4, Zenon DEF ExitTrail
  <2>6. CaughtUp(c) /\ Blocked(c) /\ Served(c)
    BY <2>3, Zenon DEF CaughtUp, Refilled, Blocked, Served
  <2>7. ~(at[c] > 0)
    BY <2>3
  <2>8. Flags(c)
    BY <2>3, <2>7, Zenon DEF Flags
  <2> QED BY <2>5, <2>6, <2>8, Zenon DEF CoreInv
<1> QED BY <1>5, <1>6, <1>7, <1>8, Zenon DEF TraceInv

\* A core that a step does not concern.
LEMMA CoreSame ==
    ASSUME NEW d \in Cores, CoreInv(d),
           pipe'[d] = pipe[d], ring'[d] = ring[d], out'[d] = out[d], bell'[d] = bell[d],
           at'[d] = at[d], called'[d] = called[d], seen'[d] = seen[d], UNCHANGED <<prog, mode, alive>>,
           (leaving' > d) = (leaving > d), bell[d] # "idle" => leaving' = leaving,
           Refilled(d)' => Refilled(d) \/ pipe[d].halted
    PROVE  CoreInv(d)'
<1>1. ExitTrail(d)'
  BY Zenon DEF CoreInv, ExitTrail
<1>2. CaughtUp(d)'
  BY Zenon DEF CoreInv, CaughtUp
<1>3. Blocked(d)' /\ Served(d)' /\ Flags(d)'
  BY Zenon DEF CoreInv, Blocked, Served, Flags
<1> QED BY <1>1, <1>2, <1>3, Zenon DEF CoreInv

\* A callback of vCPU c while its guest runs.
LEMMA CallbackInv ==
    ASSUME TraceInv, NEW c \in Cores, Running(c), Writes(c),
           UNCHANGED <<fixed, bell, leaving, child, ring, sst>>,
           at' \in [Cores -> Nat], \A d \in Cores : at'[d] <= Len(prog[d]),
           called' \in [Cores -> BOOLEAN], seen' \in [Cores -> BOOLEAN],
           \A d \in Cores \ {c} : at'[d] = at[d] /\ called'[d] = called[d] /\ seen'[d] = seen[d],
           Flags(c)'
    PROVE  TraceInv'
<1>1. /\ UNCHANGED <<prog, limit, mode, bell, leaving, child, ring, step, cur, issued, pipe, pid, reaped, alive, polls, posted, result>>
      /\ child = "running" /\ leaving = 0 /\ out[c] = << >> /\ bell[c] = "idle"
  BY Zenon DEF Running, InCall, fixed, sst
<1>2. GuestTypes'
  BY <1>1, Zenon DEF TraceInv, GuestTypes, Writes
<1>3. SstTypes'
  BY <1>1, Zenon DEF TraceInv, SstTypes
<1>4. Control'
  BY <1>1, Zenon DEF TraceInv, Control, Booting, Unended, Live, ExpectExit
<1>5. ASSUME NEW d \in Cores \ {c} PROVE CoreInv(d)'
  BY <1>1, <1>5, CoreSame, Zenon DEF TraceInv, Writes, Refilled
<1>6. CoreInv(c)'
  <2>1. c \in Nat /\ ~(0 > c)
    BY Sizes DEF Cores
  <2>2. ~HasExit(out'[c])
    BY PlainSeq, Zenon DEF Writes
  <2>3. ExitTrail(c)'
    BY <1>1, <2>1, <2>2, Zenon DEF TraceInv, CoreInv, ExitTrail
  <2>4. CaughtUp(c)' /\ Served(c)' /\ Blocked(c)'
    BY <1>1, Zenon DEF TraceInv, CoreInv, CaughtUp, Refilled, Served, Blocked
  <2> QED BY <2>3, <2>4, Zenon DEF CoreInv
<1> QED BY <1>2, <1>3, <1>4, <1>5, <1>6, Zenon DEF TraceInv

\* What the flags tell after an instruction.
LEMMA ExecuteInv ==
    ASSUME TraceInv, NEW c \in Cores, Execute(c)
    PROVE  TraceInv'
<1>1. /\ Running(c) /\ at[c] < Len(prog[c]) /\ called[c] = (mode = "delayed")
      /\ at' = [at EXCEPT ![c] = @ + 1] /\ called' = [called EXCEPT ![c] = FALSE]
      /\ UNCHANGED <<fixed, bell, leaving, child, ring, sst>> /\ Insn(c) # "doorbell"
      /\ IF Insn(c) \in Compute THEN ComputeInsn(c) ELSE MemAccess(c)
  BY Zenon DEF Execute, Ready, Step
<1>2. /\ at \in [Cores -> Nat] /\ called \in [Cores -> BOOLEAN] /\ seen \in [Cores -> BOOLEAN]
      /\ \A d \in Cores : at[d] <= Len(prog[d]) /\ prog[d] \in Seq(Events) /\ Len(prog[d]) \in Nat
  BY TraceAssumption, SMTT(30) DEF TraceInv, GuestTypes
<1>3. /\ at' \in [Cores -> Nat] /\ at'[c] = at[c] + 1 /\ \A d \in Cores \ {c} : at'[d] = at[d]
      /\ called' \in [Cores -> BOOLEAN] /\ called'[c] = FALSE /\ \A d \in Cores \ {c} : called'[d] = called[d]
  BY <1>1, <1>2
<1>4. \A d \in Cores : at'[d] <= Len(prog[d])
  BY <1>1, <1>2, <1>3, SMTT(30)
<1>5. Insn(c) \in Events /\ Insn(c) = prog'[c][at'[c]] /\ at'[c] > 0 /\ mode' = mode
  BY <1>1, <1>2, <1>3 DEF Insn, fixed
<1>6. CASE Insn(c) \in Compute
  <2>1. seen' = seen /\ IF mode = "precise" THEN Accumulate(c, Insn(c)) ELSE UNCHANGED <<out, acc>>
    BY <1>1, <1>6, Zenon DEF ComputeInsn
  <2>2. Writes(c)
    <3>1. CASE mode = "precise"
      BY <1>6, <2>1, <3>1, AccumulateStep, Zenon DEF TraceInv
    <3>2. CASE mode # "precise"
      BY <1>1, <2>1, <3>2 DEF TraceInv, GuestTypes, Running, InCall, Writes
    <3> QED BY <3>1, <3>2, Zenon
  <2>3. Flags(c)'
    <3>1. Insn(c) \notin Accesses
      BY <1>6, TraceAssumption, Zenon
    <3>2. mode = "delayed" => seen[c] = FALSE
      BY <1>1, <1>2, Zenon DEF TraceInv, CoreInv, Flags
    <3> QED BY <1>3, <1>5, <2>1, <3>1, <3>2, Zenon DEF Flags
  <2> QED BY <1>1, <1>2, <1>3, <1>4, <2>1, <2>2, <2>3, CallbackInv, Zenon
<1>7. CASE Insn(c) \notin Compute
  <2>1. MemAccess(c) /\ Insn(c) \in Accesses
    BY <1>1, <1>5, <1>7, Zenon DEF Events, Compute
  <2>2. Writes(c)
    BY <2>1, MemAccessStep, Zenon DEF TraceInv
  <2>3. seen' \in [Cores -> BOOLEAN] /\ seen'[c] = TRUE /\ \A d \in Cores \ {c} : seen'[d] = seen[d]
    BY <1>2, <2>1, Zenon DEF MemAccess
  <2>4. Flags(c)'
    BY <1>3, <1>5, <2>1, <2>3, Zenon DEF Flags
  <2> QED BY <1>1, <1>3, <1>4, <2>2, <2>3, <2>4, CallbackInv, Zenon
<1> QED BY <1>6, <1>7, Zenon

\* Every step of the guest preserves the invariant.
LEMMA ExecCallbackInv ==
    ASSUME TraceInv, NEW c \in Cores, ExecCallback(c)
    PROVE  TraceInv'
<1>1. /\ Running(c) /\ mode = "delayed" /\ seen' = [seen EXCEPT ![c] = FALSE]
      /\ called' = [called EXCEPT ![c] = TRUE] /\ UNCHANGED <<fixed, at, bell, leaving, child, ring, sst>>
      /\ IF seen[c] THEN UNCHANGED <<out, acc>> ELSE Accumulate(c, "other")
  BY Zenon DEF ExecCallback, TakeSeen
<1>2. /\ at \in [Cores -> Nat] /\ called \in [Cores -> BOOLEAN] /\ seen \in [Cores -> BOOLEAN]
      /\ \A d \in Cores : at[d] <= Len(prog[d])
  BY Zenon DEF TraceInv, GuestTypes
<1>3. /\ seen' \in [Cores -> BOOLEAN] /\ seen'[c] = FALSE /\ \A d \in Cores \ {c} : seen'[d] = seen[d]
      /\ called' \in [Cores -> BOOLEAN] /\ called'[c] = TRUE /\ \A d \in Cores \ {c} : called'[d] = called[d]
  BY <1>1, <1>2, Zenon
<1>4. Writes(c)
  <2>1. CASE seen[c]
    BY <1>1, <2>1 DEF TraceInv, GuestTypes, Running, InCall, Writes
  <2>2. CASE ~seen[c]
    BY <1>1, <2>2, AccumulateStep, Zenon DEF TraceInv, Compute
  <2> QED BY <2>1, <2>2, Zenon
<1>5. Flags(c)'
  BY <1>1, <1>3, Zenon DEF Flags, fixed
<1> QED BY <1>1, <1>2, <1>3, <1>4, <1>5, CallbackInv, Zenon

\* A callback that flushes before a doorbell write.
LEMMA DoorbellFlushInv ==
    ASSUME TraceInv, NEW c \in Cores, DoorbellFlush(c)
    PROVE  TraceInv'
<1>1. /\ Running(c) /\ UNCHANGED <<fixed, at, called, seen, bell, leaving, child, ring, sst>>
      /\ out' = [out EXCEPT ![c] = FlushRun(c)] /\ acc' = [acc EXCEPT ![c].n = 0]
  BY Zenon DEF DoorbellFlush, Ready
<1>2. Writes(c)
  BY <1>1, FlushStep, Zenon DEF TraceInv
<1>3. Flags(c)'
  BY <1>1, Zenon DEF TraceInv, CoreInv, Flags, fixed
<1>4. /\ at' \in [Cores -> Nat] /\ called' \in [Cores -> BOOLEAN] /\ seen' \in [Cores -> BOOLEAN]
      /\ \A d \in Cores : at'[d] <= Len(prog[d])
      /\ \A d \in Cores \ {c} : at'[d] = at[d] /\ called'[d] = called[d] /\ seen'[d] = seen[d]
  BY <1>1, Zenon DEF TraceInv, GuestTypes
<1> QED BY <1>1, <1>2, <1>3, <1>4, CallbackInv, Zenon

\* The doorbell write itself.
LEMMA DoorbellWriteInv ==
    ASSUME TraceInv, NEW c \in Cores, DoorbellWrite(c)
    PROVE  TraceInv'
<1>1. /\ Running(c) /\ at[c] < Len(prog[c]) /\ called[c] = (mode = "delayed") /\ Insn(c) = "doorbell"
      /\ at' = [at EXCEPT ![c] = @ + 1] /\ called' = [called EXCEPT ![c] = FALSE]
      /\ bell' = [bell EXCEPT ![c] = "req"]
      /\ UNCHANGED <<prog, limit, mode, seen, acc, out, leaving, child, ring, step, cur, issued, pipe, pid, reaped, alive, polls, posted, result>>
      /\ child = "running" /\ leaving = 0 /\ out[c] = << >> /\ bell[c] = "idle"
  BY Zenon DEF DoorbellWrite, Ready, Step, Running, InCall, fixed, sst
<1>2. /\ at \in [Cores -> Nat] /\ called \in [Cores -> BOOLEAN] /\ seen \in [Cores -> BOOLEAN] /\ bell \in [Cores -> Bells]
      /\ \A d \in Cores : at[d] <= Len(prog[d]) /\ prog[d] \in Seq(Events) /\ Len(prog[d]) \in Nat
  BY TraceAssumption, SMTT(30) DEF TraceInv, GuestTypes
<1>3. /\ at' \in [Cores -> Nat] /\ at'[c] = at[c] + 1 /\ \A d \in Cores \ {c} : at'[d] = at[d]
      /\ called' \in [Cores -> BOOLEAN] /\ called'[c] = FALSE /\ \A d \in Cores \ {c} : called'[d] = called[d]
      /\ bell' \in [Cores -> Bells] /\ bell'[c] = "req" /\ \A d \in Cores \ {c} : bell'[d] = bell[d]
  BY <1>1, <1>2 DEF Bells
<1>4. \A d \in Cores : at'[d] <= Len(prog[d])
  BY <1>1, <1>2, <1>3
<1>5. GuestTypes'
  BY <1>1, <1>3, <1>4, Zenon DEF TraceInv, GuestTypes
<1>6. SstTypes'
  BY <1>1, Zenon DEF TraceInv, SstTypes
<1>7. Control'
  BY <1>1, Zenon DEF TraceInv, Control, Booting, Unended, Live, ExpectExit
<1>8. ASSUME NEW d \in Cores \ {c} PROVE CoreInv(d)'
  BY <1>1, <1>3, <1>8, CoreSame, Zenon DEF TraceInv, Refilled
<1>9. CoreInv(c)'
  <2>1. prog'[c][at'[c]] = "doorbell"
    BY <1>1, <1>3, Zenon DEF Insn
  <2>2. "doorbell" \notin Accesses
    BY TraceAssumption, Zenon
  <2>3. mode = "delayed" => seen[c] = FALSE
    BY <1>1, <1>2, Zenon DEF TraceInv, CoreInv, Flags
  <2>4. Flags(c)'
    BY <1>1, <1>3, <2>1, <2>2, <2>3, ZenonT(60) DEF Flags
  <2>5. ExitTrail(c)'
    BY <1>1, Zenon DEF TraceInv, CoreInv, ExitTrail
  <2>6. CaughtUp(c)' /\ Blocked(c)' /\ Served(c)'
    BY <1>1, <1>3, Zenon DEF TraceInv, CoreInv, CaughtUp, Refilled, Blocked, Served
  <2> QED BY <2>4, <2>5, <2>6, Zenon DEF CoreInv
<1> QED BY <1>5, <1>6, <1>7, <1>8, <1>9, Zenon DEF TraceInv

\* A message goes to the ring.
LEMMA WriteMessageInv ==
    ASSUME TraceInv, NEW c \in Cores, WriteMessage(c)
    PROVE  TraceInv'
<1>1. /\ child = "running" /\ out[c] # << >> /\ Len(ring[c]) < RingSize
      /\ ring' = [ring EXCEPT ![c] = Append(@, Head(out[c]))] /\ out' = [out EXCEPT ![c] = Tail(@)]
      /\ UNCHANGED <<prog, limit, mode, at, called, seen, acc, bell, leaving, child>>
      /\ UNCHANGED <<step, cur, issued, pipe, pid, reaped, alive, polls, posted, result>>
  BY Zenon DEF WriteMessage, fixed, sst
<1>2. out \in [Cores -> Seq(Msg)] /\ ring \in [Cores -> Rings] /\ out[c] \in Seq(Msg) /\ ring[c] \in Seq(Msg)
  BY Zenon DEF TraceInv, GuestTypes, Rings
<1>3. /\ Tail(out[c]) \in Seq(Msg) /\ Head(out[c]) \in Msg
      /\ Append(ring[c], Head(out[c])) \in Seq(Msg) /\ Len(Append(ring[c], Head(out[c]))) = Len(ring[c]) + 1
  BY <1>1, <1>2, HeadTail
<1>4. Append(ring[c], Head(out[c])) \in Rings
  BY <1>1, <1>2, <1>3, Sizes DEF Rings
<1>5. /\ ring' \in [Cores -> Rings] /\ ring'[c] = Append(ring[c], Head(out[c])) /\ \A d \in Cores \ {c} : ring'[d] = ring[d]
      /\ out' \in [Cores -> Seq(Msg)] /\ out'[c] = Tail(out[c]) /\ \A d \in Cores \ {c} : out'[d] = out[d]
  BY <1>1, <1>2, <1>3, <1>4, Zenon
<1>6. GuestTypes'
  BY <1>1, <1>5, Zenon DEF TraceInv, GuestTypes
<1>7. SstTypes'
  BY <1>1, Zenon DEF TraceInv, SstTypes
<1>8. Control'
  BY <1>1, Zenon DEF TraceInv, Control, Booting, Unended, Live, ExpectExit
<1>9. ASSUME NEW d \in Cores \ {c} PROVE CoreInv(d)'
  BY <1>1, <1>5, <1>9, CoreSame, Zenon DEF TraceInv, Refilled
<1>10. CoreInv(c)'
  <2>1. HasExit(ring'[c]) \/ HasExit(out'[c]) <=> HasExit(ring[c]) \/ HasExit(out[c])
    BY <1>1, <1>2, <1>3, <1>5, MovedExit, Zenon
  <2>2. ExitTrail(c)'
    BY <1>1, <2>1, Zenon DEF TraceInv, CoreInv, ExitTrail
  <2>3. bell[c] = "idle" /\ alive
    BY <1>1, Zenon DEF TraceInv, CoreInv, Blocked, Control, SstTypes
  <2>4. CaughtUp(c)' /\ Blocked(c)' /\ Served(c)' /\ Flags(c)'
    BY <1>1, <2>3, Zenon DEF TraceInv, CoreInv, CaughtUp, Blocked, Served, Flags
  <2> QED BY <2>2, <2>4, Zenon DEF CoreInv
<1> QED BY <1>6, <1>7, <1>8, <1>9, <1>10, Zenon DEF TraceInv

\* The guest exits.
LEMMA GuestExitInv ==
    ASSUME TraceInv, GuestExit
    PROVE  TraceInv'
<1>1. /\ child = "running" /\ leaving = 0 /\ leaving' = 1
      /\ \A c \in Cores : out[c] = << >> /\ bell[c] = "idle"
      /\ UNCHANGED <<prog, limit, mode, at, called, seen, acc, out, bell, child, ring>>
      /\ UNCHANGED <<step, cur, issued, pipe, pid, reaped, alive, polls, posted, result>>
  BY Zenon DEF GuestExit, InCall, fixed, sst
<1>2. leaving' \in 0..(N + 1)
  BY <1>1, Sizes
<1>3. GuestTypes'
  BY <1>1, <1>2, Zenon DEF TraceInv, GuestTypes
<1>4. SstTypes'
  BY <1>1, Zenon DEF TraceInv, SstTypes
<1>5. Control'
  BY <1>1, Zenon DEF TraceInv, Control, Booting, Unended, Live, ExpectExit
<1>6. ASSUME NEW d \in Cores PROVE CoreInv(d)'
  <2>1. (leaving' > d) = (leaving > d)
    BY <1>1, Sizes DEF Cores
  <2> QED BY <1>1, <2>1, CoreSame, Zenon DEF TraceInv, Refilled
<1> QED BY <1>3, <1>4, <1>5, <1>6, Zenon DEF TraceInv

\* cb_atexit writes an EXIT.
LEMMA AtExitInv ==
    ASSUME TraceInv, AtExit
    PROVE  TraceInv'
<1> DEFINE o == AtExitMessages(leaving)
           a == [acc[leaving] EXCEPT !.n = 0]
<1>1. /\ child = "running" /\ leaving \in Cores /\ leaving' = leaving + 1
      /\ \A c \in Cores : out[c] = << >>
      /\ out' = [out EXCEPT ![leaving] = o] /\ acc' = [acc EXCEPT ![leaving] = a]
      /\ UNCHANGED <<prog, limit, mode, at, called, seen, bell, child, ring>>
      /\ UNCHANGED <<step, cur, issued, pipe, pid, reaped, alive, polls, posted, result>>
  BY Zenon DEF AtExit, fixed, sst, TraceInv, GuestTypes
<1>2. leaving \in Nat /\ leaving' \in 0..(N + 1) /\ leaving # 0 /\ leaving' > leaving
  BY <1>1, Sizes, SMTT(30) DEF Cores
<1>3. a \in OpenRun
  BY <1>1, ClosedRunType, Zenon DEF TraceInv
<1>4. o \in Seq(Msg) /\ HasExit(o)
  <2>1. Message("exit", 1) \in Msg /\ Message("exit", 1).ev = "exit"
    BY Zenon DEF Message, Msg, Records
  <2>2. FlushRun(leaving) \in Seq(Msg)
    BY <1>1, FlushIsPlain, PlainSeq, Zenon DEF TraceInv
  <2>3. o = Append(FlushRun(leaving), Message("exit", 1)) /\ o \in Seq(Msg)
    BY <2>1, <2>2 DEF AtExitMessages
  <2>4. Len(o) \in DOMAIN o /\ o[Len(o)] = Message("exit", 1)
    BY <2>1, <2>2, <2>3
  <2> HIDE DEF o
  <2> QED BY <2>1, <2>3, <2>4, Zenon DEF HasExit
<1> HIDE DEF o, a
<1>5. /\ out' \in [Cores -> Seq(Msg)] /\ out'[leaving] = o /\ \A d \in Cores \ {leaving} : out'[d] = out[d]
      /\ acc' \in [Cores -> OpenRun]
  BY <1>1, <1>3, <1>4, Zenon DEF TraceInv, GuestTypes
<1>6. GuestTypes'
  BY <1>1, <1>2, <1>5, Zenon DEF TraceInv, GuestTypes
<1>7. SstTypes'
  BY <1>1, Zenon DEF TraceInv, SstTypes
<1>8. Control'
  BY <1>1, Zenon DEF TraceInv, Control, Booting, Unended, Live, ExpectExit
<1>9. \A d \in Cores : bell[d] = "idle"
  BY <1>2, Zenon DEF TraceInv, CoreInv, Blocked
<1>10. ASSUME NEW d \in Cores \ {leaving} PROVE CoreInv(d)'
  <2>1. (leaving' > d) = (leaving > d)
    BY <1>1, <1>2, Sizes DEF Cores
  <2> QED BY <1>1, <1>5, <1>9, <1>10, <2>1, CoreSame, Zenon DEF TraceInv, Refilled
<1>11. ASSUME NEW c \in Cores, c = leaving PROVE CoreInv(c)'
  <2>1. ExitTrail(c)'
    BY <1>1, <1>2, <1>4, <1>5, <1>11, Zenon DEF ExitTrail
  <2>2. CaughtUp(c)' /\ Blocked(c)' /\ Served(c)' /\ Flags(c)'
    BY <1>1, <1>9, Zenon DEF TraceInv, CoreInv, CaughtUp, Refilled, Blocked, Served, Flags
  <2> QED BY <2>1, <2>2, Zenon DEF CoreInv
<1> QED BY <1>6, <1>7, <1>8, <1>10, <1>11, Zenon DEF TraceInv

\* Steps of the child and of the launcher: the trace stays where it is.
LEMMA LauncherInv ==
    ASSUME TraceInv, UNCHANGED <<prog, limit, mode, at, called, seen, acc, out, bell, leaving, ring>>,
           UNCHANGED <<cur, issued, pipe, alive, polls, posted>>,
           child' \in Children, step' \in Steps, pid' \in BOOLEAN, reaped' \in BOOLEAN,
           result' \in Fatal \union {"none", "ending", "ok"},
           step' = step \/ step' \in {"attached?", "waitpid", "between"}, Control'
    PROVE  TraceInv'
<1>1. GuestTypes' /\ SstTypes'
  BY Zenon DEF TraceInv, GuestTypes, SstTypes
<1>2. ASSUME NEW d \in Cores PROVE CoreInv(d)'
  BY CoreSame, Zenon DEF TraceInv, Refilled
<1> QED BY <1>1, <1>2, Zenon DEF TraceInv

\* The process attaches, ends or vanishes.
LEMMA ChildInv ==
    ASSUME TraceInv, Attach \/ DieEarly \/ Vanish \/ Fail \/ ProcessExit
    PROVE  TraceInv'
<1>1. /\ UNCHANGED <<prog, limit, mode, at, called, seen, acc, out, bell, leaving, ring>>
      /\ UNCHANGED <<step, cur, issued, pipe, pid, reaped, alive, polls, posted, result>>
  BY Zenon DEF Attach, DieEarly, Vanish, Fail, ProcessExit, fixed, sst
<1>2. child' \in Children
  BY Zenon DEF Attach, DieEarly, Vanish, Fail, ProcessExit, Children
<1>3. /\ step \in Steps /\ pid \in BOOLEAN /\ reaped \in BOOLEAN /\ result \in Fatal \union {"none", "ending", "ok"}
      /\ alive \in BOOLEAN
  BY Zenon DEF TraceInv, SstTypes
<1>4. Control'
  <2>1. CASE Attach
    BY <1>1, <2>1, Zenon DEF Attach, TraceInv, Control, Booting, Unended, Live, ExpectExit
  <2>2. CASE DieEarly
    BY <1>1, <2>2, Zenon DEF DieEarly, TraceInv, Control, Booting, Unended, Live, ExpectExit
  <2>3. CASE Vanish
    BY <1>1, <2>3, Zenon DEF Vanish, TraceInv, Control, Booting, Unended, Live, ExpectExit
  <2>4. CASE ProcessExit
    BY <1>1, <2>4, Zenon DEF ProcessExit, TraceInv, Control, Booting, Unended, Live, ExpectExit
  <2>5. CASE Fail
    BY <1>1, <2>5, Zenon DEF Fail, TraceInv, Control, Booting, Unended, Live, ExpectExit
  <2> QED BY <2>1, <2>2, <2>3, <2>4, <2>5, Zenon
<1> QED BY <1>1, <1>2, <1>3, <1>4, LauncherInv, Zenon

\* SST forks the child and waits for it.
LEMMA SpawnInv ==
    ASSUME TraceInv, Spawn \/ CheckAttached \/ CheckStarting
    PROVE  TraceInv'
<1>1. /\ UNCHANGED <<prog, limit, mode, at, called, seen, acc, out, bell, leaving, ring>>
      /\ UNCHANGED <<cur, issued, pipe, alive, polls, posted>>
  BY Zenon DEF Spawn, CheckAttached, CheckStarting, guest, fixed
<1>2. /\ step \in Steps /\ pid \in BOOLEAN /\ reaped \in BOOLEAN /\ result \in Fatal \union {"none", "ending", "ok"}
      /\ alive \in BOOLEAN /\ child \in Children
  BY Zenon DEF TraceInv, SstTypes, GuestTypes
<1>3. CASE Spawn
  <2>1. Control'
    <3>1. /\ child = "none" /\ ~reaped /\ ~pid /\ reaped' = reaped /\ alive /\ result = "none" /\ step = "spawn"
      BY <1>3, Zenon DEF Spawn, TraceInv, Control, Live, Booting
    <3>2. CASE result' = "refused" /\ UNCHANGED <<child, pid, step>>
      BY <1>1, <1>2, <3>1, <3>2, Zenon DEF Control, Booting, Unended, Live
    <3>3. CASE child' = "starting" /\ pid' = TRUE /\ step' = "attached?" /\ result' = result
      BY <1>1, <1>2, <3>1, <3>3, Zenon DEF Control, Booting, Unended, Live
    <3> QED BY <1>3, <3>2, <3>3, Zenon DEF Spawn
  <2>2. /\ child' \in Children /\ step' \in Steps /\ pid' \in BOOLEAN /\ reaped' \in BOOLEAN
        /\ result' \in Fatal \union {"none", "ending", "ok"}
        /\ step' = step \/ step' \in {"attached?", "waitpid", "between"}
    BY <1>2, <1>3, ZenonT(60) DEF Spawn, Children, Steps, Fatal
  <2> QED BY <1>1, <2>1, <2>2, LauncherInv, Zenon
<1>4. CASE CheckAttached
  <2>1. Control'
    BY <1>1, <1>2, <1>4 DEF CheckAttached, Attached, TraceInv, Control, Booting, Unended, Live, ExpectExit, guest
  <2>2. /\ child' \in Children /\ step' \in Steps /\ pid' \in BOOLEAN /\ reaped' \in BOOLEAN
        /\ result' \in Fatal \union {"none", "ending", "ok"}
        /\ step' = step \/ step' \in {"attached?", "waitpid", "between"}
    BY <1>2, <1>4, Zenon DEF CheckAttached, Steps, guest
  <2> QED BY <1>1, <2>1, <2>2, LauncherInv, Zenon
<1>5. CASE CheckStarting
  <2>1. Control'
    <3>1. /\ alive /\ result = "none" /\ step = "waitpid" /\ child' = child /\ pid' = pid /\ ~reaped
          /\ child \notin {"none", "killed"}
          /\ child \in {"starting", "running"} => pid
          /\ child = "vanish" => leaving = 0
          /\ child = "ok" => leaving = N + 1 /\ \A c \in Cores : out[c] = << >>
      BY <1>5, Zenon DEF CheckStarting, TraceInv, Control, Live, Booting, Unended, guest
    <3>2. CASE child \in {"starting", "running"} /\ step' = "attached?" /\ UNCHANGED <<result, reaped>>
      BY <1>1, <1>2, <3>1, <3>2, Zenon DEF Control, Booting, Unended, Live
    <3>3. CASE result' = "not attached" /\ reaped' = TRUE /\ step' = step /\ child \notin {"starting", "running"}
      BY <1>1, <1>2, <3>1, <3>3, Zenon DEF Control, Booting, Unended, Live
    <3> QED BY <1>5, <3>2, <3>3, Zenon DEF CheckStarting
  <2>2. /\ child' \in Children /\ step' \in Steps /\ pid' \in BOOLEAN /\ reaped' \in BOOLEAN
        /\ result' \in Fatal \union {"none", "ending", "ok"}
        /\ step' = step \/ step' \in {"attached?", "waitpid", "between"}
    BY <1>2, <1>5, Zenon DEF CheckStarting, Steps, Fatal, guest
  <2> QED BY <1>1, <2>1, <2>2, LauncherInv, Zenon
<1> QED BY <1>3, <1>4, <1>5, Zenon

\* Terminate: an EXIT that a core consumed was written, so the child did not
\* vanish.
LEMMA EndInv ==
    ASSUME TraceInv, Terminate \/ EmergencyShutdown
    PROVE  TraceInv'
<1>1. /\ UNCHANGED <<prog, limit, mode, at, called, seen, acc, out, bell, leaving, ring>>
      /\ UNCHANGED <<step, cur, issued, pipe, alive, polls, posted>>
  BY Zenon DEF Terminate, EmergencyShutdown, fixed
<1>2. /\ step \in Steps /\ pid \in BOOLEAN /\ reaped \in BOOLEAN /\ result \in Fatal \union {"none", "ending", "ok"}
      /\ alive \in BOOLEAN /\ child \in Children
  BY Zenon DEF TraceInv, SstTypes, GuestTypes
<1>3. CASE Terminate
  <2>1. ExpectExit => leaving # 0
    <3>1. ExpectExit => leaving > 1
      BY Sizes, Zenon DEF TraceInv, CoreInv, ExitTrail, ExpectExit
    <3> QED BY <3>1
  <2>2. /\ child' \in Children /\ pid' \in BOOLEAN /\ reaped' \in BOOLEAN /\ reaped' = ~pid'
        /\ result' \in Fatal \union {"none", "ending", "ok"}
    BY <1>2, <1>3, Zenon DEF Terminate, Children, Fatal
  <2>3. /\ child \notin {"none", "starting", "early", "killed"}
        /\ result' \in {"ok", "child failed", "child stuck"} /\ result = "ending" /\ ~Booting
    BY <1>2, <1>3, Zenon DEF Terminate, TraceInv, Control, Unended
  <2>4. /\ child' \in {child, "killed", "failed"}
        /\ child' # "ok" \/ child = "ok"
        /\ child' = "running" => child = "running" /\ pid' = pid
        /\ child' = "vanish" => child = "vanish"
        /\ result' = "ok" => child' \notin {"none", "starting", "early", "running", "failed"} /\ (ExpectExit => child' = "ok")
        /\ result' = "child failed" => child' = "failed"
    <3>1. CASE child # "running"
      <4>1. child' = child /\ result' = IF child = "failed" THEN "child failed" ELSE "ok"
        BY <1>3, <3>1, Zenon DEF Terminate
      <4>2. ExpectExit => child # "vanish"
        BY <2>1, Zenon DEF TraceInv, Control
      <4> QED BY <1>2, <2>3, <3>1, <4>1, <4>2, Zenon DEF Children
    <3>2. CASE child = "running" /\ ExpectExit
      BY <1>3, <3>2, Zenon DEF Terminate
    <3>3. CASE child = "running" /\ ~ExpectExit
      BY <1>3, <3>3, Zenon DEF Terminate
    <3> QED BY <3>1, <3>2, <3>3, Zenon
  <2>5. (ExpectExit' <=> ExpectExit) /\ ~Booting' /\ ~Live' /\ ~Unended' /\ step' # "spawn" /\ step # "spawn"
    BY <1>1, <2>3, Zenon DEF ExpectExit, Booting, Live, Unended
  <2>6. /\ child' = "vanish" => leaving' = 0
        /\ child' = "ok" => leaving' = N + 1
        /\ child' \in {"starting", "running"} => pid'
        /\ ~alive' => child' \notin {"starting", "running"}
    <3>1. /\ child = "vanish" => leaving = 0
          /\ child = "ok" => leaving = N + 1
          /\ child = "running" => pid
          /\ ~alive => child # "running"
      BY Zenon DEF TraceInv, Control
    <3> QED BY <1>1, <2>3, <2>4, <3>1, Zenon
  <2>7. step' = "issue" => ~pipe'[cur'].halted
    BY <1>1, Zenon DEF TraceInv, Control
  <2>8. /\ child' \notin {"none", "starting", "early"}
        /\ ~(pid' /\ reaped') /\ result' # "no EXIT"
    BY <2>2, <2>3, <2>4, Zenon
  <2>9. Control'
    BY <2>3, <2>4, <2>5, <2>6, <2>7, <2>8, Zenon DEF Control
  <2> QED BY <1>1, <1>2, <2>2, <2>9, LauncherInv, Zenon
<1>4. CASE EmergencyShutdown
  <2>1. Control'
    <3>1. /\ result' = result /\ result \in Fatal /\ ~pid' /\ pid /\ reaped'
          /\ child' = IF child \in {"starting", "running"} THEN "killed" ELSE child
      BY <1>4, Zenon DEF EmergencyShutdown, ForceKill
    <3>2. step # "spawn"
      BY <3>1, Zenon DEF TraceInv, Control
    <3>3. ~Unended' /\ ~Live' /\ result # "ok" /\ (Booting' <=> Booting)
      BY <1>1, <3>1, Zenon DEF Fatal, Unended, Live, Booting
    <3> QED BY <1>1, <1>2, <3>1, <3>2, <3>3, Zenon DEF TraceInv, Control
  <2>2. child' \in Children /\ pid' \in BOOLEAN /\ reaped' \in BOOLEAN /\ result' = result
    BY <1>2, <1>4, Zenon DEF EmergencyShutdown, ForceKill, Children
  <2> QED BY <1>1, <1>2, <2>1, <2>2, LauncherInv, Zenon
<1> QED BY <1>3, <1>4, Zenon

\* A step of QuetzCPU::tick leaves the verdict open.
LEMMA TickControl ==
    ASSUME TraceInv, Live, ~Booting, step' \in {"between", "refill", "issue", "after"},
           UNCHANGED <<child, pid, reaped, alive, result, leaving, out>>,
           step' = "issue" => ~pipe'[cur'].halted
    PROVE  Control'
<1>1. ~Booting' /\ Live' /\ Unended' /\ Unended /\ step' # "spawn" /\ result' = "none"
  BY Zenon DEF Booting, Live, Unended
<1> QED BY <1>1, Zenon DEF TraceInv, Control

\* The cores that have refilled stay the same when a core's tick ends, but for a
\* halted core, whose tick is empty.
LEMMA NextCoreStep ==
    ASSUME NEW c \in Cores, NextCore(c), cur = c, step \in {"refill", "issue"}
    PROVE  /\ cur' \in Cores /\ step' \in {"refill", "after"}
           /\ step = "issue" => \A d \in Cores : Refilled(d)' => Refilled(d)
           /\ \A d \in Cores \ {c} : Refilled(d)' => Refilled(d)
<1>1. N \in Nat /\ c \in Nat /\ c >= 1 /\ c <= N
  BY Sizes DEF Cores
<1>2. cur' \in Cores /\ step' \in {"refill", "after"}
  BY <1>1 DEF NextCore, Cores
<1>3. ASSUME NEW d \in Cores, step = "issue" \/ d # c, Refilled(d)' PROVE Refilled(d)
  <2>1. d \in Nat /\ d >= 1 /\ d <= N
    BY Sizes DEF Cores
  <2>2. CASE c < N
    <3>1. step' = "refill" /\ cur' = c + 1
      BY <2>2, Zenon DEF NextCore
    <3>2. d < c + 1
      BY <1>3, <3>1, Zenon DEF Refilled
    <3> QED BY <1>1, <1>3, <2>1, <3>2, SMTT(30) DEF Refilled
  <2>3. CASE ~(c < N)
    BY <1>1, <1>3, <2>1, <2>3, SMTT(30) DEF Refilled
  <2> QED BY <2>2, <2>3, Zenon
<1> QED BY <1>2, <1>3, Zenon

\* A tick begins.
LEMMA TickStartInv ==
    ASSUME TraceInv, TickStart
    PROVE  TraceInv'
<1>1. /\ Live /\ step = "between" /\ step' = "refill" /\ cur' = 1
      /\ UNCHANGED <<prog, limit, mode, at, called, seen, acc, out, leaving, child, ring>>
      /\ UNCHANGED <<issued, pipe, pid, reaped, alive, polls, posted, result>>
  BY Zenon DEF TickStart, fixed
<1>b. PICK others \in SUBSET {c \in Cores : bell[c] = "req"} :
         bell' = [c \in Cores |-> IF c \in others THEN "direct"
                                 ELSE IF bell[c] = "req" THEN "armed" ELSE bell[c]]
  BY Zenon DEF TickStart
<1>2. GuestTypes'
  <2>1. bell' \in [Cores -> Bells]
    BY <1>b, Zenon DEF TraceInv, GuestTypes, Bells
  <2> QED BY <1>1, <2>1, Zenon DEF TraceInv, GuestTypes
<1>3. SstTypes'
  BY <1>1, Sizes, Zenon DEF TraceInv, SstTypes, Steps
<1>4. Control'
  BY <1>1, TickControl, Zenon DEF Booting
<1>5. ASSUME NEW d \in Cores PROVE CoreInv(d)'
  <2>1. ~Refilled(d)'
    BY <1>1, Sizes DEF Refilled, Cores
  <2>2. (bell'[d] # "idle" <=> bell[d] # "idle") /\ (bell'[d] = "sent" <=> bell[d] = "sent")
    BY <1>b, Zenon
  <2>3. ExitTrail(d)' /\ Flags(d)'
    BY <1>1, Zenon DEF TraceInv, CoreInv, ExitTrail, Flags
  <2>4. CaughtUp(d)' /\ Blocked(d)' /\ Served(d)'
    BY <1>1, <2>1, <2>2, Zenon DEF TraceInv, CoreInv, CaughtUp, Blocked, Served
  <2> QED BY <2>3, <2>4, Zenon DEF CoreInv
<1> QED BY <1>2, <1>3, <1>4, <1>5, Zenon DEF TraceInv

\* A core has nothing to do.
LEMMA SkipInv ==
    ASSUME TraceInv, NEW c \in Cores, SkipHalted(c) \/ QueueEmpty(c)
    PROVE  TraceInv'
<1>1. /\ Live /\ step \in {"refill", "issue"} /\ cur = c /\ NextCore(c) /\ (step = "issue" \/ pipe[c].halted)
      /\ UNCHANGED <<prog, limit, mode, at, called, seen, acc, out, bell, leaving, child, ring>>
      /\ UNCHANGED <<issued, pipe, pid, reaped, alive, polls, posted, result>>
  BY Zenon DEF SkipHalted, QueueEmpty, Issuing, guest, fixed
<1>2. /\ cur' \in Cores /\ step' \in {"refill", "after"}
      /\ step = "issue" => \A d \in Cores : Refilled(d)' => Refilled(d)
      /\ \A d \in Cores \ {c} : Refilled(d)' => Refilled(d)
  BY <1>1, NextCoreStep, Zenon
<1>3. GuestTypes' /\ SstTypes'
  BY <1>1, <1>2, Zenon DEF TraceInv, GuestTypes, SstTypes, Steps
<1>4. Control'
  BY <1>1, <1>2, TickControl, Zenon DEF Booting
<1>5. ASSUME NEW d \in Cores PROVE CoreInv(d)'
  BY <1>1, <1>2, CoreSame, Zenon DEF TraceInv
<1> QED BY <1>3, <1>4, <1>5, Zenon DEF TraceInv

\* In a queue that keeps its events, so does an EXIT.
LEMMA KeptExit ==
    ASSUME NEW s, NEW t, NEW S, s \in Seq(S), t \in Seq(S), Len(s) = Len(t), \A i \in DOMAIN s : t[i].ev = s[i].ev
    PROVE  HasExit(t) <=> HasExit(s)
<1>1. DOMAIN s = DOMAIN t
  OBVIOUS
<1> QED BY <1>1, Zenon DEF HasExit

\* A core issues, consumes or halts.
LEMMA IssueInv ==
    ASSUME TraceInv, NEW c \in Cores, IssueMemOp(c) \/ Dispatch(c)
    PROVE  TraceInv'
<1>1. /\ Live /\ step = "issue" /\ cur = c
      /\ UNCHANGED <<prog, limit, mode, at, called, seen, acc, out, bell, leaving, child, ring>>
      /\ UNCHANGED <<pid, reaped, alive, polls, posted, result>>
  BY Zenon DEF IssueMemOp, Dispatch, Issuing, guest, fixed
<1>2. Moves(c) /\ issued' \in 0..MaxIssue
  <2>1. CASE IssueMemOp(c)
    BY <2>1, IssueMemOpStep, Zenon DEF TraceInv
  <2>2. CASE Dispatch(c)
    <3>1. issued' = issued
      BY <2>2, Zenon DEF Dispatch
    <3> QED BY <2>2, <3>1, DispatchStep, Zenon DEF TraceInv, SstTypes
  <2> QED BY <2>1, <2>2, Zenon
<1>3. pipe' \in [Cores -> Pipes] /\ (\A d \in Cores \ {c} : pipe'[d] = pipe[d]) /\ pipe[c].q # << >>
      /\ pipe[c].q \in Seq(Entry) /\ pipe'[c].q \in Seq(Entry)
  BY <1>2, Zenon DEF Moves, Others, TraceInv, SstTypes, Pipes, PipeRecord
<1>4. ~pipe[c].halted
  BY <1>1, Zenon DEF TraceInv, Control
<1>5. /\ cur' \in Cores /\ step' \in {"refill", "issue", "after"}
      /\ \A d \in Cores : Refilled(d)' => Refilled(d)
      /\ step' = "issue" => ~pipe'[cur'].halted
  <2>1. CASE UNCHANGED <<step, cur>> /\ ~pipe'[c].halted
    BY <1>1, <2>1, Zenon DEF Refilled
  <2>2. CASE NextCore(c)
    BY <1>1, <2>2, NextCoreStep, Zenon
  <2> QED BY <1>2, <2>1, <2>2, Zenon DEF Moves
<1>6. GuestTypes' /\ SstTypes'
  BY <1>1, <1>2, <1>3, <1>5, Zenon DEF TraceInv, GuestTypes, SstTypes, Steps
<1>7. Control'
  BY <1>1, <1>5, TickControl, Zenon DEF Booting
<1>8. ASSUME NEW d \in Cores \ {c} PROVE CoreInv(d)'
  BY <1>1, <1>3, <1>5, <1>8, CoreSame, Zenon DEF TraceInv
<1>9. CoreInv(c)'
  <2>1. /\ HasExit(pipe[c].q) => HasExit(pipe'[c].q) \/ pipe'[c].halted
        /\ HasExit(pipe'[c].q) \/ pipe'[c].exit => HasExit(pipe[c].q) \/ pipe[c].exit
    <3>1. CASE Keeps(c)
      BY <1>3, <3>1, KeptExit, ZenonT(60) DEF Keeps
    <3>2. CASE Pops(c)
      BY <1>3, <3>2, PoppedExit, SMTT(40) DEF Pops
    <3> QED BY <1>2, <3>1, <3>2, Zenon DEF Moves
  <2>2. ExitTrail(c)'
    BY <1>1, <1>4, <2>1, Zenon DEF TraceInv, CoreInv, ExitTrail
  <2>3. CaughtUp(c)'
    BY <1>1, <1>2, <1>4, <1>5, <2>1, Zenon DEF TraceInv, CoreInv, CaughtUp, Moves
  <2>4. Blocked(c)' /\ Flags(c)'
    BY <1>1, Zenon DEF TraceInv, CoreInv, Blocked, Flags
  <2>5. Served(c)'
    BY <1>1, <1>3, <1>4, Zenon DEF TraceInv, CoreInv, Served
  <2> QED BY <2>2, <2>3, <2>4, <2>5, Zenon DEF CoreInv
<1> QED BY <1>6, <1>7, <1>8, <1>9, Zenon DEF TraceInv

\* An empty sequence holds no EXIT.
LEMMA EmptyExit == ~HasExit(<< >>)
BY DEF HasExit

\* A queue that grows keeps its EXIT; a run adds none.
LEMMA GrownExit ==
    ASSUME NEW s \in Seq(Entry), NEW t \in Seq(Entry), \A i \in DOMAIN t : t[i].ev # "exit"
    PROVE  HasExit(s \o t) <=> HasExit(s)
<1>1. /\ Len(s) \in Nat /\ DOMAIN s = 1..Len(s) /\ DOMAIN (s \o t) = 1..(Len(s) + Len(t))
      /\ Len(t) \in Nat /\ DOMAIN t = 1..Len(t)
  OBVIOUS
<1>2. \A i \in 1..(Len(s) + Len(t)) : (s \o t)[i] = IF i <= Len(s) THEN s[i] ELSE t[i - Len(s)]
  OBVIOUS
<1>3. ASSUME NEW i \in 1..(Len(s) + Len(t)), (s \o t)[i].ev = "exit" PROVE i \in 1..Len(s) /\ s[i].ev = "exit"
  <2>1. CASE i <= Len(s)
    BY <1>1, <1>2, <1>3, <2>1
  <2>2. CASE ~(i <= Len(s))
    <3>1. i - Len(s) \in 1..Len(t) /\ (s \o t)[i] = t[i - Len(s)]
      BY <1>1, <1>2, <2>2
    <3> QED BY <1>1, <1>3, <3>1, Zenon
  <2> QED BY <2>1, <2>2, Zenon
<1>4. \A i \in 1..Len(s) : i \in 1..(Len(s) + Len(t)) /\ (s \o t)[i] = s[i]
  BY <1>1, <1>2
<1> QED BY <1>1, <1>3, <1>4, Zenon DEF HasExit

\* A run is expanded.
LEMMA DrainRunInv ==
    ASSUME TraceInv, NEW c \in Cores, DrainRun(c)
    PROVE  TraceInv'
<1>1. /\ Live /\ step = "refill" /\ cur = c /\ ~pipe[c].halted /\ pipe[c].run.n > 0
      /\ UNCHANGED <<prog, limit, mode, at, called, seen, acc, out, bell, leaving, child, ring>>
      /\ UNCHANGED <<step, cur, issued, pid, reaped, alive, polls, posted, result>>
  BY Zenon DEF DrainRun, Refilling, guest, fixed
<1>2. Refills(c)
  BY DrainRunStep, Zenon DEF TraceInv
<1>3. PICK k \in Nat : pipe'[c].q = pipe[c].q \o [i \in 1..k |-> Staged(pipe[c].run.ev)]
  BY DrainRunStep, Zenon DEF TraceInv
<1>4. HasExit(pipe'[c].q) <=> HasExit(pipe[c].q)
  <2>1. pipe[c].q \in Seq(Entry) /\ pipe[c].run.ev \in Compute
    BY Zenon DEF TraceInv, SstTypes, Pipes, PipeRecord, Run
  <2> DEFINE t == [i \in 1..k |-> Staged(pipe[c].run.ev)]
  <2>2. Staged(pipe[c].run.ev) \in Entry /\ Staged(pipe[c].run.ev).ev # "exit"
    BY <2>1, StagedType, Zenon DEF Records, Compute
  <2>3. t \in Seq(Entry) /\ \A i \in DOMAIN t : t[i].ev # "exit"
    BY <2>2
  <2>4. pipe'[c].q = pipe[c].q \o t
    BY <1>3, Zenon
  <2> HIDE DEF t
  <2> QED BY <2>1, <2>3, <2>4, GrownExit
<1>5. GuestTypes' /\ SstTypes'
  BY <1>1, <1>2, Zenon DEF TraceInv, GuestTypes, SstTypes, Refills
<1>6. Control'
  BY <1>1, TickControl, Zenon DEF Booting
<1>7. ASSUME NEW d \in Cores \ {c} PROVE CoreInv(d)'
  BY <1>1, <1>2, <1>7, CoreSame, Zenon DEF TraceInv, Refills, Others, Refilled
<1>8. CoreInv(c)'
  <2>1. ~Refilled(c)'
    BY <1>1, Sizes, SMTT(40) DEF Refilled, Cores
  <2>2. ExitTrail(c)'
    BY <1>1, <1>2, <1>4, ZenonT(60) DEF TraceInv, CoreInv, ExitTrail, Refills
  <2>3. bell[c] # "sent"
    BY <1>1, SMTT(40) DEF TraceInv, CoreInv, Served
  <2>4. CaughtUp(c)' /\ Blocked(c)' /\ Served(c)' /\ Flags(c)'
    BY <1>1, <2>1, <2>3, Zenon DEF TraceInv, CoreInv, CaughtUp, Blocked, Served, Flags
  <2> QED BY <2>2, <2>4, Zenon DEF CoreInv
<1> QED BY <1>5, <1>6, <1>7, <1>8, Zenon DEF TraceInv

\* The cores before c have refilled, and c once it goes on to issue.
LEMMA RefillDone ==
    ASSUME NEW c \in Cores, step = "refill", cur = c, step' = "issue", cur' = c
    PROVE  \A d \in Cores \ {c} : Refilled(d)' => Refilled(d)
<1>1. c \in Nat
  BY Sizes DEF Cores
<1>2. ASSUME NEW d \in Cores \ {c}, Refilled(d)' PROVE Refilled(d)
  BY <1>1, <1>2, Sizes, SMTT(30) DEF Refilled, Cores
<1> QED BY <1>2, Zenon

\* A message is read.
LEMMA ReadCommandInv ==
    ASSUME TraceInv, NEW c \in Cores, ReadCommand(c)
    PROVE  TraceInv'
<1> DEFINE m == Head(ring[c])
<1>1. /\ Live /\ step = "refill" /\ cur = c /\ ~pipe[c].halted
      /\ UNCHANGED <<prog, limit, mode, at, called, seen, acc, out, bell, leaving, child>>
      /\ UNCHANGED <<pid, reaped, alive, polls, posted, result>>
  BY Zenon DEF ReadCommand, Refilling, guest, fixed
<1>2. /\ Refills(c) /\ ring[c] # << >> /\ m \in Msg
      /\ ring' \in [Cores -> Rings] /\ ring'[c] = Tail(ring[c])
      /\ \A d \in Cores \ {c} : ring'[d] = ring[d]
      /\ m.ev \in Compute => pipe'[c].q = pipe[c].q /\ pipe'[c].run = m
      /\ m.ev \notin Compute => pipe'[c].q = Append(pipe[c].q, Staged(m.ev)) /\ pipe'[c].run = pipe[c].run
      /\ m.ev # "exit" => UNCHANGED <<step, cur, issued>>
      /\ m.ev = "exit" => step' = "issue" /\ cur' = c /\ issued' = 0
  BY ReadCommandStep, Zenon DEF TraceInv
<1>3. /\ pipe[c].q \in Seq(Entry) /\ ring[c] \in Seq(Msg)
      /\ pipe' \in [Cores -> Pipes] /\ pipe'[c].halted = pipe[c].halted /\ pipe'[c].exit = pipe[c].exit
      /\ \A d \in Cores \ {c} : pipe'[d] = pipe[d]
  BY <1>2, Zenon DEF TraceInv, SstTypes, GuestTypes, Pipes, PipeRecord, Rings, Refills, Others
<1> HIDE DEF m
<1>4. HasExit(pipe'[c].q) <=> HasExit(pipe[c].q) \/ m.ev = "exit"
  <2>1. CASE m.ev \in Compute
    BY <1>2, <2>1, Zenon DEF Compute
  <2>2. CASE m.ev \notin Compute
    <3>1. Staged(m.ev).ev = m.ev
      BY Zenon DEF Staged
    <3>2. HasExit(Append(pipe[c].q, Staged(m.ev))) <=> HasExit(pipe[c].q) \/ Staged(m.ev).ev = "exit"
      BY <1>3, AppendedExit, ZenonT(60)
    <3> QED BY <1>2, <2>2, <3>1, <3>2, Zenon
  <2> QED BY <2>1, <2>2, Zenon
<1>5. HasExit(ring[c]) <=> HasExit(ring'[c]) \/ m.ev = "exit"
  BY <1>2, <1>3, PoppedExit, SMTT(40) DEF m
<1>6. GuestTypes'
  BY <1>1, <1>2, Zenon DEF TraceInv, GuestTypes
<1>7. SstTypes'
  <2>1. issued' \in 0..MaxIssue /\ step' \in Steps /\ cur' \in Cores
    <3>1. CASE m.ev = "exit"
      BY <1>2, <3>1, Sizes, SMTT(40) DEF Steps
    <3>2. CASE m.ev # "exit"
      BY <1>2, <3>2, Zenon DEF TraceInv, SstTypes
    <3> QED BY <3>1, <3>2, Zenon
  <2> QED BY <1>1, <1>3, <2>1, Zenon DEF TraceInv, SstTypes
<1>8. Control'
  <2>1. step' \in {"refill", "issue"} /\ (step' = "issue" => cur' = c)
    BY <1>1, <1>2, Zenon
  <2> QED BY <1>1, <1>3, <2>1, TickControl, Zenon DEF Booting
<1>9. ASSUME NEW d \in Cores \ {c} PROVE CoreInv(d)'
  <2>1. Refilled(d)' => Refilled(d)
    <3>1. CASE m.ev = "exit"
      BY <1>1, <1>2, <3>1, RefillDone, Zenon
    <3>2. CASE m.ev # "exit"
      BY <1>2, <3>2, Zenon DEF Refilled
    <3> QED BY <3>1, <3>2, Zenon
  <2> QED BY <1>1, <1>2, <1>3, <1>9, <2>1, CoreSame, Zenon DEF TraceInv
<1>10. CoreInv(c)'
  <2>1. ExitTrail(c)'
    BY <1>1, <1>3, <1>4, <1>5, Zenon DEF TraceInv, CoreInv, ExitTrail
  <2>2. bell[c] # "sent"
    BY <1>1, <1>2, Zenon DEF TraceInv, CoreInv, Served
  <2>3. CaughtUp(c)'
    <3>1. CASE m.ev = "exit"
      BY <1>4, <3>1, Zenon DEF CaughtUp
    <3>2. CASE m.ev # "exit"
      <4>1. ~Refilled(c)'
        BY <1>1, <1>2, <3>2, Sizes DEF Refilled, Cores
      <4> QED BY <4>1, Zenon DEF CaughtUp
    <3> QED BY <3>1, <3>2, Zenon
  <2>4. Blocked(c)' /\ Served(c)' /\ Flags(c)'
    BY <1>1, <2>2, Zenon DEF TraceInv, CoreInv, Blocked, Served, Flags
  <2> QED BY <2>1, <2>3, <2>4, Zenon DEF CoreInv
<1> QED BY <1>6, <1>7, <1>8, <1>9, <1>10, Zenon DEF TraceInv

\* A refill ends: nothing is left, or the limit stopped it.
LEMMA RefillStopsInv ==
    ASSUME TraceInv, NEW c \in Cores, RefillStops(c)
    PROVE  TraceInv'
<1>1. /\ Live /\ step = "refill" /\ cur = c /\ ~pipe[c].halted
      /\ UNCHANGED <<prog, limit, mode, at, called, seen, acc, out, bell, leaving, child, ring>>
      /\ UNCHANGED <<pid, reaped, alive, polls, posted, result>>
  BY Zenon DEF RefillStops, Refilling, guest, fixed
<1>2. /\ Refills(c) /\ pipe'[c].q = pipe[c].q /\ pipe'[c].run = pipe[c].run
      /\ pipe'[c].cap \/ (pipe[c].run.n = 0 /\ ring[c] = << >>)
      /\ step' = "issue" /\ cur' = c /\ issued' = 0
  BY RefillStopsStep, Zenon DEF TraceInv
<1>3. /\ pipe' \in [Cores -> Pipes] /\ pipe'[c].halted = pipe[c].halted /\ pipe'[c].exit = pipe[c].exit
      /\ pipe'[c].pending = pipe[c].pending /\ \A d \in Cores \ {c} : pipe'[d] = pipe[d]
  BY <1>2, ZenonT(60) DEF Refills, Others
<1>4. GuestTypes' /\ SstTypes'
  BY <1>1, <1>2, <1>3, Sizes, SMTT(40) DEF TraceInv, GuestTypes, SstTypes, Steps
<1>5. Control'
  BY <1>1, <1>2, <1>3, TickControl, Zenon DEF Booting
<1>6. ASSUME NEW d \in Cores \ {c} PROVE CoreInv(d)'
  BY <1>1, <1>2, <1>3, <1>6, RefillDone, CoreSame, Zenon DEF TraceInv
<1>7. CoreInv(c)'
  <2>1. ExitTrail(c)' /\ CaughtUp(c)'
    BY <1>1, <1>2, <1>3, Zenon DEF TraceInv, CoreInv, ExitTrail, CaughtUp
  <2>2. Blocked(c)' /\ Flags(c)' /\ Served(c)'
    BY <1>1, <1>2, <1>3, Zenon DEF TraceInv, CoreInv, Blocked, Served, Flags
  <2> QED BY <2>1, <2>2, Zenon DEF CoreInv
<1> QED BY <1>4, <1>5, <1>6, <1>7, Zenon DEF TraceInv

\* A response arrives.
LEMMA ResponseInv ==
    ASSUME TraceInv, NEW c \in Cores, Response(c)
    PROVE  TraceInv'
<1>1. /\ Live /\ step = "between"
      /\ UNCHANGED <<prog, limit, mode, at, called, seen, acc, out, bell, leaving, child, ring>>
      /\ UNCHANGED <<step, cur, issued, pid, reaped, alive, polls, posted, result>>
  BY Zenon DEF Response, guest, fixed
<1>2. /\ pipe' \in [Cores -> Pipes] /\ (\A d \in Cores \ {c} : pipe'[d] = pipe[d]) /\ pipe[c].pending > 0
      /\ pipe'[c].q = pipe[c].q /\ pipe'[c].run = pipe[c].run
      /\ pipe'[c].halted = pipe[c].halted /\ pipe'[c].exit = pipe[c].exit /\ pipe'[c].cap = pipe[c].cap
  BY ResponseStep, Zenon DEF TraceInv, Others
<1>3. GuestTypes' /\ SstTypes'
  BY <1>1, <1>2, Zenon DEF TraceInv, GuestTypes, SstTypes
<1>4. Control'
  BY <1>1, TickControl, Zenon DEF Booting
<1>5. ASSUME NEW d \in Cores \ {c} PROVE CoreInv(d)'
  BY <1>1, <1>2, <1>5, CoreSame, Zenon DEF TraceInv, Refilled
<1>6. CoreInv(c)'
  <2>1. ExitTrail(c)' /\ CaughtUp(c)'
    BY <1>1, <1>2, ZenonT(60) DEF TraceInv, CoreInv, ExitTrail, CaughtUp, Refilled
  <2>2. ~(bell[c] = "sent" /\ ~pipe[c].halted)
    BY <1>2, SMTT(40) DEF TraceInv, CoreInv, Served
  <2>3. Blocked(c)' /\ Flags(c)' /\ Served(c)'
    BY <1>1, <1>2, <2>2, Zenon DEF TraceInv, CoreInv, Blocked, Served, Flags
  <2> QED BY <2>1, <2>3, Zenon DEF CoreInv
<1> QED BY <1>3, <1>4, <1>5, <1>6, Zenon DEF TraceInv

\* The accelerator answers a doorbell.
LEMMA ReplyInv ==
    ASSUME TraceInv, NEW c \in Cores, Reply(c)
    PROVE  TraceInv'
<1>1. /\ Live /\ step = "between" /\ bell[c] # "idle" /\ bell' = [bell EXCEPT ![c] = "idle"]
      /\ out' = [out EXCEPT ![c] = FlushRun(c)] /\ acc' = [acc EXCEPT ![c].n = 0]
      /\ UNCHANGED <<prog, limit, mode, at, called, seen, leaving, child, ring>>
      /\ UNCHANGED <<step, cur, issued, pipe, pid, reaped, alive, polls, posted, result>>
  BY Zenon DEF Reply, fixed, sst
<1>2. Writes(c)
  BY <1>1, FlushStep, Zenon DEF TraceInv
<1>3. bell' \in [Cores -> Bells] /\ bell'[c] = "idle" /\ \A d \in Cores \ {c} : bell'[d] = bell[d]
  BY <1>1, Zenon DEF TraceInv, GuestTypes, Bells
<1>4. GuestTypes' /\ SstTypes'
  BY <1>1, <1>2, <1>3, Zenon DEF TraceInv, GuestTypes, SstTypes, Writes
<1>5. out[c] = << >> /\ leaving = 0 /\ c \in Nat /\ ~(0 > c)
  BY <1>1, Sizes, SMTT(30) DEF TraceInv, CoreInv, Blocked, Cores
<1>6. Control'
  <2>1. child # "ok"
    BY <1>1, <1>5, Sizes, SMTT(30) DEF TraceInv, Control, Live, Unended
  <2> QED BY <1>1, <2>1, Zenon DEF TraceInv, Control, Booting, Unended, Live, ExpectExit
<1>7. ASSUME NEW d \in Cores \ {c} PROVE CoreInv(d)'
  BY <1>1, <1>2, <1>3, <1>7, CoreSame, Zenon DEF TraceInv, Refilled, Writes
<1>8. CoreInv(c)'
  <2>1. ~HasExit(out'[c])
    BY <1>2, PlainSeq, Zenon DEF Writes
  <2>2. ExitTrail(c)'
    BY <1>1, <1>5, <2>1, Zenon DEF TraceInv, CoreInv, ExitTrail
  <2>3. CaughtUp(c)' /\ Blocked(c)' /\ Flags(c)' /\ Served(c)'
    BY <1>1, <1>3, Zenon DEF TraceInv, CoreInv, CaughtUp, Refilled, Blocked, Served, Flags
  <2> QED BY <2>2, <2>3, Zenon DEF CoreInv
<1> QED BY <1>4, <1>6, <1>7, <1>8, Zenon DEF TraceInv

\* Posted operations complete.
LEMMA RetireInv ==
    ASSUME TraceInv, NEW c \in Cores, Retire(c)
    PROVE  TraceInv'
<1>1. /\ UNCHANGED <<prog, limit, mode, at, called, seen, acc, out, bell, leaving, child, ring>>
      /\ UNCHANGED <<step, cur, issued, pipe, pid, reaped, alive, polls, result>>
      /\ posted' = posted \ {c} /\ Live /\ step = "between"
  BY Zenon DEF Retire, guest, fixed
<1>2. GuestTypes' /\ SstTypes'
  BY <1>1, Zenon DEF TraceInv, GuestTypes, SstTypes
<1>3. Control'
  BY <1>1, TickControl, Zenon DEF Booting
<1>4. ASSUME NEW d \in Cores PROVE CoreInv(d)'
  BY <1>1, CoreSame, Zenon DEF TraceInv, Refilled
<1> QED BY <1>2, <1>3, <1>4, Zenon DEF TraceInv

\* Every EXIT has been written once the last one has.
LEMMA BeyondCores == \A c \in Cores : N + 1 > c
BY Sizes, SMTT(30) DEF Cores

\* The end of a tick.  A doorbell is forwarded once its core is drained, and
\* after the child is gone a drained core has read everything there was.
LEMMA TickEndInv ==
    ASSUME TraceInv, TickEnd
    PROVE  TraceInv'
<1> DEFINE look == polls + 1 = PollPeriod \/ AllHalted
           now == IF look THEN child = "running" ELSE alive
<1>1. /\ Live /\ step = "after" /\ step' = "between"
      /\ bell' = [c \in Cores |-> IF bell[c] = "armed" /\ IsDrained(pipe[c]) THEN "sent" ELSE bell[c]]
      /\ polls' = (polls + 1) % PollPeriod
      /\ alive' = now /\ pid' = now /\ reaped' = ~now /\ posted' \subseteq posted \cup Cores
      /\ UNCHANGED <<prog, limit, mode, at, called, seen, acc, out, leaving, child, ring>>
      /\ UNCHANGED <<cur, issued, pipe>>
  BY Zenon DEF TickEnd, fixed
<1>2. result' = IF look /\ alive /\ child = "failed" THEN "child failed"
                ELSE IF ~AllHalted
                  THEN IF GoneBefore(now) /\ \A c \in Cores : IsDrained(pipe[c]) THEN "no EXIT" ELSE "none"
                ELSE IF (\A c \in Cores : pipe[c].pending = 0) /\ ~Holds' THEN "ending" ELSE "none"
  BY Zenon DEF TickEnd
<1>3. /\ child \in Children /\ alive \in BOOLEAN /\ child \notin {"none", "starting", "early", "killed"}
      /\ child = "running" => alive
      /\ child = "ok" => leaving = N + 1 /\ \A c \in Cores : out[c] = << >>
      /\ child = "vanish" => leaving = 0
      /\ ~alive => child # "failed"
  BY <1>1, Zenon DEF TraceInv, GuestTypes, SstTypes, Control, Booting, Live, Unended
<1>4. now \in BOOLEAN /\ (child = "running" => now) /\ (~now => child # "running") /\ (~now /\ alive => look)
  BY <1>3, Zenon
<1> HIDE DEF look, now
<1>5. \A c \in Cores : Refilled(c)
  BY <1>1, Zenon DEF Refilled
<1>6. ASSUME NEW c \in Cores, IsDrained(pipe[c]), ~pipe[c].halted, ~alive \/ bell[c] = "armed"
      PROVE  pipe[c].q = << >> /\ pipe[c].run.n = 0 /\ ring[c] = << >> /\ pipe[c].pending = 0
  <2>1. pipe[c].q = << >> /\ ~pipe[c].cap /\ pipe[c].pending = 0
    BY <1>6, Zenon DEF IsDrained
  <2>2. ~HasExit(pipe[c].q)
    BY <2>1 DEF HasExit
  <2> QED BY <1>5, <1>6, <2>1, <2>2, Zenon DEF TraceInv, CoreInv, CaughtUp
<1>7. result' = "no EXIT" => child = "vanish"
  <2> SUFFICES ASSUME result' = "no EXIT", child # "vanish" PROVE FALSE
    OBVIOUS
  <2>1. ~now /\ ~alive /\ ~AllHalted /\ \A c \in Cores : IsDrained(pipe[c])
    BY <1>2, Zenon DEF GoneBefore
  <2>2. PICK c \in Cores : ~pipe[c].halted
    BY <2>1, Zenon DEF AllHalted
  <2>3. leaving = N + 1 /\ out[c] = << >>
    BY <1>3, <1>4, <2>1, Zenon DEF Children
  <2>4. leaving > c
    BY <2>3, BeyondCores, Zenon
  <2>5. pipe[c].q = << >> /\ ring[c] = << >>
    BY <1>6, <2>1, <2>2, Zenon
  <2>6. ~HasExit(<< >>)
    BY EmptyExit, Zenon
  <2> QED BY <2>2, <2>3, <2>4, <2>5, <2>6, Zenon DEF TraceInv, CoreInv, ExitTrail
<1>8. /\ result' \in {"child failed", "no EXIT", "none", "ending"}
      /\ result' = "child failed" => child = "failed"
      /\ result' # "child failed" /\ ~now => child # "failed"
  BY <1>2, <1>3, <1>4, Zenon
<1>9. GuestTypes'
  <2>1. bell' \in [Cores -> Bells]
    BY <1>1, Zenon DEF TraceInv, GuestTypes, Bells
  <2> QED BY <1>1, <2>1, Zenon DEF TraceInv, GuestTypes
<1>10. SstTypes'
  <2>1. polls' \in 0..(PollPeriod - 1)
    <3>1. polls + 1 \in Nat
      BY Sizes DEF TraceInv, SstTypes
    <3>2. \A a, b \in Nat : b > 0 => a % b \in 0..(b - 1)
      OBVIOUS
    <3> QED BY <1>1, <3>1, <3>2, Sizes, Zenon
  <2>2. alive' \in BOOLEAN /\ pid' \in BOOLEAN /\ reaped' \in BOOLEAN
    BY <1>1, <1>4, Zenon
  <2>3. step' \in Steps /\ result' \in Fatal \union {"none", "ending", "ok"}
    BY <1>1, <1>8, Zenon DEF Steps, Fatal
  <2> QED BY <1>1, <2>1, <2>2, <2>3, Zenon DEF TraceInv, SstTypes
<1>11. Control'
  <2>1. ~Booting' /\ step' # "spawn" /\ step' # "issue" /\ result' # "ok"
    BY <1>1, <1>8, Zenon DEF Booting
  <2>2. ~(pid' /\ reaped') /\ (~alive' => child' \notin {"starting", "running"}) /\ (child' \in {"starting", "running"} => pid')
    BY <1>1, <1>3, <1>4, Zenon
  <2>3. /\ child' \notin {"none", "starting", "early", "killed"} /\ (child' = "vanish" => leaving' = 0)
        /\ child' = "ok" => leaving' = N + 1 /\ \A c \in Cores : out'[c] = << >>
        /\ result' = "no EXIT" => child' = "vanish"
    BY <1>1, <1>3, <1>7, Zenon
  <2>4. /\ result' # "not attached" /\ (result' = "child failed" => child' = "failed")
        /\ Unended' /\ ~alive' => child' # "failed"
    BY <1>1, <1>8, Zenon DEF Unended
  <2> QED BY <2>1, <2>2, <2>3, <2>4, Zenon DEF Control
<1>12. ASSUME NEW d \in Cores PROVE CoreInv(d)'
  <2>1. ~Refilled(d)'
    BY <1>1, Zenon DEF Refilled
  <2>2. bell'[d] = IF bell[d] = "armed" /\ IsDrained(pipe[d]) THEN "sent" ELSE bell[d]
    BY <1>1, Zenon
  <2>3. ExitTrail(d)' /\ Flags(d)'
    BY <1>1, Zenon DEF TraceInv, CoreInv, ExitTrail, Flags
  <2>4. CaughtUp(d)' /\ Blocked(d)'
    BY <1>1, <2>1, <2>2, Zenon DEF TraceInv, CoreInv, CaughtUp, Blocked
  <2>5. Served(d)'
    BY <1>1, <1>6, <2>2, Zenon DEF TraceInv, CoreInv, Served
  <2> QED BY <2>3, <2>4, <2>5, Zenon DEF CoreInv
<1> QED BY <1>9, <1>10, <1>11, <1>12, Zenon DEF TraceInv

\* The invariant is inductive.
LEMMA InvStep == TraceInv /\ [Next]_vars => TraceInv'
<1> SUFFICES ASSUME TraceInv, [Next]_vars PROVE TraceInv'
  OBVIOUS
<1>1. ASSUME NEW c \in Cores, Guest(c) PROVE TraceInv'
  BY <1>1, ExecCallbackInv, ExecuteInv, DoorbellFlushInv, DoorbellWriteInv, WriteMessageInv, Zenon DEF Guest
<1>2. ASSUME NEW c \in Cores, Tick(c) PROVE TraceInv'
  BY <1>2, SkipInv, DrainRunInv, ReadCommandInv, RefillStopsInv, IssueInv, Zenon DEF Tick
<1>3. ASSUME NEW c \in Cores, Response(c) \/ Reply(c) \/ Retire(c) PROVE TraceInv'
  BY <1>3, ResponseInv, ReplyInv, RetireInv, Zenon
<1>4. CASE GuestExit \/ AtExit \/ TickStart \/ TickEnd
  BY <1>4, GuestExitInv, AtExitInv, TickStartInv, TickEndInv, Zenon
<1>5. CASE Vanish \/ Attach \/ DieEarly \/ Fail \/ ProcessExit
  BY <1>5, ChildInv, Zenon
<1>6. CASE Spawn \/ CheckAttached \/ CheckStarting \/ Terminate \/ EmergencyShutdown
  BY <1>6, SpawnInv, EndInv, Zenon
<1>7. CASE UNCHANGED vars
  <2>1. /\ UNCHANGED <<prog, limit, mode, at, called, seen, acc, out, bell, leaving, ring, child>>
        /\ UNCHANGED <<step, cur, issued, pipe, pid, reaped, alive, polls, posted, result>>
    BY <1>7, ZenonT(60) DEF vars, guest, sst, fixed
  <2>2. Control'
    BY <2>1, ZenonT(60) DEF TraceInv, Control, Booting, Live, Unended, ExpectExit
  <2> QED BY <2>1, <2>2, LauncherInv, Zenon DEF TraceInv, GuestTypes, SstTypes
<1> QED BY <1>1, <1>2, <1>3, <1>4, <1>5, <1>6, <1>7, Zenon DEF Next

\* The inductive invariant holds in every reachable state: the domains, what SST
\* and the child know of each other, where an EXIT record is, and that a refill
\* which the queue did not stop has read everything (refill, isDrained, tick).
THEOREM TraceInvariant == Spec => []TraceInv
<1> QED BY InvInit, InvStep, PTL DEF Spec

\* The queue, the outstanding requests, the cursor and every other variable stay
\* within their bounds, for any number of cores and any sizes.
THEOREM TypesHold == Spec => []TypeOK
<1>1. TraceInv => TypeOK
  <2> SUFFICES ASSUME TraceInv PROVE TypeOK
    OBVIOUS
  <2>1. ASSUME NEW c \in Cores
        PROVE  /\ at[c] \in 0..Len(prog[c])
               /\ acc[c].ev \in Compute /\ acc[c].n \in 0..(RunMax - 1)
               /\ called[c] \in BOOLEAN /\ seen[c] \in BOOLEAN
               /\ Len(ring[c]) \in 0..RingSize
               /\ bell[c] \in {"idle", "req", "armed", "sent", "direct"}
    <3>1. prog[c] \in Seq(Events) /\ at[c] \in Nat /\ at[c] <= Len(prog[c])
      BY TraceAssumption DEF TraceInv, GuestTypes
    <3>2. ring[c] \in Seq(Msg) /\ Len(ring[c]) <= RingSize
      BY Zenon DEF TraceInv, GuestTypes, Rings
    <3>3. at[c] \in 0..Len(prog[c]) /\ Len(ring[c]) \in 0..RingSize
      BY <3>1, <3>2, Sizes, SMTT(30)
    <3> QED BY <3>3, ZenonT(60) DEF TraceInv, GuestTypes, OpenRun, Bells
  <2>2. ASSUME NEW c \in Cores
        PROVE  Len(pipe[c].q) \in 0..MaxQueue /\ pipe[c].pending \in 0..MaxPending /\ pipe[c].off \in 0..(Slots - 1)
    <3>1. /\ pipe[c].q \in Seq(Entry) /\ Len(pipe[c].q) <= MaxQueue
          /\ pipe[c].pending \in Nat /\ pipe[c].pending <= MaxPending
          /\ pipe[c].off \in Nat /\ Cursor(pipe[c])
      BY Zenon DEF TraceInv, SstTypes, Pipes, PipeRecord
    <3>2. pipe[c].off < Slots
      BY <3>1, Sizes, SMTT(30) DEF Cursor
    <3> QED BY <3>1, <3>2, Sizes, SMTT(40)
  <2> QED BY <2>1, <2>2, Zenon DEF TypeOK, TraceInv, GuestTypes, SstTypes, Children, Steps
<1> QED BY <1>1, TraceInvariant, PTL

\* The simulation reports what became of the child (tick, finish, terminate,
\* waitForChildAttach, forceKill), for any number of cores and whatever the
\* order of the guest's and the simulator's steps.
THEOREM VerdictIsTrue == Spec => []TrueVerdict
<1>1. TraceInv => TrueVerdict
  BY Zenon DEF TraceInv, Control, TrueVerdict
<1> QED BY <1>1, TraceInvariant, PTL
=============================================================================
