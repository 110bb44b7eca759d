------------------------- MODULE WindowCacheProofs -------------------------
(***************************************************************************)
(* Proofs about the window cache.                                          *)
(*                                                                         *)
(* First what a reset of the CPU means for it: the epochs that QEMU bumps  *)
(* and SST's poll compares (CacheReset), for any number of vCPUs and       *)
(* resets.  OnlyTheWindow is not inductive: it says nothing of a request   *)
(* that is still pending, nor of a reset SST has not seen.  Good adds      *)
(* both: which of four phases a vCPU's call is in, that the cache has the  *)
(* program's control state whenever the last reset was seen, and that it   *)
(* is off for the program from a reset until SST has seen it.              *)
(*                                                                         *)
(* Then that the cache is invisible to a program that keeps the cache      *)
(* discipline (WindowCache), for every geometry, window, set of control    *)
(* values and ACRs, by induction with IInv.                                *)
(***************************************************************************)
EXTENDS WindowCache, CacheReset, WellFoundedInduction, TLAPS

-----------------------------------------------------------------------------
(* Reset epochs: the inductive invariant.                                  *)

Types ==
    /\ resets \in [Cpu -> Nat] /\ epoch \in [Cpu -> Nat] /\ seen \in [Cpu -> Nat]
    /\ attached \in BOOLEAN
    /\ vcpu \in [Cpu -> {"run", "wait"}]
    /\ op \in [Cpu -> {"enable", "access"}]
    /\ gctl \in [Cpu -> {"on", "off"}]
    /\ ctl \in [Cpu -> {"on", "off"}]
    /\ used \in [Cpu -> {"on", "off"}]
    /\ asked \in [Cpu -> {0, 1}]
    /\ ready \in [Cpu -> {0, 1}]
    /\ sst \in [pc : {"idle", "epoch", "pending"}, v : Cpu]
    /\ busy \in [Cpu -> BOOLEAN]
    /\ outstanding \in [Cpu -> BOOLEAN]
    /\ late \in [Cpu -> BOOLEAN]
    /\ need \in [Cpu -> Nat]

\* The phases of a vCPU: running, posted, being served, answered.
Phase(v) ==
    \/ vcpu[v] = "run" /\ asked[v] = 0 /\ ready[v] = 0 /\ ~busy[v]
    \/ vcpu[v] = "wait" /\ asked[v] = 1 /\ ready[v] = 0 /\ ~busy[v]
    \/ /\ vcpu[v] = "wait" /\ asked[v] = 0 /\ ready[v] = 0
       /\ busy[v] /\ op[v] = "access" /\ need[v] >= 1
    \/ vcpu[v] = "wait" /\ asked[v] = 0 /\ ready[v] = 1 /\ ~busy[v]

\* The counters: the shared epoch is QEMU's once attached, and SST is behind.
Epochs(v) ==
    /\ seen[v] <= epoch[v]
    /\ attached => epoch[v] = resets[v]
    /\ ~attached => epoch[v] = 0 /\ vcpu[v] = "run" /\ gctl[v] = "off" /\ ctl[v] = "off"

\* The control state of the cache, as long as no request was served late.
ControlState(v) ==
    /\ seen[v] # epoch[v] => gctl[v] = "off" /\ ~busy[v] /\ ready[v] = 0
    /\ seen[v] = epoch[v] =>
         IF ready[v] = 1 /\ op[v] = "enable" THEN ctl[v] = "on" ELSE ctl[v] = gctl[v]
    /\ op[v] = "access" /\ (busy[v] \/ ready[v] = 1) => used[v] = gctl[v]

Good(v) ==
    /\ outstanding[v] = busy[v]
    /\ Phase(v)
    /\ Epochs(v)
    /\ ~late[v] => ControlState(v)

Stopped ==
    /\ fatal \in {"no", "reset"}
    /\ fatal = "reset" => \E v \in Cpu : late[v]

ResetInv == Types /\ Stopped /\ \A v \in Cpu : Good(v)

-----------------------------------------------------------------------------
LEMMA CpuFacts ==
    /\ 0 \in Cpu
    /\ \A v \in Cpu : v # NumCpus - 1 => v + 1 \in Cpu
BY CpuAssumption DEF Cpu

LEMMA AdvanceType ==
    ASSUME NEW v \in Cpu
    PROVE  Advance(v) \in [pc : {"idle", "epoch", "pending"}, v : Cpu]
BY CpuFacts, Zenon DEF Advance, Between

LEMMA InitResetInv == ResetInit => ResetInv
<1> SUFFICES ASSUME ResetInit PROVE ResetInv
  OBVIOUS
<1>1. Types
  BY CpuFacts, Zenon DEF ResetInit, Types, Between
<1>2. Stopped
  BY Zenon DEF ResetInit, Stopped
<1>3. ASSUME NEW v \in Cpu PROVE Good(v)
  BY DEF ResetInit, Good, Phase, Epochs, ControlState
<1> QED
  BY <1>1, <1>2, <1>3, Zenon DEF ResetInv

(* What a step does not touch at vCPU w stays good.                        *)
LEMMA GoodKept ==
    ASSUME NEW w \in Cpu, Good(w),
           attached' = attached,
           resets'[w] = resets[w], epoch'[w] = epoch[w], seen'[w] = seen[w],
           vcpu'[w] = vcpu[w], op'[w] = op[w], gctl'[w] = gctl[w],
           asked'[w] = asked[w], ready'[w] = ready[w], ctl'[w] = ctl[w],
           busy'[w] = busy[w], outstanding'[w] = outstanding[w], need'[w] = need[w],
           used'[w] = used[w], late'[w] = late[w]
    PROVE  Good(w)'
BY Zenon DEF Good, Phase, Epochs, ControlState

-----------------------------------------------------------------------------
(* QEMU's steps.                                                           *)
LEMMA AttachStep ==
    ASSUME ResetInv, Attach
    PROVE  ResetInv'
<1>1. /\ attached = FALSE /\ attached' = TRUE /\ epoch' = resets
      /\ UNCHANGED <<resets, vcpu, op, gctl, asked, ready, sst, seen, ctl, busy,
                     outstanding, need, used, late, fatal>>
  BY Zenon DEF Attach, bankVars, ResetInv, Types
<1>2. Types' /\ Stopped'
  BY <1>1, Zenon DEF ResetInv, Types, Stopped
<1>3. ASSUME NEW v \in Cpu PROVE Good(v)'
  <2>1. Good(v) /\ resets[v] \in Nat /\ seen[v] \in Nat /\ epoch[v] \in Nat
    BY Zenon DEF ResetInv, Types
  <2>2. seen[v] = 0 /\ vcpu[v] = "run" /\ gctl[v] = "off" /\ ctl[v] = "off"
    BY <1>1, <2>1 DEF Good, Epochs
  <2>3. Phase(v)' /\ outstanding'[v] = busy'[v] /\ ready[v] = 0 /\ ~busy[v]
    BY <1>1, <2>1, <2>2, Zenon DEF Good, Phase
  <2>4. Epochs(v)'
    BY <1>1, <2>1, <2>2 DEF Epochs
  <2>5. ControlState(v)'
    BY <1>1, <2>2, <2>3 DEF ControlState
  <2> QED
    BY <2>3, <2>4, <2>5, Zenon DEF Good
<1> QED
  BY <1>2, <1>3, Zenon DEF ResetInv

LEMMA GuestStep ==
    ASSUME ResetInv, NEW v \in Cpu, Guest(v)
    PROVE  ResetInv'
<1>t. Types /\ Stopped
  BY Zenon DEF ResetInv
<1>a. \A w \in Cpu : Good(w)
  BY Zenon DEF ResetInv
<1>g. outstanding[v] = busy[v] /\ Phase(v) /\ Epochs(v) /\ (~late[v] => ControlState(v))
  BY <1>a, Zenon DEF Good
<1>1. CASE CpuReset(v)
  <2>1. /\ vcpu[v] = "run"
        /\ resets' = [resets EXCEPT ![v] = @ + 1]
        /\ epoch' = IF attached THEN [epoch EXCEPT ![v] = resets[v] + 1] ELSE epoch
        /\ gctl' = [gctl EXCEPT ![v] = "off"]
        /\ UNCHANGED <<attached, vcpu, op, asked, ready, sst, seen, ctl, busy,
                       outstanding, need, used, late, fatal>>
    BY <1>1, Zenon DEF CpuReset, bankVars
  <2>2. Types' /\ Stopped'
    BY <1>t, <2>1 DEF Types, Stopped
  <2>3. ASSUME NEW w \in Cpu, w # v PROVE Good(w)'
    <3>1. resets'[w] = resets[w] /\ epoch'[w] = epoch[w] /\ gctl'[w] = gctl[w]
      BY <1>t, <2>1, <2>3, Zenon DEF Types
    <3> QED
      BY <1>a, <2>1, <3>1, GoodKept, Zenon
  <2>4. Good(v)'
    <3>1. /\ resets'[v] = resets[v] + 1 /\ gctl'[v] = "off"
          /\ resets[v] \in Nat /\ epoch[v] \in Nat /\ seen[v] \in Nat
          /\ epoch'[v] = IF attached THEN resets[v] + 1 ELSE epoch[v]
      BY <1>t, <2>1, Zenon DEF Types
    <3>2. Phase(v)' /\ outstanding'[v] = busy'[v] /\ ready'[v] = 0 /\ ~busy'[v]
      BY <1>g, <2>1, Zenon DEF Phase
    <3>3. Epochs(v)' /\ (attached => seen'[v] # epoch'[v])
      BY <1>g, <2>1, <3>1, SMTT(30) DEF Epochs
    <3>4. ControlState(v)'
      BY <1>g, <2>1, <3>1, <3>2, <3>3 DEF ControlState, Epochs
    <3> QED
      BY <3>2, <3>3, <3>4, Zenon DEF Good
  <2> QED
    BY <2>2, <2>3, <2>4, Zenon DEF ResetInv
<1>2. ASSUME NEW o \in {"enable", "access"}, Request(v, o) PROVE ResetInv'
  <2>1. /\ attached /\ vcpu[v] = "run"
        /\ vcpu' = [vcpu EXCEPT ![v] = "wait"]
        /\ op' = [op EXCEPT ![v] = o]
        /\ asked' = [asked EXCEPT ![v] = 1]
        /\ UNCHANGED <<resets, attached, epoch, gctl, ready, sst, seen, ctl, busy,
                       outstanding, need, used, late, fatal>>
    BY <1>2, Zenon DEF Request, bankVars
  <2>2. Types' /\ Stopped'
    BY <1>t, <2>1, Zenon DEF Types, Stopped
  <2>3. ASSUME NEW w \in Cpu, w # v PROVE Good(w)'
    <3>1. vcpu'[w] = vcpu[w] /\ op'[w] = op[w] /\ asked'[w] = asked[w]
      BY <1>t, <2>1, <2>3, Zenon DEF Types
    <3> QED
      BY <1>a, <2>1, <3>1, GoodKept, Zenon
  <2>4. Good(v)'
    <3>1. vcpu'[v] = "wait" /\ asked'[v] = 1
      BY <1>t, <2>1, Zenon DEF Types
    <3>2. Phase(v)' /\ outstanding'[v] = busy'[v] /\ ready'[v] = 0 /\ ~busy'[v] /\ ready[v] = 0
      BY <1>g, <2>1, <3>1, Zenon DEF Phase
    <3>3. Epochs(v)'
      BY <1>g, <2>1, Zenon DEF Epochs
    <3>4. ~late[v] => ControlState(v)'
      BY <1>g, <2>1, <3>2 DEF ControlState
    <3> QED
      BY <2>1, <3>2, <3>3, <3>4, Zenon DEF Good
  <2> QED
    BY <2>2, <2>3, <2>4, Zenon DEF ResetInv
<1>3. CASE Return(v)
  <2>1. /\ vcpu[v] = "wait" /\ ready[v] = 1
        /\ ready' = [ready EXCEPT ![v] = 0]
        /\ vcpu' = [vcpu EXCEPT ![v] = "run"]
        /\ gctl' = [gctl EXCEPT ![v] = IF op[v] = "enable" THEN "on" ELSE @]
        /\ UNCHANGED <<resets, attached, epoch, op, asked, sst, seen, ctl, busy,
                       outstanding, need, used, late, fatal>>
    BY <1>3, Zenon DEF Return, bankVars
  <2>2. Types' /\ Stopped'
    BY <1>t, <2>1, Zenon DEF Types, Stopped
  <2>3. ASSUME NEW w \in Cpu, w # v PROVE Good(w)'
    <3>1. vcpu'[w] = vcpu[w] /\ ready'[w] = ready[w] /\ gctl'[w] = gctl[w]
      BY <1>t, <2>1, <2>3, Zenon DEF Types
    <3> QED
      BY <1>a, <2>1, <3>1, GoodKept, Zenon
  <2>4. Good(v)'
    <3>1. /\ vcpu'[v] = "run" /\ ready'[v] = 0 /\ op[v] \in {"enable", "access"}
          /\ gctl'[v] = IF op[v] = "enable" THEN "on" ELSE gctl[v]
      BY <1>t, <2>1, Zenon DEF Types
    <3>2. Phase(v)' /\ outstanding'[v] = busy'[v] /\ ~busy'[v]
      BY <1>g, <2>1, <3>1 DEF Phase
    <3>3. Epochs(v)'
      BY <1>g, <2>1, <3>1, Zenon DEF Epochs
    <3>4. ~late[v] => ControlState(v)'
      BY <1>g, <2>1, <3>1, <3>2 DEF ControlState
    <3> QED
      BY <2>1, <3>2, <3>3, <3>4, Zenon DEF Good
  <2> QED
    BY <2>2, <2>3, <2>4, Zenon DEF ResetInv
<1> QED
  BY <1>1, <1>2, <1>3, Zenon DEF Guest

-----------------------------------------------------------------------------
(* SST's steps.                                                            *)
LEMMA PollEpochStep ==
    ASSUME ResetInv, PollEpoch
    PROVE  ResetInv'
<1>t. Types /\ Stopped
  BY Zenon DEF ResetInv
<1>a. \A w \in Cpu : Good(w)
  BY Zenon DEF ResetInv
<1> PICK v \in Cpu : v = sst.v
  BY <1>t, Zenon DEF Types
<1>g. outstanding[v] = busy[v] /\ Phase(v) /\ Epochs(v) /\ (~late[v] => ControlState(v))
  BY <1>a, Zenon DEF Good
<1>1. UNCHANGED <<resets, attached, epoch, vcpu, op, gctl, asked, ready, busy,
                  outstanding, need, used, late>>
  BY Zenon DEF PollEpoch, cpuVars
<1>2. CASE epoch[v] = seen[v]
  <2>1. /\ sst' = [sst EXCEPT !.pc = "pending"]
        /\ UNCHANGED <<seen, ctl, fatal>>
    BY <1>2, Zenon DEF PollEpoch
  <2>2. Types' /\ Stopped'
    BY <1>t, <1>1, <2>1, Zenon DEF Types, Stopped
  <2>3. \A w \in Cpu : Good(w)'
    BY <1>a, <1>1, <2>1, GoodKept, Zenon
  <2> QED
    BY <2>2, <2>3, Zenon DEF ResetInv
<1>3. CASE epoch[v] # seen[v] /\ (outstanding[v] \/ busy[v])
  <2>1. fatal' = "reset" /\ UNCHANGED <<seen, ctl, sst>>
    BY <1>3, Zenon DEF PollEpoch
  <2>2. late[v]
    <3>1. busy[v]
      BY <1>g, <1>3, Zenon
    <3> QED
      BY <1>g, <1>3, <3>1, Zenon DEF ControlState
  <2>3. Types' /\ Stopped'
    BY <1>t, <1>1, <2>1, <2>2, Zenon DEF Types, Stopped
  <2>4. \A w \in Cpu : Good(w)'
    BY <1>a, <1>1, <2>1, GoodKept, Zenon
  <2> QED
    BY <2>3, <2>4, Zenon DEF ResetInv
<1>4. CASE epoch[v] # seen[v] /\ ~(outstanding[v] \/ busy[v])
  <2>1. /\ ctl' = [ctl EXCEPT ![v] = "off"]
        /\ seen' = [seen EXCEPT ![v] = epoch[v]]
        /\ sst' = [sst EXCEPT !.pc = "pending"]
        /\ fatal' = fatal
    BY <1>4, Zenon DEF PollEpoch
  <2>2. Types' /\ Stopped'
    BY <1>t, <1>1, <2>1, Zenon DEF Types, Stopped
  <2>3. ASSUME NEW w \in Cpu, w # v PROVE Good(w)'
    <3>1. ctl'[w] = ctl[w] /\ seen'[w] = seen[w]
      BY <1>t, <2>1, <2>3, Zenon DEF Types
    <3> QED
      BY <1>a, <1>1, <3>1, GoodKept, Zenon
  <2>4. Good(v)'
    <3>1. ctl'[v] = "off" /\ seen'[v] = epoch[v] /\ epoch[v] \in Nat
      BY <1>t, <2>1 DEF Types
    <3>2. Phase(v)' /\ outstanding'[v] = busy'[v]
      BY <1>g, <1>1, <3>1, Zenon DEF Phase
    <3>3. Epochs(v)'
      BY <1>g, <1>1, <3>1, SMTT(30) DEF Epochs
    <3>4. ~late[v] => ControlState(v)'
      BY <1>g, <1>1, <1>4, <3>1 DEF ControlState
    <3> QED
      BY <1>1, <3>2, <3>3, <3>4, Zenon DEF Good
  <2> QED
    BY <2>2, <2>3, <2>4, Zenon DEF ResetInv
<1> QED
  BY <1>2, <1>3, <1>4, Zenon

LEMMA PollServeStep ==
    ASSUME ResetInv, NEW k \in 0..MaxBacking, PollServe(k)
    PROVE  ResetInv'
<1>t. Types /\ Stopped
  BY Zenon DEF ResetInv
<1>a. \A w \in Cpu : Good(w)
  BY Zenon DEF ResetInv
<1> PICK v \in Cpu : v = sst.v
  BY <1>t, Zenon DEF Types
<1>g. outstanding[v] = busy[v] /\ Phase(v) /\ Epochs(v) /\ (~late[v] => ControlState(v))
  BY <1>a, Zenon DEF Good
<1>0. k \in Nat
  BY CpuAssumption
<1>1. /\ UNCHANGED <<resets, attached, epoch, vcpu, op, gctl, seen>>
      /\ asked[v] = 1 /\ (op[v] = "enable" => k = 0)
      /\ asked' = [asked EXCEPT ![v] = 0]
  BY Zenon DEF PollServe, cpuVars
<1>2. vcpu[v] = "wait" /\ ready[v] = 0 /\ ~busy[v]
  BY <1>g, <1>1 DEF Phase
<1>3. /\ late' = [late EXCEPT ![v] = @ \/ epoch[v] # seen[v]]
      /\ need' = [need EXCEPT ![v] = k]
      /\ busy' = [busy EXCEPT ![v] = k > 0]
      /\ outstanding' = [outstanding EXCEPT ![v] = k > 0]
      /\ ready' = IF k = 0 THEN [ready EXCEPT ![v] = 1] ELSE ready
      /\ ctl' = IF op[v] = "enable" THEN [ctl EXCEPT ![v] = "on"] ELSE ctl
      /\ used' = IF op[v] = "enable" THEN used ELSE [used EXCEPT ![v] = ctl[v]]
      /\ sst' = Advance(v)
      /\ fatal' = fatal
  BY <1>2, Zenon DEF PollServe
<1>4. /\ asked'[v] = 0 /\ need'[v] = k /\ (busy'[v] <=> k > 0)
      /\ (late'[v] <=> late[v] \/ epoch[v] # seen[v])
      /\ outstanding'[v] = busy'[v]
      /\ ready'[v] = IF k = 0 THEN 1 ELSE 0
      /\ ctl'[v] = IF op[v] = "enable" THEN "on" ELSE ctl[v]
      /\ used'[v] = IF op[v] = "enable" THEN used[v] ELSE ctl[v]
      /\ op[v] \in {"enable", "access"} /\ late'[v] \in BOOLEAN
  BY <1>t, <1>1, <1>2, <1>3, ZenonT(30) DEF Types
<1>5. Types'
  <2>1. sst' \in [pc : {"idle", "epoch", "pending"}, v : Cpu]
    BY <1>3, AdvanceType, Zenon
  <2>2. busy' \in [Cpu -> BOOLEAN] /\ outstanding' \in [Cpu -> BOOLEAN] /\ late' \in [Cpu -> BOOLEAN]
    BY <1>t, <1>3 DEF Types
  <2> QED
    BY <1>t, <1>0, <1>1, <1>3, <2>1, <2>2, Zenon DEF Types
<1>6. Stopped'
  <2>1. \A w \in Cpu : late[w] => late'[w]
    BY <1>t, <1>3 DEF Types
  <2> QED
    BY <1>t, <1>3, <2>1, Zenon DEF Stopped
<1>7. ASSUME NEW w \in Cpu, w # v PROVE Good(w)'
  <2>1. /\ asked'[w] = asked[w] /\ late'[w] = late[w] /\ need'[w] = need[w]
        /\ busy'[w] = busy[w] /\ outstanding'[w] = outstanding[w] /\ ready'[w] = ready[w]
        /\ ctl'[w] = ctl[w] /\ used'[w] = used[w]
    BY <1>t, <1>1, <1>3, <1>7, ZenonT(60) DEF Types
  <2> QED
    BY <1>a, <1>1, <2>1, GoodKept, Zenon
<1>8. Good(v)'
  <2>1. Phase(v)'
    BY <1>0, <1>1, <1>2, <1>4 DEF Phase
  <2>2. Epochs(v)'
    BY <1>g, <1>1, <1>2, <1>4, Zenon DEF Epochs
  <2>3. ~late'[v] => ControlState(v)'
    BY <1>g, <1>0, <1>1, <1>2, <1>4, Zenon DEF ControlState
  <2> QED
    BY <1>4, <2>1, <2>2, <2>3, Zenon DEF Good
<1> QED
  BY <1>5, <1>6, <1>7, <1>8, Zenon DEF ResetInv

LEMMA ResponseStep ==
    ASSUME ResetInv, NEW v \in Cpu, Response(v)
    PROVE  ResetInv'
<1>t. Types /\ Stopped
  BY Zenon DEF ResetInv
<1>a. \A w \in Cpu : Good(w)
  BY Zenon DEF ResetInv
<1>g. outstanding[v] = busy[v] /\ Phase(v) /\ Epochs(v) /\ (~late[v] => ControlState(v))
  BY <1>a, Zenon DEF Good
<1>1. /\ UNCHANGED <<resets, attached, epoch, vcpu, op, gctl, asked, sst, seen, ctl,
                     used, late, fatal>>
      /\ outstanding[v]
      /\ need' = [need EXCEPT ![v] = @ - 1]
      /\ outstanding' = [outstanding EXCEPT ![v] = need[v] > 1]
      /\ busy' = [busy EXCEPT ![v] = need[v] > 1]
      /\ ready' = IF need[v] = 1 THEN [ready EXCEPT ![v] = 1] ELSE ready
  BY Zenon DEF Response, cpuVars
<1>2. /\ busy[v] /\ vcpu[v] = "wait" /\ asked[v] = 0 /\ ready[v] = 0
      /\ op[v] = "access" /\ need[v] >= 1 /\ need[v] \in Nat
  BY <1>g, <1>t, <1>1, Zenon DEF Phase, Types
<1>3. /\ need'[v] = need[v] - 1 /\ (busy'[v] <=> need[v] > 1)
      /\ outstanding'[v] = busy'[v]
      /\ ready'[v] = IF need[v] = 1 THEN 1 ELSE 0
  BY <1>t, <1>1, <1>2, Zenon DEF Types
<1>4. Types'
  <2>1. need' \in [Cpu -> Nat]
    BY <1>t, <1>1, <1>2 DEF Types
  <2>2. busy' \in [Cpu -> BOOLEAN] /\ outstanding' \in [Cpu -> BOOLEAN]
    BY <1>t, <1>1 DEF Types
  <2> QED
    BY <1>t, <1>1, <2>1, <2>2, Zenon DEF Types
<1>5. Stopped'
  BY <1>t, <1>1, Zenon DEF Stopped
<1>6. ASSUME NEW w \in Cpu, w # v PROVE Good(w)'
  <2>1. /\ need'[w] = need[w] /\ busy'[w] = busy[w]
        /\ outstanding'[w] = outstanding[w] /\ ready'[w] = ready[w]
    BY <1>t, <1>1, <1>6 DEF Types
  <2> QED
    BY <1>a, <1>1, <2>1, GoodKept, Zenon
<1>7. Good(v)'
  <2>1. Phase(v)'
    BY <1>1, <1>2, <1>3 DEF Phase
  <2>2. Epochs(v)'
    BY <1>g, <1>1, Zenon DEF Epochs
  <2>3. ~late[v] => ControlState(v)'
    BY <1>g, <1>1, <1>2, <1>3, Zenon DEF ControlState
  <2> QED
    BY <1>1, <1>3, <2>1, <2>2, <2>3, Zenon DEF Good
<1> QED
  BY <1>4, <1>5, <1>6, <1>7, Zenon DEF ResetInv

LEMMA NextResetInv == ResetInv /\ [ResetNext]_resetVars => ResetInv'
<1> SUFFICES ASSUME ResetInv, [ResetNext]_resetVars PROVE ResetInv'
  OBVIOUS
<1>1. CASE Attach
  BY <1>1, AttachStep, Zenon
<1>2. CASE \E v \in Cpu : Guest(v)
  BY <1>2, GuestStep, Zenon
<1>3. CASE \E v \in Cpu : Response(v)
  BY <1>3, ResponseStep, Zenon
<1>4. CASE PollEpoch
  BY <1>4, PollEpochStep, Zenon
<1>5. CASE \E k \in 0..MaxBacking : PollServe(k)
  BY <1>5, PollServeStep, Zenon
<1>6. CASE Tick \/ PollNothing \/ UNCHANGED resetVars
  <2>1. UNCHANGED <<resets, attached, epoch, vcpu, op, gctl, asked, ready, seen, ctl, busy,
                    outstanding, need, used, late, fatal>>
    BY <1>6, Zenon DEF Tick, PollNothing, resetVars, cpuVars, bankVars
  <2>2. sst' \in [pc : {"idle", "epoch", "pending"}, v : Cpu]
    BY <1>6, CpuFacts, AdvanceType DEF Tick, PollNothing, resetVars, ResetInv, Types
  <2>3. Types' /\ Stopped'
    BY <2>1, <2>2, Zenon DEF ResetInv, Types, Stopped
  <2>4. \A v \in Cpu : Good(v)'
    BY <2>1, GoodKept, Zenon DEF ResetInv
  <2> QED
    BY <2>3, <2>4, Zenon DEF ResetInv
<1> QED
  BY <1>1, <1>2, <1>3, <1>4, <1>5, <1>6, Zenon DEF ResetNext, Poll

-----------------------------------------------------------------------------
\* However many vCPUs, resets and backing requests there are, a reset reaches
\* its cache before the next request unless it falls between the two loads of
\* pollMmioSyncMailbox; and transactions never overlap.
THEOREM ResetsFollowed == ResetSpec => []OnlyTheWindow
<1>1. ASSUME ResetInv PROVE OnlyTheWindow
  <2>1. ASSUME NEW v \in Cpu
        PROVE  /\ outstanding[v] <=> busy[v]
               /\ busy[v] => vcpu[v] = "wait" /\ asked[v] = 0 /\ ready[v] = 0
    BY <1>1, Zenon DEF ResetInv, Types, Good, Phase
  <2>2. ASSUME NEW v \in Cpu, ~late[v]
        PROVE  /\ op[v] = "access" /\ (busy[v] \/ ready[v] = 1) => used[v] = gctl[v]
               /\ attached /\ seen[v] = resets[v] /\ vcpu[v] = "run" => ctl[v] = gctl[v]
    BY <1>1, <2>2 DEF ResetInv, Types, Good, Phase, Epochs, ControlState
  <2> QED
    BY <1>1, <2>1, <2>2, Zenon DEF OnlyTheWindow, ResetInv, Stopped
<1> QED
  BY <1>1, InitResetInv, NextResetInv, PTL DEF ResetSpec

-----------------------------------------------------------------------------
(* The inductive invariant.                                                *)

\* A word of the current write that has reached neither cache nor memory.
Unwritten(w) == txn.write /\ w >= Here /\ w < txn.address + txn.count

\* The word is where the program expects it: in the cached line, which memory
\* agrees with unless it is dirty, or in memory.
Sound(w) ==
    /\ Holds(LineOf(w)) = {} => mem[w] = arch[w]
    /\ \A s \in Holds(LineOf(w)) : /\ lines[s].bytes[w % LineWords] = arch[w]
                                   /\ lines[s].dirty \/ mem[w] = arch[w]

Data ==
    careful => \A w \in Word : IF Unwritten(w) THEN bytes[w - txn.address] = arch[w] ELSE Sound(w)

\* The access stays within the window, and a push or a movec has none.
Extent ==
    /\ txn.offset <= txn.count
    /\ txn.count > 0 => txn.address + txn.count - 1 \in Word /\ ~pushing /\ active

DirtyIsValid == \A s \in Slot : lines[s].dirty => lines[s].valid

\* The lines of the access may be used in their modes until it ends.
Disciplined ==
    careful => \A w \in Word :
        w >= txn.address /\ w < txn.address + txn.count => MayAccess(LineOf(w))

\* What each backing request was issued for.
Requested ==
    /\ pending \notin {"none", "push"} => txn.offset < txn.count
    /\ pending \in {"fill", "evict"} => /\ ~Bypass /\ ~Hit /\ slot[1] = setIndex(Line)
                                        /\ cacr.dhlck => slot[2] >= Half
    /\ pending = "fill" => ~lines[slot].dirty
    /\ pending = "evict" => lines[slot].valid
    /\ pending = "push" => pushing /\ lines[slot].valid
    /\ pending \in {"bypassRead", "bypassWrite"} => Bypass /\ (txn.write <=> pending = "bypassWrite")
    /\ pending = "writeThrough" =>
          /\ txn.write /\ mode(Line) = 0 /\ slot \in Holds(Line)
          /\ \A k \in 0..(LineWords - 1) :
                k >= In /\ k < In + Chunk => lines[slot].bytes[k] = bytes[txn.offset + k - In]

IInv == TypeOK /\ Data /\ Extent /\ DirtyIsValid /\ Disciplined /\ Requested /\ ReadsLatest

-----------------------------------------------------------------------------
(* Lines and words.                                                        *)

LEMMA Split ==
    ASSUME NEW w \in Nat
    PROVE  /\ LineOf(w) \in Nat /\ w % LineWords \in 0..(LineWords - 1)
           /\ w = WordOf(LineOf(w), w % LineWords)
  BY GeometryAssumption DEF LineOf, WordOf

LEMMA Join ==
    ASSUME NEW l \in Nat, NEW k \in 0..(LineWords - 1)
    PROVE  /\ WordOf(l, k) \in Nat
           /\ LineOf(WordOf(l, k)) = l /\ WordOf(l, k) % LineWords = k
  BY GeometryAssumption DEF LineOf, WordOf

LEMMA LineOfWord == ASSUME NEW w \in Word PROVE LineOf(w) \in LineNo /\ w \in Nat
  BY GeometryAssumption DEF LineNo, Word, LineOf

LEMMA WordOfLine ==
    ASSUME NEW l \in LineNo, NEW k \in 0..(LineWords - 1)
    PROVE  WordOf(l, k) \in Word
  BY GeometryAssumption DEF LineNo, Word, WordOf

\* Fewer than two lines' worth of words from w on lie in the lines of the first
\* and of the last.
LEMMA TwoLines ==
    ASSUME NEW w \in Nat, NEW n \in 1..LineWords, NEW v \in Nat, w <= v, v <= w + n - 1
    PROVE  LineOf(v) = LineOf(w) \/ LineOf(v) = LineOf(w + n - 1)
<1>1. \A a, b \in Nat : a < b => a * LineWords + LineWords <= b * LineWords
  BY GeometryAssumption
<1> DEFINE z == w + n - 1
<1>2. z \in Nat /\ LineWords \in Nat
  BY GeometryAssumption
<1>3. /\ LineOf(w) \in Nat /\ LineOf(v) \in Nat /\ LineOf(z) \in Nat
      /\ w = WordOf(LineOf(w), w % LineWords) /\ w % LineWords \in 0..(LineWords - 1)
      /\ v = WordOf(LineOf(v), v % LineWords) /\ v % LineWords \in 0..(LineWords - 1)
      /\ z = WordOf(LineOf(z), z % LineWords) /\ z % LineWords \in 0..(LineWords - 1)
  BY <1>2, Split, Zenon
<1>4. PICK a, b, c, i, j, k \in Nat :
        /\ a = LineOf(w) * LineWords /\ b = LineOf(v) * LineWords /\ c = LineOf(z) * LineWords
        /\ i = w % LineWords /\ j = v % LineWords /\ k = z % LineWords
  <2>1. \A p, q \in Nat : p * q \in Nat
    OBVIOUS
  <2>2. w % LineWords \in Nat /\ v % LineWords \in Nat /\ z % LineWords \in Nat
    BY <1>2, <1>3
  <2> QED
    BY <1>2, <1>3, <2>1, <2>2, Zenon
<1>5. LineOf(v) < LineOf(w) => b + LineWords <= a
  BY <1>1, <1>3, <1>4, Zenon
<1>6. LineOf(z) < LineOf(v) => c + LineWords <= b
  BY <1>1, <1>3, <1>4, Zenon
<1>7. LineOf(w) < LineOf(v) => a + LineWords <= b
  BY <1>1, <1>3, <1>4, Zenon
<1>8. LineOf(v) < LineOf(z) => b + LineWords <= c
  BY <1>1, <1>3, <1>4, Zenon
<1>9. /\ w = a + i /\ v = b + j /\ z = c + k
      /\ i < LineWords /\ j < LineWords /\ k < LineWords
  BY <1>2, <1>3, <1>4, SMTT(30) DEF WordOf
<1>10. ~(LineOf(v) < LineOf(w)) /\ ~(LineOf(z) < LineOf(v))
  BY <1>2, <1>4, <1>5, <1>6, <1>9, SMTT(30)
<1>11. ~(LineOf(w) < LineOf(v) /\ LineOf(v) < LineOf(z))
  BY <1>2, <1>4, <1>7, <1>8, <1>9, SMTT(30)
<1> QED
  BY <1>3, <1>10, <1>11

\* The fields of the transaction.
LEMMA Fields ==
    ASSUME TypeOK
    PROVE  /\ txn.write \in BOOLEAN /\ txn.address \in Nat /\ txn.address \in Word
           /\ txn.count \in Nat /\ txn.offset \in Nat /\ txn.count <= LineWords
           /\ LineWords \in Nat /\ LineWords > 0 /\ MaxCount = LineWords
  BY GeometryAssumption DEF TypeOK, Word, MaxCount

\* The chunk that next works on lies in one line.
LEMMA ChunkFits ==
    ASSUME TypeOK, Extent, txn.offset < txn.count
    PROVE  /\ Here \in Word /\ Here \in Nat /\ Here = txn.address + txn.offset
           /\ Line \in LineNo /\ Line \in Nat
           /\ In \in Nat /\ Chunk \in Nat /\ Chunk > 0 /\ In + Chunk <= LineWords
           /\ txn.offset + Chunk <= txn.count
           /\ Here = WordOf(Line, In)
<1>1. /\ Here \in Nat /\ Here = txn.address + txn.offset
  BY Fields DEF Here
<1>2. txn.address + txn.count - 1 \in Word
  BY Fields DEF Extent
<1>3. Here \in Word
  <2>1. NumLines * LineWords - 1 \in Int
    BY GeometryAssumption
  <2>2. txn.address + txn.count - 1 <= NumLines * LineWords - 1
    BY <1>2, <2>1 DEF Word
  <2> QED
    BY <1>1, <2>1, <2>2, Fields DEF Word
<1>4. Line \in LineNo /\ Line \in Nat
  BY <1>3, LineOfWord DEF Line, LineNo
<1>5. In \in 0..(LineWords - 1) /\ Here = WordOf(Line, In)
  BY <1>1, Split, Zenon DEF In, Line
<1> HIDE DEF Here
<1>6. /\ In \in Nat /\ Chunk \in Nat /\ Chunk > 0 /\ In + Chunk <= LineWords
      /\ txn.offset + Chunk <= txn.count
  BY <1>5, Fields DEF Chunk
<1> QED
  BY <1>1, <1>3, <1>4, <1>5, <1>6, Zenon

\* Which words it is.
LEMMA ChunkWords ==
    ASSUME TypeOK, Extent, txn.offset < txn.count, NEW w \in Word
    PROVE  /\ w \in Nat /\ w % LineWords \in Nat /\ w % LineWords \in 0..(LineWords - 1)
           /\ w >= Here /\ w < Here + Chunk => LineOf(w) = Line
           /\ LineOf(w) = Line =>
                /\ w + In = Here + (w % LineWords)
                /\ w >= Here /\ w < Here + Chunk
                      <=> Unwritten(w) \/ (~txn.write /\ w >= Here /\ w < txn.address + txn.count)
<1>1. /\ w \in Nat /\ w % LineWords \in Nat /\ w % LineWords \in 0..(LineWords - 1)
      /\ w = WordOf(LineOf(w), w % LineWords) /\ LineOf(w) \in Nat
  BY Split, LineOfWord, Fields
<1>2. ASSUME w >= Here, w < Here + Chunk PROVE LineOf(w) = Line
  <2> DEFINE i == w - Here
  <2>0. Here \in Nat /\ Chunk \in Nat
    BY ChunkFits, Zenon
  <2>1. i \in Nat /\ w = Here + i /\ i < Chunk
    BY <1>1, <1>2, <2>0
  <2> HIDE DEF i
  <2>2. In + i \in 0..(LineWords - 1)
    BY <2>1, ChunkFits, Fields, SMTT(30)
  <2>3. WordOf(Line, In + i) = w
    BY <2>1, ChunkFits, Fields, SMTT(30) DEF WordOf
  <2> QED
    BY <2>2, <2>3, ChunkFits, Join, Zenon
<1>3. ASSUME LineOf(w) = Line PROVE w + In = Here + (w % LineWords)
  BY <1>1, <1>3, ChunkFits, Fields, SMTT(30) DEF WordOf
<1>4. ASSUME LineOf(w) = Line
      PROVE  w >= Here /\ w < Here + Chunk <=> w >= Here /\ w < txn.address + txn.count
  <2>1. w + In = Here + (w % LineWords) /\ w % LineWords < LineWords
    BY <1>1, <1>3, <1>4, Fields
  <2>2. Chunk = txn.count - txn.offset \/ Chunk = LineWords - In
    BY Zenon DEF Chunk
  <2> QED
    BY <1>1, <2>1, <2>2, ChunkFits, Fields, SMTT(30)
<1> QED
  BY <1>1, <1>2, <1>3, <1>4, Fields, Zenon DEF Unwritten

LEMMA ChunkPlace ==
    ASSUME TypeOK, Extent, txn.offset < txn.count, NEW w \in Nat, NEW k \in Nat, w + In = Here + k
    PROVE  /\ (k >= In /\ k < In + Chunk) <=> (w >= Here /\ w < Here + Chunk)
           /\ txn.offset + k - In = w - txn.address
           /\ k = In + (w - txn.address) - txn.offset
<1>1. PICK a, o, i, h, c \in Nat : a = txn.address /\ o = txn.offset /\ i = In /\ h = Here /\ c = Chunk
  BY ChunkFits, Fields, Zenon
<1>2. h = a + o /\ w + i = h + k
  BY <1>1, ChunkFits, Zenon
<1>3. /\ (k >= i /\ k < i + c) <=> (w >= h /\ w < h + c)
      /\ o + k - i = w - a
      /\ k = i + (w - a) - o
  BY <1>2
<1> QED
  BY <1>1, <1>3, Zenon

\* Storing the chunk in a line, and taking it from one.
LEMMA StoredWord ==
    ASSUME TypeOK, Extent, txn.offset < txn.count, NEW w \in Word, LineOf(w) = Line,
           NEW b \in [0..(LineWords - 1) -> Values]
    PROVE  Stored(b)[w % LineWords] = IF w >= Here /\ w < Here + Chunk THEN bytes[w - txn.address]
                                      ELSE b[w % LineWords]
<1>1. /\ w \in Nat /\ w % LineWords \in Nat /\ w % LineWords \in 0..(LineWords - 1)
      /\ w + In = Here + (w % LineWords)
  BY ChunkWords, Zenon
<1> DEFINE k == w % LineWords
<1>2. Stored(b)[k] = IF k >= In /\ k < In + Chunk THEN bytes[txn.offset + k - In] ELSE b[k]
  BY <1>1, Zenon DEF Stored
<1> HIDE DEF k
<1>3. k \in Nat /\ w + In = Here + k
  BY <1>1, Zenon DEF k
<1>4. /\ k >= In /\ k < In + Chunk <=> w >= Here /\ w < Here + Chunk
      /\ txn.offset + k - In = w - txn.address
  BY <1>1, <1>3, ChunkPlace, Zenon
<1> QED
  BY <1>2, <1>4, Zenon DEF k

LEMMA StoredType ==
    ASSUME TypeOK, Extent, txn.offset < txn.count, NEW b \in [0..(LineWords - 1) -> Values]
    PROVE  Stored(b) \in [0..(LineWords - 1) -> Values]
<1>1. ASSUME NEW k \in 0..(LineWords - 1), k >= In, k < In + Chunk
      PROVE  txn.offset + k - In \in 0..(MaxCount - 1)
  <2>1. PICK o, i, c, n, p \in Nat :
          o = txn.offset /\ i = In /\ c = Chunk /\ n = LineWords /\ p = txn.count
    BY ChunkFits, Fields, Zenon
  <2>2. i + c <= n /\ o + c <= p /\ p <= n /\ k \in Nat /\ k >= i /\ k < i + c /\ MaxCount = n
    BY <1>1, <2>1, ChunkFits, Fields, SMTT(30)
  <2>3. o + k - i \in 0..(n - 1)
    BY <2>2
  <2> QED
    BY <2>1, <2>2, <2>3, Zenon
<1> QED
  BY <1>1, Zenon DEF Stored, TypeOK

LEMMA TakenWord ==
    ASSUME TypeOK, Extent, txn.offset < txn.count, NEW b \in [0..(LineWords - 1) -> Values]
    PROVE  /\ Taken(b) \in [0..(MaxCount - 1) -> Values]
           /\ \A k \in 0..(MaxCount - 1) :
                 IF k >= txn.offset /\ k < txn.offset + Chunk
                 THEN /\ txn.address + k \in Word /\ LineOf(txn.address + k) = Line
                      /\ Taken(b)[k] = b[(txn.address + k) % LineWords]
                 ELSE Taken(b)[k] = bytes[k]
<1>1. DOMAIN bytes = 0..(MaxCount - 1) /\ bytes \in [0..(MaxCount - 1) -> Values]
  BY Zenon DEF TypeOK
<1>2. \A k \in 0..(MaxCount - 1) :
         Taken(b)[k] = IF k >= txn.offset /\ k < txn.offset + Chunk THEN b[In + k - txn.offset] ELSE bytes[k]
  BY <1>1, Zenon DEF Taken
<1>3. ASSUME NEW k \in 0..(MaxCount - 1), k >= txn.offset, k < txn.offset + Chunk
      PROVE  /\ txn.address + k \in Word /\ LineOf(txn.address + k) = Line
             /\ (txn.address + k) % LineWords = In + k - txn.offset
             /\ In + k - txn.offset \in 0..(LineWords - 1)
  <2> DEFINE w == txn.address + k
  <2>0. /\ k \in Nat /\ txn.address \in Nat /\ txn.offset \in Nat /\ txn.count \in Nat
        /\ Chunk \in Nat /\ Here = txn.address + txn.offset /\ txn.offset + Chunk <= txn.count
    BY ChunkFits, Fields
  <2>1. w \in Nat /\ w >= Here /\ w < Here + Chunk /\ w < txn.address + txn.count
    <3>1. PICK a, o, c, n \in Nat :
            a = txn.address /\ o = txn.offset /\ c = Chunk /\ n = txn.count
      BY <2>0, Zenon
    <3>2. k >= o /\ k < o + c /\ o + c <= n /\ Here = a + o
      BY <1>3, <2>0, <3>1, Zenon
    <3>3. a + k \in Nat /\ a + k >= a + o /\ a + k < a + o + c /\ a + k < a + n
      BY <2>0, <3>2, SMTT(30)
    <3> QED
      BY <3>1, <3>2, <3>3, Zenon
  <2>2. w \in Word
    <3>1. NumLines * LineWords - 1 \in Int
      BY GeometryAssumption
    <3>2. txn.address + txn.count - 1 <= NumLines * LineWords - 1
      BY <3>1, Fields DEF Word, Extent
    <3> QED
      BY <2>1, <3>1, <3>2, Fields, SMTT(30) DEF Word
  <2>3. LineOf(w) = Line /\ w + In = Here + (w % LineWords) /\ w % LineWords \in 0..(LineWords - 1)
    BY <2>1, <2>2, ChunkWords, Zenon
  <2>4. w % LineWords = In + k - txn.offset
    <3>1. PICK i \in Nat : i = w % LineWords
      BY <2>3, Fields
    <3>2. i = In + (w - txn.address) - txn.offset
      BY <2>1, <2>3, <3>1, ChunkPlace, Zenon
    <3>3. w - txn.address = k
      BY <2>0
    <3> QED
      BY <3>1, <3>2, <3>3, Zenon
  <2> QED
    BY <2>2, <2>3, <2>4, Zenon
<1>4. ASSUME NEW k \in 0..(MaxCount - 1) PROVE Taken(b)[k] \in Values
  BY <1>1, <1>2, <1>3, Zenon
<1>5. Taken(b) \in [0..(MaxCount - 1) -> Values]
  BY <1>1, <1>4, Zenon DEF Taken
<1> QED
  BY <1>2, <1>3, <1>5, Zenon


-----------------------------------------------------------------------------
(* The lookup, the victim and the mode.                                    *)

LEMMA Lowest ==
    ASSUME NEW T \in SUBSET Nat, T # {}
    PROVE  \E m \in T : \A n \in T : m <= n
<1> DEFINE R == {ss \in Nat \X Nat : ss[1] < ss[2]}
<1>1. IsWellFoundedOn(R, Nat)
  BY NatLessThanWellFounded, Zenon DEF OpToRel
<1> HIDE DEF R
<1>2. PICK m \in T : \A n \in T : <<n, m>> \notin R
  BY <1>1, WFMin, Zenon
<1>3. \A a, b \in Nat : a < b => <<a, b>> \in R
  BY Zenon DEF R
<1>4. ASSUME NEW n \in T PROVE m <= n
  <2>1. ~(n < m)
    BY <1>2, <1>3, Zenon
  <2> QED
    BY <2>1
<1> QED
  BY <1>4, Zenon

LEMMA ModeType ==
    ASSUME TypeOK, NEW l
    PROVE  mode(l) \in 0..3
<1>1. cacr.mode \in 0..3
  BY ControlAssumption, SMTT(30) DEF TypeOK, Off
<1>2. \A i \in 1..NumAcrs : acr[i].mode \in 0..3
  BY ControlAssumption, SMTT(30) DEF TypeOK, NoMatch
<1> DEFINE hits == {i \in 1..NumAcrs : acr[i].on /\ l \in acr[i].covers}
<1>3. CASE hits = {}
  BY <1>1, <1>3, SMTT(30) DEF mode, modeOf
<1>4. CASE hits # {}
  <2> DEFINE first == CHOOSE i \in hits : \A j \in hits : i <= j
  <2>1. \E i \in hits : \A j \in hits : i <= j
    BY <1>4, Lowest, hits \in SUBSET Nat, Zenon
  <2>2. first \in hits
    BY <2>1, Zenon
  <2>3. first \in 1..NumAcrs
    BY <2>2, Zenon
  <2>4. mode(l) = IF ~cacr.dec THEN 2 ELSE acr[first].mode
    BY <1>4 DEF mode, modeOf
  <2> HIDE DEF first
  <2> QED
    BY <1>2, <2>3, <2>4
<1> QED
  BY <1>3, <1>4, Zenon

LEMMA FindFacts ==
    ASSUME TypeOK, NEW l \in LineNo, Holds(l) # {}
    PROVE  find(l) \in Holds(l) /\ \A s \in Holds(l) : s = find(l)
<1>1. \A s, t \in Holds(l) : s = t
  BY DEF TypeOK, Holds
<1>2. \A s \in Holds(l) : s[2] \in Nat
  BY GeometryAssumption DEF Holds, Slot
<1>3. PICK s \in Holds(l) : TRUE
  OBVIOUS
<1>4. \A t \in Holds(l) : s[2] <= t[2]
  BY <1>1, <1>2
<1>5. find(l) \in Holds(l)
  BY <1>4, Zenon DEF find
<1> QED
  BY <1>1, <1>5, Zenon

\* The victim is a way of the set, not a locked one.
LEMMA VictimFacts ==
    ASSUME TypeOK, NEW i \in 0..(Sets - 1)
    PROVE  /\ victim(i) \in Slot /\ victim(i)[1] = i
           /\ cacr.dhlck => victim(i)[2] >= Half
           /\ (\E w \in (IF cacr.dhlck THEN Half ELSE 0)..(Ways - 1) : ~lines[<<i, w>>].valid)
                 => ~lines[victim(i)].valid
<1> DEFINE low == IF cacr.dhlck THEN Half ELSE 0
           free == {w \in low..(Ways - 1) : ~lines[<<i, w>>].valid}
           way == IF free # {} THEN CHOOSE w \in free : \A v \in free : w <= v
                  ELSE IF cacr.dhlck THEN Half + (replacement \div 2)
                  ELSE replacement
<1>1. victim(i) = <<i, way>>
  BY Zenon DEF victim
<1>2. Half \in Nat /\ Ways \in Nat /\ low \in Nat /\ replacement \in 0..(Ways - 1)
  BY GeometryAssumption, SMTT(30) DEF Half, TypeOK
<1>3. CASE free # {}
  <2>1. \E w \in free : \A v \in free : w <= v
    BY <1>2, <1>3, Lowest, free \in SUBSET Nat, Zenon
  <2>2. way \in free
    BY <1>3, <2>1, Zenon
  <2>3. way \in low..(Ways - 1) /\ ~lines[<<i, way>>].valid
    BY <2>2, Zenon
  <2> HIDE DEF way, free
  <2> QED
    BY <1>1, <1>2, <2>3 DEF Slot
<1>4. CASE free = {}
  <2>1. way = IF cacr.dhlck THEN Half + (replacement \div 2) ELSE replacement
    BY <1>4, Zenon
  <2>2. \A w \in low..(Ways - 1) : lines[<<i, w>>].valid
    BY <1>4, Zenon
  <2>3. Half + (replacement \div 2) \in Half..(Ways - 1)
    BY <1>2, GeometryAssumption DEF Half
  <2> HIDE DEF way, free
  <2>4. way \in 0..(Ways - 1) /\ (cacr.dhlck => way >= Half)
    BY <1>2, <2>1, <2>3, SMTT(30)
  <2>5. victim(i) \in Slot /\ victim(i)[1] = i /\ victim(i)[2] = way
    BY <1>1, <2>4 DEF Slot
  <2>6. ~\E w \in low..(Ways - 1) : ~lines[<<i, w>>].valid
    BY <2>2, Zenon
  <2> QED
    BY <2>4, <2>5, <2>6, Zenon
<1> QED
  BY <1>3, <1>4, Zenon

LEMMA FreshType ==
    ASSUME TypeOK, writes < MaxWrites, NEW k \in 0..(MaxCount - 1)
    PROVE  Fresh(k) \in Values
<1>1. \A a, b, n \in Nat : a < b => a * n + n <= b * n
  OBVIOUS
<1>2. writes \in Nat /\ MaxCount \in Nat /\ MaxWrites \in Nat /\ k \in Nat /\ k < MaxCount
  BY GeometryAssumption, ControlAssumption DEF MaxCount, TypeOK
<1>3. writes * MaxCount + MaxCount <= MaxWrites * MaxCount
  BY <1>1, <1>2, Zenon
<1>4. PICK a, b, c \in Nat : a = writes * MaxCount /\ b = MaxWrites * MaxCount /\ c = MaxCount
  BY <1>2, \A m, n \in Nat : m * n \in Nat, Zenon
<1>5. a + k + 1 \in 0..b
  BY <1>2, <1>3, <1>4
<1> QED
  BY <1>4, <1>5, Zenon DEF Fresh, Values

LEMMA SetIndex == ASSUME NEW l \in LineNo PROVE setIndex(l) \in 0..(Sets - 1)
  BY GeometryAssumption DEF LineNo, setIndex


-----------------------------------------------------------------------------
(* What depends on which variables.                                        *)

LEMMA SameLines ==
    ASSUME UNCHANGED <<lines, cacr, acr>>
    PROVE  \A l : /\ Holds(l)' = Holds(l) /\ mode(l)' = mode(l)
                  /\ MayAccess(l)' <=> MayAccess(l)
<1>1. \A l : Holds(l)' = Holds(l)
  BY Zenon DEF Holds
<1>2. \A l : mode(l)' = mode(l)
  BY Zenon DEF mode
<1> QED
  BY <1>1, <1>2, Zenon DEF MayAccess

LEMMA SameWords ==
    ASSUME UNCHANGED <<lines, mem>>
    PROVE  \A w : arch'[w] = arch[w] => (Sound(w)' <=> Sound(w))
<1>1. \A l : Holds(l)' = Holds(l)
  BY Zenon DEF Holds
<1> QED
  BY <1>1, Zenon DEF Sound

\* Without an access under way every word is where the program expects it.
LEMMA AtRest ==
    ASSUME IInv, txn.count = 0, careful, NEW w \in Word
    PROVE  Sound(w)
<1>1. w \in Nat /\ Here = txn.address /\ txn.address \in Nat
  BY LineOfWord, Fields DEF IInv, Extent, Here
<1>2. ~Unwritten(w)
  BY <1>1 DEF Unwritten
<1> QED
  BY <1>2, Zenon DEF IInv, Data

LEMMA Resting ==
    ASSUME IInv, ~active
    PROVE  txn.count = 0
  BY Fields DEF IInv, Extent

LEMMA AccessStep ==
    ASSUME IInv, NEW w \in Word, NEW n \in 1..MaxCount, NEW wr \in BOOLEAN, NEW data,
           wr => \A k \in 0..(n - 1) : data[k] \in Values,
           access(w, n, wr, data)
    PROVE  IInv'
<1> TypeOK /\ Data /\ Extent /\ DirtyIsValid /\ Disciplined /\ Requested /\ ReadsLatest
  BY Zenon DEF IInv
<1>1. /\ w + n - 1 \in Word /\ ~active /\ active' = TRUE /\ pending' = "none" /\ pushing' = FALSE
      /\ wr => writes < MaxWrites
      /\ txn' = [write |-> wr, address |-> w, count |-> n, offset |-> 0]
      /\ bytes' = IF wr THEN [k \in 0..(MaxCount - 1) |-> IF k < n THEN data[k] ELSE Zero] ELSE NoBytes
      /\ careful' = (careful /\ MayAccess(LineOf(w)) /\ MayAccess(LineOf(w + n - 1)))
      /\ writes' = IF ~careful' THEN MaxWrites ELSE IF wr THEN writes + 1 ELSE writes
      /\ arch' = [v \in Word |-> IF ~careful' THEN Zero
                                 ELSE IF wr /\ v >= w /\ v < w + n THEN data[v - w] ELSE arch[v]]
      /\ UNCHANGED <<lines, cacr, acr, replacement, slot, clears, mem>>
  BY Zenon DEF access, start, control
<1>2. w \in Nat /\ n \in Nat /\ n > 0 /\ n <= LineWords /\ n \in 0..MaxCount /\ 0 \in 0..MaxCount
  BY Fields, LineOfWord, SMTT(30)
<1>3. /\ txn'.write = wr /\ txn'.address = w /\ txn'.count = n /\ txn'.offset = 0
      /\ Here' = w
  BY <1>1, <1>2 DEF Here
<1>4. TypeOK'
  <2>1. Zero \in Values
    BY GeometryAssumption, ControlAssumption DEF Zero, Values, MaxCount
  <2>2. bytes' \in [0..(MaxCount - 1) -> Values]
    <3>1. CASE wr
      <4>1. \A k \in 0..(MaxCount - 1) : k < n => data[k] \in Values
        BY <1>2, <3>1
      <4> QED
        BY <1>1, <2>1, <3>1, <4>1, Zenon
    <3>2. CASE ~wr
      BY <1>1, <2>1, <3>2, Zenon DEF NoBytes
    <3> QED
      BY <3>1, <3>2, Zenon
  <2>3. arch' \in [Word -> Values]
    <3>1. ASSUME NEW v \in Word, wr, v >= w, v < w + n PROVE data[v - w] \in Values
      <4>1. v \in Nat /\ v - w \in 0..(n - 1)
        BY <1>2, <3>1, LineOfWord
      <4> QED
        BY <3>1, <4>1, Zenon
    <3>2. \A v \in Word : arch[v] \in Values
      BY Zenon DEF TypeOK
    <3> QED
      BY <1>1, <2>1, <3>1, <3>2, Zenon
  <2>4. careful' \in BOOLEAN
    BY <1>1, Zenon DEF TypeOK, MayAccess
  <2>5. writes' \in 0..MaxWrites
    BY <1>1, ControlAssumption DEF TypeOK
  <2>6. txn' \in [write : BOOLEAN, address : Word, count : 0..MaxCount, offset : 0..MaxCount]
    BY <1>1, <1>2, Zenon
  <2> QED
    BY <1>1, <2>2, <2>3, <2>4, <2>5, <2>6, Zenon DEF TypeOK
<1>5. Extent'
  BY <1>1, <1>2, <1>3 DEF Extent
<1>6. DirtyIsValid'
  BY <1>1, Zenon DEF DirtyIsValid
<1>7. Disciplined'
  <2> SUFFICES ASSUME careful', NEW v \in Word, v >= w, v < w + n PROVE MayAccess(LineOf(v))'
    BY <1>3, Zenon DEF Disciplined
  <2>1. v \in Nat /\ w <= v /\ v <= w + n - 1 /\ n \in 1..LineWords
    BY <1>2, LineOfWord
  <2>2. MayAccess(LineOf(v))
    BY <1>1, <1>2, <2>1, TwoLines, ZenonT(30)
  <2> QED
    BY <1>1, <2>2, SameLines, Zenon
<1>8. Requested'
  BY <1>1, Zenon DEF Requested
<1>9. Data'
  <2> SUFFICES ASSUME careful', NEW v \in Word
               PROVE  IF Unwritten(v)' THEN bytes'[v - w] = arch'[v] ELSE Sound(v)'
    BY <1>3, Zenon DEF Data
  <2>1. Unwritten(v)' <=> wr /\ v >= w /\ v < w + n
    BY <1>3, Zenon DEF Unwritten
  <2>2. ASSUME wr, v >= w, v < w + n PROVE bytes'[v - w] = arch'[v]
    <3>1. v - w \in 0..(MaxCount - 1) /\ v - w < n
      BY <1>2, <2>2, LineOfWord, Fields, SMTT(30)
    <3>2. bytes'[v - w] = data[v - w]
      BY <1>1, <2>2, <3>1, Zenon
    <3>3. arch'[v] = data[v - w]
      BY <1>1, <2>2, Zenon
    <3> QED
      BY <3>2, <3>3, Zenon
  <2>3. ASSUME ~(wr /\ v >= w /\ v < w + n) PROVE Sound(v)'
    <3>1. arch'[v] = arch[v]
      BY <1>1, <2>3, Zenon
    <3>2. Sound(v)
      BY <1>1, Resting, AtRest, Zenon
    <3> QED
      BY <1>1, <3>1, <3>2, SameWords, Zenon
  <2> QED
    BY <2>1, <2>2, <2>3, Zenon
<1>10. ReadsLatest'
  BY <1>3, Fields, SMTT(30) DEF ReadsLatest
<1> QED
  BY <1>4, <1>5, <1>6, <1>7, <1>8, <1>9, <1>10, Zenon DEF IInv


\* A transaction that is not an access has nothing to transfer.
LEMMA NoAccess ==
    ASSUME txn' = NoTxn
    PROVE  /\ txn' \in [write : BOOLEAN, address : Word, count : 0..MaxCount, offset : 0..MaxCount]
           /\ txn'.count = 0 /\ txn'.offset = 0
           /\ Extent' /\ Disciplined' /\ ReadsLatest'
           /\ \A w \in Word : ~Unwritten(w)'
<1>1. /\ txn'.write = FALSE /\ txn'.address = 0 /\ txn'.count = 0 /\ txn'.offset = 0
  BY Zenon DEF NoTxn
<1>2. 0 \in Word /\ 0 \in 0..MaxCount
  BY GeometryAssumption DEF Word, MaxCount
<1>3. \A w \in Word : w \in Nat
  BY LineOfWord, Zenon
<1>4. Disciplined'
  BY <1>1, <1>3, SMTT(30) DEF Disciplined
<1>5. ReadsLatest'
  BY <1>1 DEF ReadsLatest
<1> QED
  BY <1>1, <1>2, <1>4, <1>5, SMTT(30) DEF Extent, Unwritten, NoTxn

LEMMA MovecCacrStep ==
    ASSUME IInv, NEW c \in Controls, NEW inval \in BOOLEAN, movecCacr(c, inval)
    PROVE  IInv'
<1> TypeOK /\ Data /\ Extent /\ DirtyIsValid /\ Disciplined /\ Requested /\ ReadsLatest
  BY Zenon DEF IInv
<1>1. /\ ~active /\ active' = TRUE /\ pending' = "none" /\ pushing' = FALSE /\ txn' = NoTxn
      /\ lines' = IF inval THEN [s \in Slot |-> NoLine] ELSE lines
      /\ careful' = (careful /\ (inval => ~AnyDirty))
      /\ arch' = [w \in Word |-> IF careful' THEN arch[w] ELSE Zero]
      /\ cacr' = c
      /\ UNCHANGED <<acr, replacement, slot, bytes, clears, mem, writes>>
  BY Zenon DEF movecCacr, start
<1>2. NoLine \in Entry /\ NoLine.valid = FALSE /\ NoLine.dirty = FALSE /\ Zero \in Values
  BY GeometryAssumption, ControlAssumption DEF NoLine, Entry, LineNo, Values, Zero, MaxCount
<1>3. \A s \in Slot : lines'[s] = IF inval THEN NoLine ELSE lines[s]
  BY <1>1, Zenon
<1>4. lines' \in [Slot -> Entry] /\ arch' \in [Word -> Values] /\ careful' \in BOOLEAN
  BY <1>1, <1>2, Zenon DEF TypeOK, AnyDirty
<1>5. TypeOK'
  BY <1>1, <1>2, <1>3, <1>4, NoAccess, Zenon DEF TypeOK
<1>6. DirtyIsValid'
  BY <1>2, <1>3, Zenon DEF DirtyIsValid
<1>7. Requested'
  BY <1>1, Zenon DEF Requested
<1>8. Data'
  <2> SUFFICES ASSUME careful', NEW w \in Word PROVE Sound(w)'
    BY <1>1, NoAccess, Zenon DEF Data
  <2>1. Sound(w) /\ arch'[w] = arch[w]
    BY <1>1, Resting, AtRest, Zenon
  <2>2. CASE ~inval
    BY <1>1, <2>1, <2>2, SameWords, Zenon
  <2>3. CASE inval
    <3>1. Holds(LineOf(w))' = {}
      BY <1>2, <1>3, <2>3, Zenon DEF Holds
    <3>2. mem[w] = arch[w]
      BY <1>1, <2>1, <2>3, Zenon DEF Sound, Holds, AnyDirty
    <3> QED
      BY <1>1, <2>1, <3>1, <3>2, Zenon DEF Sound
  <2> QED
    BY <2>2, <2>3, Zenon
<1> QED
  BY <1>1, <1>5, <1>6, <1>7, <1>8, NoAccess, Zenon DEF IInv

LEMMA MovecAcrStep ==
    ASSUME IInv, NEW i \in 1..NumAcrs, NEW m \in Matches, movecAcr(i, m)
    PROVE  IInv'
<1> TypeOK /\ Data /\ Extent /\ DirtyIsValid /\ Disciplined /\ Requested /\ ReadsLatest
  BY Zenon DEF IInv
<1>1. /\ ~active /\ active' = TRUE /\ pending' = "none" /\ pushing' = FALSE /\ txn' = NoTxn
      /\ acr' = [acr EXCEPT ![i] = m]
      /\ UNCHANGED <<lines, cacr, replacement, slot, bytes, clears, mem, careful, arch, writes>>
  BY Zenon DEF movecAcr, start, ghost
<1>2. TypeOK'
  BY <1>1, NoAccess, Zenon DEF TypeOK
<1>3. DirtyIsValid' /\ Requested'
  BY <1>1, Zenon DEF DirtyIsValid, Requested
<1>4. Data'
  BY <1>1, NoAccess, Resting, AtRest, SameWords, Zenon DEF Data
<1> QED
  BY <1>1, <1>2, <1>3, <1>4, NoAccess, Zenon DEF IInv

LEMMA PushStep ==
    ASSUME IInv, NEW s \in Slot, push(s)
    PROVE  IInv'
<1> TypeOK /\ Data /\ Extent /\ DirtyIsValid /\ Disciplined /\ Requested /\ ReadsLatest
  BY Zenon DEF IInv
<1>1. /\ ~active /\ active' = TRUE /\ pending' = "none" /\ pushing' = TRUE /\ txn' = NoTxn
      /\ clears' = ~cacr.ddpi /\ slot' = s
      /\ UNCHANGED <<lines, cacr, acr, replacement, bytes, mem, careful, arch, writes>>
  BY Zenon DEF push, start, ghost, control
<1>2. TypeOK'
  BY <1>1, NoAccess, Zenon DEF TypeOK
<1>3. DirtyIsValid' /\ Requested'
  BY <1>1, Zenon DEF DirtyIsValid, Requested
<1>4. Data'
  BY <1>1, NoAccess, Resting, AtRest, SameWords, Zenon DEF Data
<1> QED
  BY <1>1, <1>2, <1>3, <1>4, NoAccess, Zenon DEF IInv

LEMMA ResetStep ==
    ASSUME IInv, reset
    PROVE  IInv'
<1> TypeOK /\ Data /\ Extent /\ DirtyIsValid /\ Disciplined /\ Requested /\ ReadsLatest
  BY Zenon DEF IInv
<1>1. /\ ~active /\ cacr' = Off /\ acr' = [i \in 1..NumAcrs |-> NoMatch]
      /\ UNCHANGED <<lines, replacement, active, pending, slot, txn, bytes, pushing, clears, mem,
                     careful, arch, writes>>
  BY Zenon DEF reset, job, ghost
<1>2. txn.count = 0 /\ txn.offset = 0 /\ ~(txn.offset < txn.count)
  BY <1>1, Resting, Fields DEF Extent
<1>3. TypeOK'
  BY <1>1, Zenon DEF TypeOK
<1>4. DirtyIsValid' /\ Extent' /\ ReadsLatest'
  BY <1>1, Zenon DEF DirtyIsValid, Extent, ReadsLatest
<1>5. Requested'
  BY <1>1, <1>2, Zenon DEF Requested
<1>6. Disciplined'
  BY <1>1, <1>2, LineOfWord, Fields DEF Disciplined
<1>7. Data'
  <2>1. \A w \in Word : Unwritten(w)' <=> Unwritten(w)
    BY <1>1, Zenon DEF Unwritten, Here
  <2>2. \A w \in Word : Sound(w)' <=> Sound(w)
    BY <1>1, SameWords, Zenon
  <2> QED
    BY <1>1, <2>1, <2>2, Zenon DEF Data
<1> QED
  BY <1>3, <1>4, <1>5, <1>6, <1>7, Zenon DEF IInv


-----------------------------------------------------------------------------
(* Steps that change the cache.                                            *)

\* The last conjunct of TypeOK.
OneCopy ==
    \A s, t \in Slot :
        lines[s].valid => /\ s[1] = setIndex(lines[s].line)
                          /\ lines[t].valid /\ lines[s].line = lines[t].line => s = t

LEMMA EntryFields ==
    ASSUME TypeOK, NEW s \in Slot
    PROVE  /\ lines[s] \in Entry /\ lines[s].valid \in BOOLEAN /\ lines[s].dirty \in BOOLEAN
           /\ lines[s].line \in LineNo /\ lines[s].bytes \in [0..(LineWords - 1) -> Values]
  BY Zenon DEF TypeOK, Entry

\* An entry is given other contents, not another line.
LEMMA Rewrite ==
    ASSUME TypeOK, NEW t \in Slot, NEW e \in Entry, e.valid = lines[t].valid, e.line = lines[t].line,
           lines' = [lines EXCEPT ![t] = e]
    PROVE  /\ lines' \in [Slot -> Entry] /\ OneCopy'
           /\ lines'[t] = e /\ \A s \in Slot : s # t => lines'[s] = lines[s]
           /\ \A l : Holds(l)' = Holds(l)
<1>1. lines \in [Slot -> Entry] /\ OneCopy
  BY Zenon DEF TypeOK, OneCopy
<1>2. lines'[t] = e /\ \A s \in Slot : s # t => lines'[s] = lines[s]
  BY <1>1, Zenon
<1>3. \A s \in Slot : lines'[s].valid = lines[s].valid /\ lines'[s].line = lines[s].line
  BY <1>2, Zenon
<1>4. lines' \in [Slot -> Entry]
  BY <1>1, Zenon
<1>5. OneCopy'
  BY <1>1, <1>3 DEF OneCopy
<1>6. \A l : Holds(l)' = Holds(l)
  BY <1>3, Zenon DEF Holds
<1> QED
  BY <1>2, <1>4, <1>5, <1>6, Zenon

LEMMA Drop ==
    ASSUME TypeOK, NEW t \in Slot, lines' = [lines EXCEPT ![t] = NoLine]
    PROVE  /\ lines' \in [Slot -> Entry] /\ OneCopy' /\ (DirtyIsValid => DirtyIsValid')
           /\ \A s \in Slot : s # t => lines'[s] = lines[s]
           /\ ~lines'[t].valid /\ ~lines'[t].dirty
           /\ \A l : Holds(l)' = Holds(l) \ {t}
<1>1. lines \in [Slot -> Entry] /\ OneCopy
  BY Zenon DEF TypeOK, OneCopy
<1>2. NoLine \in Entry /\ NoLine.valid = FALSE /\ NoLine.dirty = FALSE
  BY GeometryAssumption, ControlAssumption DEF NoLine, Entry, LineNo, Values, Zero, MaxCount
<1>3. lines'[t] = NoLine /\ \A s \in Slot : s # t => lines'[s] = lines[s]
  BY <1>1, Zenon
<1>4. lines' \in [Slot -> Entry]
  BY <1>1, <1>2, Zenon
<1>5. OneCopy'
  BY <1>1, <1>2, <1>3 DEF OneCopy
<1>6. \A l : Holds(l)' = Holds(l) \ {t}
  BY <1>2, <1>3, Zenon DEF Holds
<1>7. DirtyIsValid => DirtyIsValid'
  BY <1>2, <1>3, Zenon DEF DirtyIsValid
<1> QED
  BY <1>2, <1>3, <1>4, <1>5, <1>6, <1>7, Zenon

\* Nothing is lost when an entry is dropped whose words memory has.
LEMMA DropSound ==
    ASSUME TypeOK, NEW t \in Slot, lines' = [lines EXCEPT ![t] = NoLine], UNCHANGED arch,
           NEW w \in Word, Sound(w),
           IF t \in Holds(LineOf(w)) THEN mem'[w] = arch[w] ELSE mem'[w] = mem[w]
    PROVE  Sound(w)'
<1>1. LineOf(w) \in LineNo /\ Holds(LineOf(w))' = Holds(LineOf(w)) \ {t}
  BY LineOfWord, Drop, Zenon
<1>2. CASE t \in Holds(LineOf(w))
  <2>0. \A s \in Holds(LineOf(w)) : s = t
    BY <1>1, <1>2, FindFacts, Zenon
  <2>1. Holds(LineOf(w))' = {}
    BY <1>1, <2>0, Zenon
  <2> QED
    BY <1>2, <2>1, Zenon DEF Sound
<1>3. CASE t \notin Holds(LineOf(w))
  <2>1. Holds(LineOf(w))' = Holds(LineOf(w))
    BY <1>1, <1>3, Zenon
  <2>2. \A s \in Holds(LineOf(w)) : lines'[s] = lines[s]
    BY <1>3, Drop, Zenon DEF Holds
  <2> QED
    BY <1>3, <2>1, <2>2, Zenon DEF Sound
<1> QED
  BY <1>2, <1>3, Zenon

LEMMA DropDisciplined ==
    ASSUME TypeOK, NEW t \in Slot, lines' = [lines EXCEPT ![t] = NoLine], UNCHANGED <<cacr, acr>>,
           NEW l, MayAccess(l)
    PROVE  MayAccess(l)'
<1>1. mode(l)' = mode(l)
  BY Zenon DEF mode
<1>2. Holds(l)' \subseteq Holds(l) /\ \A s \in Holds(l)' : lines'[s] = lines[s]
  BY Drop, Zenon DEF Holds
<1> QED
  BY <1>1, <1>2, Zenon DEF MayAccess

\* Writing a line back.
LEMMA WrittenBack ==
    ASSUME TypeOK, NEW l, NEW b \in [0..(LineWords - 1) -> Values], mem' = LineOut(mem, l, b)
    PROVE  /\ mem' \in [Word -> Values]
           /\ \A w \in Word : mem'[w] = IF LineOf(w) = l THEN b[w % LineWords] ELSE mem[w]
<1>1. \A w \in Word : w % LineWords \in 0..(LineWords - 1)
  BY LineOfWord, Split, Zenon
<1> QED
  BY <1>1, Zenon DEF LineOut, TypeOK

LEMMA SameTxn ==
    ASSUME UNCHANGED txn
    PROVE  /\ Here' = Here /\ Line' = Line /\ In' = In /\ Chunk' = Chunk
           /\ \A w : Unwritten(w)' <=> Unwritten(w)
<1>1. Here' = Here
  BY Zenon DEF Here
<1>2. Line' = Line /\ In' = In
  BY <1>1, Zenon DEF Line, In
<1>3. Chunk' = Chunk
  BY <1>2, Zenon DEF Chunk
<1> QED
  BY <1>1, <1>2, <1>3, Zenon DEF Unwritten

\* A step that only names the next backing request.
LEMMA OnlyRequest ==
    ASSUME IInv, Requested', slot' \in Slot,
           pending' \in {"none", "fill", "bypassRead", "bypassWrite", "writeThrough", "push", "evict"},
           UNCHANGED <<lines, cacr, acr, replacement, active, txn, bytes, pushing, clears, mem,
                       careful, arch, writes>>
    PROVE  IInv'
<1> TypeOK /\ Data /\ Extent /\ DirtyIsValid /\ Disciplined /\ Requested /\ ReadsLatest
  BY Zenon DEF IInv
<1>1. TypeOK'
  BY Zenon DEF TypeOK
<1>2. DirtyIsValid' /\ Extent' /\ ReadsLatest'
  BY Zenon DEF DirtyIsValid, Extent, ReadsLatest
<1>3. Disciplined'
  BY SameLines, Zenon DEF Disciplined
<1>4. Data'
  BY SameTxn, SameWords, Zenon DEF Data
<1> QED
  BY <1>1, <1>2, <1>3, <1>4, Zenon DEF IInv


\* The cursor moves past the chunk.
LEMMA Transferred ==
    ASSUME TypeOK, Extent, txn.offset < txn.count, txn' = [txn EXCEPT !.offset = @ + Chunk],
           UNCHANGED <<pushing, active>>
    PROVE  /\ txn' \in [write : BOOLEAN, address : Word, count : 0..MaxCount, offset : 0..MaxCount]
           /\ txn'.write = txn.write /\ txn'.address = txn.address /\ txn'.count = txn.count
           /\ txn'.offset = txn.offset + Chunk
           /\ Extent'
           /\ \A w \in Word : Unwritten(w)' <=> Unwritten(w) /\ ~(w >= Here /\ w < Here + Chunk)
<1>1. txn \in [write : BOOLEAN, address : Word, count : 0..MaxCount, offset : 0..MaxCount]
  BY Zenon DEF TypeOK
<1>2. /\ txn'.write = txn.write /\ txn'.address = txn.address /\ txn'.count = txn.count
      /\ txn'.offset = txn.offset + Chunk
  BY <1>1, Zenon
<1>3. txn.offset + Chunk \in 0..MaxCount /\ txn.offset + Chunk <= txn.count
  BY ChunkFits, Fields
<1>4. txn' \in [write : BOOLEAN, address : Word, count : 0..MaxCount, offset : 0..MaxCount]
  BY <1>1, <1>3, Zenon
<1>5. Extent'
  BY <1>2, <1>3, Zenon DEF Extent
<1>6. Here' = Here + Chunk
  BY <1>2, ChunkFits, Fields, SMTT(30) DEF Here
<1>7. ASSUME NEW w \in Word
      PROVE  Unwritten(w)' <=> Unwritten(w) /\ ~(w >= Here /\ w < Here + Chunk)
  <2>1. w \in Nat /\ Here \in Nat /\ Chunk \in Nat
    BY LineOfWord, ChunkFits, Zenon
  <2>2. w >= Here + Chunk <=> w >= Here /\ ~(w >= Here /\ w < Here + Chunk)
    BY <2>1
  <2>3. Unwritten(w)' <=> txn.write /\ w >= Here + Chunk /\ w < txn.address + txn.count
    BY <1>2, <1>6, Zenon DEF Unwritten
  <2> QED
    BY <2>2, <2>3, Zenon DEF Unwritten
<1> QED
  BY <1>2, <1>4, <1>5, <1>7, Zenon

LEMMA NextPushStep ==
    ASSUME IInv, nextPush
    PROVE  IInv'
<1> TypeOK /\ Data /\ Extent /\ DirtyIsValid /\ Disciplined /\ Requested /\ ReadsLatest
  BY Zenon DEF IInv
<1>1. /\ active /\ pending = "none" /\ pushing
      /\ UNCHANGED <<cacr, acr, replacement, active, slot, txn, bytes, clears, mem, careful, arch,
                     writes>>
  BY Zenon DEF nextPush, InNext, control, ghost
<1>2. txn.count = 0 /\ slot \in Slot
  BY <1>1, Fields, SMTT(30) DEF Extent, TypeOK
<1>3. CASE lines[slot].valid /\ lines[slot].dirty
  <2>1. pending' = "push" /\ UNCHANGED <<lines, pushing>>
    BY <1>3, Zenon DEF nextPush
  <2>2. Requested'
    BY <1>1, <1>3, <2>1, Zenon DEF Requested
  <2> QED
    BY <1>1, <1>2, <2>1, <2>2, OnlyRequest, Zenon
<1>4. CASE ~(lines[slot].valid /\ lines[slot].dirty)
  <2>1. /\ lines' = IF clears THEN [lines EXCEPT ![slot] = NoLine] ELSE lines
        /\ pushing' = FALSE /\ UNCHANGED pending
    BY <1>4, ZenonT(30) DEF nextPush
  <2>2. Requested' /\ Extent' /\ ReadsLatest'
    BY <1>1, <1>2, <2>1, Zenon DEF Requested, Extent, ReadsLatest
  <2>3. Disciplined'
    BY <1>1, <1>2, LineOfWord, Fields, SMTT(30) DEF Disciplined
  <2>4. CASE ~clears
    <3>1. TypeOK' /\ DirtyIsValid'
      BY <1>1, <2>1, <2>4, Zenon DEF TypeOK, DirtyIsValid
    <3>2. Data'
      BY <1>1, <2>1, <2>4, SameTxn, SameWords, Zenon DEF Data
    <3> QED
      BY <2>2, <2>3, <3>1, <3>2, Zenon DEF IInv
  <2>5. CASE clears
    <3>1. lines' = [lines EXCEPT ![slot] = NoLine]
      BY <2>1, <2>5, Zenon
    <3>2. lines' \in [Slot -> Entry] /\ OneCopy' /\ DirtyIsValid'
      BY <1>2, <3>1, Drop, Zenon
    <3>3. TypeOK'
      BY <1>1, <2>1, <3>2, Zenon DEF TypeOK, OneCopy
    <3>4. ASSUME careful, NEW w \in Word PROVE Sound(w)'
      <4>1. Sound(w)
        BY <1>2, <3>4, AtRest, Zenon
      <4>2. slot \in Holds(LineOf(w)) => mem[w] = arch[w]
        BY <1>4, <4>1, Zenon DEF Sound, Holds
      <4> QED
        BY <1>1, <1>2, <3>1, <4>1, <4>2, DropSound, Zenon
    <3>5. ASSUME careful, NEW w \in Word PROVE ~Unwritten(w)'
      BY <1>1, <1>2, LineOfWord, Fields, SMTT(30) DEF Unwritten, Here, Extent
    <3>6. Data'
      BY <1>1, <3>4, <3>5, Zenon DEF Data
    <3> QED
      BY <2>2, <2>3, <3>2, <3>3, <3>6, Zenon DEF IInv
  <2> QED
    BY <2>4, <2>5, Zenon
<1> QED
  BY <1>3, <1>4, Zenon

LEMMA NextBypassStep ==
    ASSUME IInv, nextBypass
    PROVE  IInv'
<1> TypeOK /\ Data /\ Extent /\ DirtyIsValid /\ Disciplined /\ Requested /\ ReadsLatest
  BY Zenon DEF IInv
<1>1. /\ txn.offset < txn.count /\ Bypass
      /\ pending' = IF txn.write THEN "bypassWrite" ELSE "bypassRead"
      /\ UNCHANGED <<lines, cacr, acr, replacement, active, slot, txn, bytes, pushing, clears, mem,
                     careful, arch, writes>>
  BY Zenon DEF nextBypass, More, control, ghost
<1>2. Bypass'
  BY <1>1, SameLines, SameTxn, Zenon DEF Bypass, Hit
<1>3. Requested'
  BY <1>1, <1>2, Zenon DEF Requested
<1> QED
  BY <1>1, <1>3, OnlyRequest, Zenon DEF TypeOK

LEMMA NextMissStep ==
    ASSUME IInv, nextMiss
    PROVE  IInv'
<1> TypeOK /\ Data /\ Extent /\ DirtyIsValid /\ Disciplined /\ Requested /\ ReadsLatest
  BY Zenon DEF IInv
<1>1. /\ txn.offset < txn.count /\ ~Bypass /\ ~Hit
      /\ slot' = victim(setIndex(Line))
      /\ pending' = IF lines[slot'].valid /\ lines[slot'].dirty THEN "evict" ELSE "fill"
      /\ UNCHANGED <<lines, cacr, acr, replacement, active, txn, bytes, pushing, clears, mem,
                     careful, arch, writes>>
  BY Zenon DEF nextMiss, More, control, ghost
<1>2. setIndex(Line) \in 0..(Sets - 1)
  BY <1>1, ChunkFits, SetIndex, Zenon
<1>3. /\ slot' \in Slot /\ slot'[1] = setIndex(Line) /\ (cacr.dhlck => slot'[2] >= Half)
  BY <1>1, <1>2, VictimFacts, Zenon
<1>4. ~Bypass' /\ ~Hit' /\ Line' = Line
  BY <1>1, SameLines, SameTxn, Zenon DEF Bypass, Hit
<1>5. lines[slot'].dirty => lines[slot'].valid
  BY <1>3, Zenon DEF DirtyIsValid
<1>6. Requested'
  BY <1>1, <1>3, <1>4, <1>5, Zenon DEF Requested
<1> QED
  BY <1>1, <1>3, <1>6, OnlyRequest, Zenon


-----------------------------------------------------------------------------
(* Transferring a chunk.                                                   *)

LEMMA LineInWords ==
    ASSUME TypeOK, NEW l \in LineNo
    PROVE  /\ LineIn(mem, l) \in [0..(LineWords - 1) -> Values]
           /\ \A w \in Word : LineOf(w) = l => LineIn(mem, l)[w % LineWords] = mem[w]
<1>1. ASSUME NEW k \in 0..(LineWords - 1) PROVE mem[WordOf(l, k)] \in Values
  BY WordOfLine, Zenon DEF TypeOK
<1>2. ASSUME NEW w \in Word, LineOf(w) = l PROVE LineIn(mem, l)[w % LineWords] = mem[w]
  <2>1. w % LineWords \in 0..(LineWords - 1) /\ w = WordOf(l, w % LineWords)
    BY <1>2, LineOfWord, Split, Zenon
  <2> QED
    BY <2>1, Zenon DEF LineIn
<1> QED
  BY <1>1, <1>2, Zenon DEF LineIn

\* While the program is careful, the line of the chunk may be used.
LEMMA ChunkAllowed ==
    ASSUME IInv, careful, txn.offset < txn.count
    PROVE  MayAccess(Line)
<1>1. Here \in Word /\ Here >= txn.address /\ Here < txn.address + txn.count
  BY ChunkFits, Fields DEF IInv
<1> QED
  BY <1>1, Zenon DEF IInv, Disciplined, Line

\* Reading the chunk from data that is what the program wrote last.
LEMMA ReadChunk ==
    ASSUME IInv, txn.offset < txn.count, ~txn.write,
           NEW b \in [0..(LineWords - 1) -> Values],
           careful => \A w \in Word : LineOf(w) = Line => b[w % LineWords] = arch[w],
           bytes' = Taken(b), txn' = [txn EXCEPT !.offset = @ + Chunk], pending' = "none",
           UNCHANGED <<lines, cacr, acr, replacement, active, slot, pushing, clears, mem, careful,
                       arch, writes>>
    PROVE  IInv'
<1> TypeOK /\ Data /\ Extent /\ DirtyIsValid /\ Disciplined /\ Requested /\ ReadsLatest
  BY Zenon DEF IInv
<1>1. /\ txn' \in [write : BOOLEAN, address : Word, count : 0..MaxCount, offset : 0..MaxCount]
      /\ txn'.write = txn.write /\ txn'.address = txn.address /\ txn'.count = txn.count
      /\ txn'.offset = txn.offset + Chunk
      /\ Extent'
      /\ \A w \in Word : Unwritten(w)' <=> Unwritten(w) /\ ~(w >= Here /\ w < Here + Chunk)
  BY Transferred, Zenon
<1>2. TypeOK'
  BY <1>1, TakenWord, Zenon DEF TypeOK
<1>3. DirtyIsValid' /\ Requested'
  BY Zenon DEF DirtyIsValid, Requested
<1>4. Disciplined'
  BY <1>1, SameLines, Zenon DEF Disciplined
<1>5. Data'
  <2> SUFFICES ASSUME careful, NEW w \in Word PROVE ~Unwritten(w)' /\ Sound(w)'
    BY Zenon DEF Data
  <2>1. ~Unwritten(w) /\ Sound(w)
    BY Zenon DEF Unwritten, Data
  <2> QED
    BY <1>1, <2>1, SameWords, Zenon
<1>6. ReadsLatest'
  <2> SUFFICES ASSUME careful, active, NEW k \in 0..(MaxCount - 1), k < txn.offset + Chunk
               PROVE  bytes'[k] = arch[txn.address + k]
    BY <1>1, Zenon DEF ReadsLatest
  <2>1. CASE k >= txn.offset
    BY <2>1, TakenWord, Zenon
  <2>2. CASE ~(k >= txn.offset)
    <3>1. k < txn.offset
      BY <2>2, Fields
    <3>2. bytes'[k] = bytes[k]
      BY <2>2, TakenWord, Zenon
    <3> QED
      BY <3>1, <3>2, Zenon DEF ReadsLatest
  <2> QED
    BY <2>1, <2>2, Zenon
<1> QED
  BY <1>1, <1>2, <1>3, <1>4, <1>5, <1>6, Zenon DEF IInv

LEMMA NextReadHitStep ==
    ASSUME IInv, nextReadHit
    PROVE  IInv'
<1>1. /\ pending = "none" /\ txn.offset < txn.count /\ Hit /\ ~txn.write
      /\ bytes' = Taken(lines[find(Line)].bytes)
      /\ txn' = [txn EXCEPT !.offset = @ + Chunk]
      /\ UNCHANGED <<lines, cacr, acr, replacement, active, pending, slot, pushing, clears, mem,
                     careful, arch, writes>>
  BY Zenon DEF nextReadHit, More, InNext, control, ghost
<1>2. find(Line) \in Holds(Line) /\ find(Line) \in Slot
  BY <1>1, ChunkFits, FindFacts, Zenon DEF IInv, Hit, Holds
<1>3. lines[find(Line)].bytes \in [0..(LineWords - 1) -> Values]
  BY <1>2, EntryFields, Zenon DEF IInv
<1>4. ASSUME careful, NEW w \in Word, LineOf(w) = Line
      PROVE  lines[find(Line)].bytes[w % LineWords] = arch[w]
  <2>1. Sound(w)
    BY <1>1, <1>4, Zenon DEF IInv, Data, Unwritten
  <2> QED
    BY <1>2, <1>4, <2>1, Zenon DEF Sound
<1> QED
  BY <1>1, <1>3, <1>4, ReadChunk, Zenon

LEMMA CompleteBypassReadStep ==
    ASSUME IInv, completeBypassRead
    PROVE  IInv'
<1>1. /\ pending = "bypassRead"
      /\ bytes' = Taken(LineIn(mem, Line))
      /\ txn' = [txn EXCEPT !.offset = @ + Chunk]
      /\ pending' = "none"
      /\ UNCHANGED <<lines, cacr, acr, replacement, active, slot, pushing, clears, mem, careful,
                     arch, writes>>
  BY Zenon DEF completeBypassRead, control, ghost
<1>2. txn.offset < txn.count /\ ~txn.write /\ Bypass
  BY <1>1, Zenon DEF IInv, Requested
<1>3. Line \in LineNo
  BY <1>2, ChunkFits, Zenon DEF IInv
<1>4. ASSUME careful, NEW w \in Word, LineOf(w) = Line
      PROVE  LineIn(mem, Line)[w % LineWords] = arch[w]
  <2>1. MayAccess(Line) /\ mode(Line) >= 2 /\ mode(Line) \in 0..3
    BY <1>2, <1>4, ChunkAllowed, ModeType, Zenon DEF Bypass, IInv
  <2>2. Holds(Line) = {}
    BY <2>1 DEF MayAccess
  <2>3. Sound(w)
    BY <1>2, <1>4, Zenon DEF IInv, Data, Unwritten
  <2>4. mem[w] = arch[w]
    BY <1>4, <2>2, <2>3, Zenon DEF Sound
  <2> QED
    BY <1>3, <1>4, <2>4, LineInWords, Zenon DEF IInv
<1>5. LineIn(mem, Line) \in [0..(LineWords - 1) -> Values]
  BY <1>3, LineInWords, Zenon DEF IInv
<1> QED
  BY <1>1, <1>2, <1>4, <1>5, ReadChunk, Zenon


\* Storing the chunk in the cached line, which stays where it is.
LEMMA StoreInLine ==
    ASSUME IInv, txn.offset < txn.count, Hit, NEW e \in Entry, e.valid = lines[find(Line)].valid,
           e.line = lines[find(Line)].line, e.bytes = Stored(lines[find(Line)].bytes),
           lines' = [lines EXCEPT ![find(Line)] = e]
    PROVE  /\ lines' \in [Slot -> Entry] /\ OneCopy' /\ DirtyIsValid'
           /\ find(Line) \in Holds(Line) /\ find(Line) \in Slot
           /\ lines'[find(Line)] = e /\ \A s \in Slot : s # find(Line) => lines'[s] = lines[s]
           /\ \A l : Holds(l)' = Holds(l)
           /\ \A w \in Word : \A s \in Holds(LineOf(w)) :
                 /\ s = find(Line) <=> LineOf(w) = Line
                 /\ lines'[s].bytes[w % LineWords] =
                       IF w >= Here /\ w < Here + Chunk THEN bytes[w - txn.address]
                       ELSE lines[s].bytes[w % LineWords]
<1> TypeOK /\ Data /\ Extent /\ DirtyIsValid /\ Disciplined /\ Requested /\ ReadsLatest
  BY Zenon DEF IInv
<1> DEFINE f == find(Line)
<1>1. Line \in LineNo /\ f \in Holds(Line) /\ \A s \in Holds(Line) : s = f
  BY ChunkFits, FindFacts, Zenon DEF Hit
<1>2. f \in Slot /\ lines[f].valid /\ lines[f].line = Line
  BY <1>1, Zenon DEF Holds
<1> HIDE DEF f
<1>3. /\ lines' \in [Slot -> Entry] /\ OneCopy'
      /\ lines'[f] = e /\ \A s \in Slot : s # f => lines'[s] = lines[s]
      /\ \A l : Holds(l)' = Holds(l)
  BY <1>2, Rewrite, Zenon DEF f
<1>4. DirtyIsValid'
  BY <1>2, <1>3, Zenon DEF DirtyIsValid, f
<1>5. ASSUME NEW w \in Word, NEW s \in Holds(LineOf(w))
      PROVE  /\ s = f <=> LineOf(w) = Line
             /\ lines'[s].bytes[w % LineWords] =
                   IF w >= Here /\ w < Here + Chunk THEN bytes[w - txn.address]
                   ELSE lines[s].bytes[w % LineWords]
  <2>1. s \in Slot /\ lines[s].line = LineOf(w)
    BY <1>5, Zenon DEF Holds
  <2>2. s = f <=> LineOf(w) = Line
    BY <1>1, <1>2, <1>5, <2>1, Zenon
  <2>3. CASE LineOf(w) = Line
    <3>1. lines[f].bytes \in [0..(LineWords - 1) -> Values]
      BY <1>2, EntryFields, Zenon
    <3>2. lines'[s].bytes = Stored(lines[f].bytes)
      BY <1>3, <2>2, <2>3, Zenon DEF f
    <3> QED
      BY <2>2, <2>3, <3>1, <3>2, StoredWord, Zenon
  <2>4. CASE LineOf(w) # Line
    BY <1>3, <2>1, <2>2, <2>4, ChunkWords, Zenon
  <2> QED
    BY <2>2, <2>3, <2>4, Zenon
<1> QED
  BY <1>1, <1>2, <1>3, <1>4, <1>5, Zenon DEF f

LEMMA WriteThroughHit ==
    ASSUME IInv, nextWriteHit, mode(Line) = 0
    PROVE  IInv'
<1> TypeOK /\ Data /\ Extent /\ DirtyIsValid /\ Disciplined /\ Requested /\ ReadsLatest
  BY Zenon DEF IInv
<1> DEFINE f == find(Line)
           e == [lines[f] EXCEPT !.bytes = Stored(@)]
<1>1. /\ txn.offset < txn.count /\ Hit /\ txn.write
      /\ lines' = [lines EXCEPT ![f] = e]
      /\ pending' = "writeThrough" /\ slot' = f
      /\ UNCHANGED <<txn, cacr, acr, replacement, active, bytes, pushing, clears, mem, careful, arch,
                     writes>>
  BY Zenon DEF nextWriteHit, More, control, ghost
<1>2. f \in Slot
  BY <1>1, ChunkFits, FindFacts, Zenon DEF Hit, Holds
<1>3. /\ e \in Entry /\ e.valid = lines[f].valid /\ e.line = lines[f].line
      /\ e.dirty = lines[f].dirty /\ e.bytes = Stored(lines[f].bytes)
  <2>1. lines[f] \in Entry /\ lines[f].bytes \in [0..(LineWords - 1) -> Values]
    BY <1>2, EntryFields, Zenon
  <2>2. Stored(lines[f].bytes) \in [0..(LineWords - 1) -> Values]
    BY <1>1, <2>1, StoredType, Zenon
  <2> QED
    BY <2>1, <2>2, Zenon DEF Entry
<1> HIDE DEF e
<1>4. /\ lines' \in [Slot -> Entry] /\ OneCopy' /\ DirtyIsValid' /\ f \in Holds(Line)
      /\ lines'[f] = e /\ \A s \in Slot : s # f => lines'[s] = lines[s]
      /\ \A l : Holds(l)' = Holds(l)
      /\ \A w \in Word : \A s \in Holds(LineOf(w)) :
            /\ s = f <=> LineOf(w) = Line
            /\ lines'[s].bytes[w % LineWords] =
                  IF w >= Here /\ w < Here + Chunk THEN bytes[w - txn.address]
                  ELSE lines[s].bytes[w % LineWords]
  BY <1>1, <1>3, StoreInLine, Zenon
<1> HIDE DEF f
<1>5. \A s \in Slot : lines'[s].dirty = lines[s].dirty
  BY <1>3, <1>4, Zenon
<1>6. \A l : mode(l)' = mode(l)
  BY <1>1, Zenon DEF mode
<1>7. TypeOK'
  BY <1>1, <1>2, <1>4, Zenon DEF TypeOK, OneCopy
<1>8. Extent' /\ ReadsLatest'
  BY <1>1, Zenon DEF Extent, ReadsLatest
<1>9. Disciplined'
  <2>1. \A l : MayAccess(l)' <=> MayAccess(l)
    BY <1>4, <1>5, <1>6, SMTT(30) DEF MayAccess, Holds
  <2> QED
    BY <1>1, <2>1, Zenon DEF Disciplined
<1>10. Data'
  <2> SUFFICES ASSUME careful, NEW w \in Word, ~Unwritten(w) PROVE Sound(w)'
    BY <1>1, SameTxn, Zenon DEF Data
  <2>1. Sound(w)
    BY Zenon DEF Data
  <2>2. ~(w >= Here /\ w < Here + Chunk)
    BY <1>1, ChunkWords, Zenon
  <2>3. \A s \in Holds(LineOf(w)) : /\ lines'[s].bytes[w % LineWords] = lines[s].bytes[w % LineWords]
                                    /\ lines'[s].dirty = lines[s].dirty
    BY <1>4, <1>5, <2>2, Zenon DEF Holds
  <2> QED
    BY <1>1, <1>4, <2>1, <2>3, ZenonT(30) DEF Sound
<1>11. Requested'
  <2>1. txn'.write /\ txn'.offset < txn'.count /\ mode(Line)' = 0 /\ slot' \in Holds(Line)'
    BY <1>1, <1>4, <1>6, SameTxn, Zenon
  <2>2. ASSUME NEW k \in 0..(LineWords - 1), k >= In, k < In + Chunk
        PROVE  lines'[f].bytes[k] = bytes[txn.offset + k - In]
    <3>1. lines[f].bytes \in [0..(LineWords - 1) -> Values]
      BY <1>2, EntryFields, Zenon
    <3> QED
      BY <1>3, <1>4, <2>2, <3>1, Zenon DEF Stored
  <2> QED
    BY <1>1, <2>1, <2>2, SameTxn, Zenon DEF Requested
<1> QED
  BY <1>4, <1>7, <1>8, <1>9, <1>10, <1>11, Zenon DEF IInv


LEMMA CopybackHit ==
    ASSUME IInv, nextWriteHit, mode(Line) # 0
    PROVE  IInv'
<1> TypeOK /\ Data /\ Extent /\ DirtyIsValid /\ Disciplined /\ Requested /\ ReadsLatest
  BY Zenon DEF IInv
<1> DEFINE f == find(Line)
           e == [lines[f] EXCEPT !.bytes = Stored(@), !.dirty = TRUE]
<1>1. /\ pending = "none" /\ txn.offset < txn.count /\ ~Bypass /\ Hit /\ txn.write
      /\ lines' = [lines EXCEPT ![f].bytes = Stored(@), ![f].dirty = TRUE]
      /\ txn' = [txn EXCEPT !.offset = @ + Chunk]
      /\ UNCHANGED <<pending, slot, cacr, acr, replacement, active, bytes, pushing, clears, mem,
                     careful, arch, writes>>
  BY Zenon DEF nextWriteHit, More, InNext, control, ghost
<1>2. f \in Slot
  BY <1>1, ChunkFits, FindFacts, Zenon DEF Hit, Holds
<1>3. /\ e \in Entry /\ e.valid = lines[f].valid /\ e.line = lines[f].line
      /\ e.dirty = TRUE /\ e.bytes = Stored(lines[f].bytes)
  <2>1. lines[f] \in Entry /\ lines[f].bytes \in [0..(LineWords - 1) -> Values]
    BY <1>2, EntryFields, Zenon
  <2>2. Stored(lines[f].bytes) \in [0..(LineWords - 1) -> Values]
    BY <1>1, <2>1, StoredType, Zenon
  <2> QED
    BY <2>1, <2>2, Zenon DEF Entry
<1>4. lines' = [lines EXCEPT ![f] = e]
  BY <1>1, <1>2, Zenon DEF TypeOK
<1> HIDE DEF e
<1>5. /\ lines' \in [Slot -> Entry] /\ OneCopy' /\ DirtyIsValid' /\ f \in Holds(Line)
      /\ lines'[f] = e /\ \A s \in Slot : s # f => lines'[s] = lines[s]
      /\ \A l : Holds(l)' = Holds(l)
      /\ \A w \in Word : \A s \in Holds(LineOf(w)) :
            /\ s = f <=> LineOf(w) = Line
            /\ lines'[s].bytes[w % LineWords] =
                  IF w >= Here /\ w < Here + Chunk THEN bytes[w - txn.address]
                  ELSE lines[s].bytes[w % LineWords]
  BY <1>1, <1>3, <1>4, StoreInLine, Zenon
<1> HIDE DEF f
<1>6. /\ txn' \in [write : BOOLEAN, address : Word, count : 0..MaxCount, offset : 0..MaxCount]
      /\ txn'.write = txn.write /\ txn'.address = txn.address /\ txn'.count = txn.count
      /\ Extent'
      /\ \A w \in Word : Unwritten(w)' <=> Unwritten(w) /\ ~(w >= Here /\ w < Here + Chunk)
  BY <1>1, Transferred, Zenon
<1>7. (\A l : mode(l)' = mode(l)) /\ mode(Line) = 1
  BY <1>1, ModeType, SMTT(30) DEF mode, Bypass
<1>8. TypeOK'
  BY <1>1, <1>5, <1>6, Zenon DEF TypeOK, OneCopy
<1>9. Requested' /\ ReadsLatest'
  BY <1>1, <1>6, Zenon DEF Requested, ReadsLatest
<1>10. Disciplined'
  <2>1. ASSUME NEW l, MayAccess(l) PROVE MayAccess(l)'
    <3> SUFFICES ASSUME NEW s \in Holds(l)
                 PROVE  mode(l) < 2 /\ (lines'[s].dirty => mode(l) = 1)
      BY <1>5, <1>7, Zenon DEF MayAccess
    <3>1. CASE s = f
      BY <1>5, <1>7, <3>1, SMTT(30) DEF Holds
    <3>2. CASE s # f
      BY <1>5, <2>1, <3>2, Zenon DEF Holds, MayAccess
    <3> QED
      BY <3>1, <3>2, Zenon
  <2> QED
    BY <1>1, <1>6, <2>1, Zenon DEF Disciplined
<1>11. Data'
  <2> SUFFICES ASSUME careful, NEW w \in Word, ~Unwritten(w)' PROVE Sound(w)'
    BY <1>1, <1>6, Zenon DEF Data
  <2>1. CASE w >= Here /\ w < Here + Chunk
    <3>1. LineOf(w) = Line
      BY <1>1, <2>1, ChunkWords, Zenon
    <3>2. Unwritten(w)
      BY <1>1, <2>1, <3>1, ChunkWords, Zenon
    <3>3. bytes[w - txn.address] = arch[w]
      BY <3>2, Zenon DEF Data
    <3>4. \A s \in Holds(LineOf(w)) : lines'[s].bytes[w % LineWords] = arch[w] /\ lines'[s].dirty
      BY <1>3, <1>5, <2>1, <3>1, <3>3, Zenon
    <3>5. Holds(LineOf(w)) # {}
      BY <1>5, <3>1, Zenon
    <3> QED
      BY <1>1, <1>5, <3>4, <3>5, Zenon DEF Sound
  <2>2. CASE ~(w >= Here /\ w < Here + Chunk)
    <3>1. Sound(w)
      BY <1>6, <2>2, Zenon DEF Data
    <3>2. \A s \in Holds(LineOf(w)) : /\ lines'[s].bytes[w % LineWords] = lines[s].bytes[w % LineWords]
                                      /\ lines[s].dirty => lines'[s].dirty
      BY <1>3, <1>5, <2>2, Zenon DEF Holds
    <3> QED
      BY <1>1, <1>5, <3>1, <3>2, ZenonT(30) DEF Sound
  <2> QED
    BY <2>1, <2>2, Zenon
<1> QED
  BY <1>5, <1>6, <1>8, <1>9, <1>10, <1>11, Zenon DEF IInv

LEMMA NextDoneStep ==
    ASSUME IInv, nextDone
    PROVE  IInv'
<1> TypeOK /\ Data /\ Extent /\ DirtyIsValid /\ Disciplined /\ Requested /\ ReadsLatest
  BY Zenon DEF IInv
<1>1. /\ pending = "none" /\ txn.offset = txn.count
      /\ active' = FALSE /\ slot' = <<0, 0>> /\ txn' = NoTxn /\ bytes' = NoBytes /\ clears' = FALSE
      /\ UNCHANGED <<lines, cacr, acr, replacement, pending, pushing, mem, careful, arch, writes>>
  BY ZenonT(60) DEF nextDone, InNext, control, ghost
<1>2. slot' \in Slot /\ bytes' \in [0..(MaxCount - 1) -> Values]
  BY <1>1, GeometryAssumption, ControlAssumption, SMTT(30) DEF Slot, NoBytes, Zero, Values, MaxCount
<1>3. TypeOK'
  BY <1>1, <1>2, NoAccess, ZenonT(30) DEF TypeOK
<1>4. DirtyIsValid' /\ Requested'
  BY <1>1, Zenon DEF DirtyIsValid, Requested
<1>5. Data'
  <2> SUFFICES ASSUME careful, NEW w \in Word PROVE Sound(w)'
    BY <1>1, NoAccess, Zenon DEF Data
  <2>1. ~Unwritten(w)
    BY <1>1, LineOfWord, Fields, SMTT(30) DEF Unwritten, Here
  <2> QED
    BY <1>1, <2>1, SameWords, ZenonT(30) DEF Data
<1> QED
  BY <1>1, <1>3, <1>4, <1>5, NoAccess, Zenon DEF IInv

LEMMA CompleteFillStep ==
    ASSUME IInv, completeFill
    PROVE  IInv'
<1> TypeOK /\ Data /\ Extent /\ DirtyIsValid /\ Disciplined /\ Requested /\ ReadsLatest
  BY Zenon DEF IInv
<1> DEFINE e == [valid |-> TRUE, dirty |-> FALSE, line |-> Line, bytes |-> LineIn(mem, Line)]
<1>1. /\ pending = "fill" /\ pending' = "none"
      /\ lines' = [lines EXCEPT ![slot] = e]
      /\ replacement' = (replacement + 1) % Ways
      /\ UNCHANGED <<cacr, acr, active, slot, txn, bytes, pushing, clears, mem, careful, arch, writes>>
  BY Zenon DEF completeFill, control, ghost
<1>2. /\ txn.offset < txn.count /\ ~Bypass /\ Holds(Line) = {} /\ slot \in Slot
      /\ slot[1] = setIndex(Line) /\ ~lines[slot].dirty
  BY <1>1, ZenonT(30) DEF Requested, Hit, TypeOK
<1>3. /\ Line \in LineNo /\ LineIn(mem, Line) \in [0..(LineWords - 1) -> Values]
      /\ \A w \in Word : LineOf(w) = Line => LineIn(mem, Line)[w % LineWords] = mem[w]
  BY <1>2, ChunkFits, LineInWords, Zenon
<1>4. /\ e \in Entry /\ e.valid = TRUE /\ e.dirty = FALSE /\ e.line = Line
      /\ e.bytes = LineIn(mem, Line)
  BY <1>3, Zenon DEF Entry
<1> HIDE DEF e
<1>5. lines \in [Slot -> Entry] /\ OneCopy
  BY Zenon DEF TypeOK, OneCopy
<1>6. lines'[slot] = e /\ (\A s \in Slot : s # slot => lines'[s] = lines[s]) /\ lines' \in [Slot -> Entry]
  BY <1>1, <1>2, <1>4, <1>5, Zenon
<1>7. \A s \in Slot : lines[s].valid => lines[s].line # Line
  BY <1>2, <1>5, Zenon DEF Holds, OneCopy
<1>8. OneCopy'
  BY <1>2, <1>4, <1>5, <1>6, <1>7, SMTT(30) DEF OneCopy
<1>9. Holds(Line)' = {slot}
  <2>1. slot \in {s \in Slot : s[1] = setIndex(Line) /\ lines'[s].valid /\ lines'[s].line = Line}
    BY <1>2, <1>4, <1>6, Zenon
  <2>2. \A s \in Slot : lines'[s].valid /\ lines'[s].line = Line => s = slot
    BY <1>6, <1>7, Zenon
  <2>3. Line' = Line
    BY <1>1, SameTxn, Zenon
  <2> QED
    BY <2>1, <2>2, <2>3, Zenon DEF Holds
<1>10. ASSUME NEW l, l # Line PROVE Holds(l)' = Holds(l) \ {slot}
  BY <1>4, <1>6, <1>10, Zenon DEF Holds
<1>11. \A l : mode(l)' = mode(l)
  BY <1>1, Zenon DEF mode
<1>12. TypeOK'
  <2>1. replacement' \in 0..(Ways - 1)
    BY <1>1, GeometryAssumption, SMTT(30) DEF TypeOK
  <2> QED
    BY <1>1, <1>6, <1>8, <2>1, ZenonT(60) DEF TypeOK, OneCopy
<1>13. DirtyIsValid' /\ Extent' /\ ReadsLatest' /\ Requested'
  BY <1>1, <1>4, <1>6, Zenon DEF DirtyIsValid, Extent, ReadsLatest, Requested
<1>14. Disciplined'
  <2>1. ASSUME NEW l, MayAccess(l) PROVE MayAccess(l)'
    <3>1. CASE l = Line
      <4>1. mode(Line) < 2
        BY <1>2, ModeType, SMTT(30) DEF Bypass
      <4>2. Line' = Line /\ lines'[slot].dirty = FALSE
        BY <1>1, <1>4, <1>6, SameTxn, Zenon
      <4>3. Holds(l)' = {slot}
        BY <1>9, <3>1, <4>2, Zenon
      <4> QED
        BY <1>11, <3>1, <4>1, <4>2, <4>3, Zenon DEF MayAccess
    <3>2. CASE l # Line
      BY <1>6, <1>10, <1>11, <2>1, <3>2, ZenonT(60) DEF MayAccess, Holds
    <3> QED
      BY <3>1, <3>2, Zenon
  <2> QED
    BY <1>1, <2>1, Zenon DEF Disciplined
<1>15. Data'
  <2> SUFFICES ASSUME careful, NEW w \in Word, ~Unwritten(w) PROVE Sound(w)'
    BY <1>1, SameTxn, Zenon DEF Data
  <2>1. Sound(w)
    BY Zenon DEF Data
  <2>2. CASE LineOf(w) = Line
    <3>1. mem[w] = arch[w] /\ Holds(LineOf(w))' = {slot}
      BY <1>1, <1>2, <1>9, <2>1, <2>2, SameTxn, Zenon DEF Sound
    <3>2. lines'[slot].bytes[w % LineWords] = arch[w]
      BY <1>3, <1>4, <1>6, <2>2, <3>1, ZenonT(30)
    <3> QED
      BY <1>1, <3>1, <3>2, Zenon DEF Sound
  <2>3. CASE LineOf(w) # Line /\ slot \in Holds(LineOf(w))
    <3>1. mem[w] = arch[w]
      BY <1>2, <2>1, <2>3, Zenon DEF Sound
    <3>2. \A s \in Holds(LineOf(w)) : s = slot
      BY <2>3, FindFacts, LineOfWord, Zenon
    <3>3. Holds(LineOf(w))' = {}
      BY <1>10, <2>3, <3>2, Zenon
    <3> QED
      BY <1>1, <3>1, <3>3, Zenon DEF Sound
  <2>4. CASE LineOf(w) # Line /\ slot \notin Holds(LineOf(w))
    <3>1. Holds(LineOf(w))' = Holds(LineOf(w)) \ {slot}
      BY <1>10, <2>4, Zenon
    <3>2. Holds(LineOf(w))' = Holds(LineOf(w))
      BY <2>4, <3>1, Zenon
    <3>3. \A s \in Holds(LineOf(w)) : lines'[s] = lines[s]
      BY <1>6, <2>4, Zenon DEF Holds
    <3> QED
      BY <1>1, <2>1, <3>2, <3>3, Zenon DEF Sound
  <2> QED
    BY <2>2, <2>3, <2>4, Zenon
<1> QED
  BY <1>12, <1>13, <1>14, <1>15, Zenon DEF IInv


\* The line of the pending slot reaches memory.
LEMMA SlotOut ==
    ASSUME IInv, lines[slot].valid, mem' = LineOut(mem, lines[slot].line, lines[slot].bytes)
    PROVE  /\ mem' \in [Word -> Values] /\ slot \in Slot
           /\ \A w \in Word : Sound(w) => IF slot \in Holds(LineOf(w)) THEN mem'[w] = arch[w]
                                          ELSE mem'[w] = mem[w]
<1> TypeOK /\ Data /\ Extent /\ DirtyIsValid /\ Disciplined /\ Requested /\ ReadsLatest
  BY Zenon DEF IInv
<1>1. slot \in Slot /\ lines[slot].bytes \in [0..(LineWords - 1) -> Values]
  BY EntryFields, Zenon DEF TypeOK
<1>2. /\ mem' \in [Word -> Values]
      /\ \A w \in Word : mem'[w] = IF LineOf(w) = lines[slot].line THEN lines[slot].bytes[w % LineWords]
                                   ELSE mem[w]
  BY <1>1, WrittenBack, Zenon
<1>3. \A l : slot \in Holds(l) <=> l = lines[slot].line
  BY <1>1, Zenon DEF TypeOK, Holds
<1> QED
  BY <1>1, <1>2, <1>3, Zenon DEF Sound

LEMMA CompletePushStep ==
    ASSUME IInv, completePush
    PROVE  IInv'
<1> TypeOK /\ Data /\ Extent /\ DirtyIsValid /\ Disciplined /\ Requested /\ ReadsLatest
  BY Zenon DEF IInv
<1>1. /\ pending = "push" /\ pending' = "none" /\ pushing' = FALSE
      /\ mem' = LineOut(mem, lines[slot].line, lines[slot].bytes)
      /\ lines' = [lines EXCEPT ![slot] = IF clears THEN NoLine ELSE [@ EXCEPT !.dirty = FALSE]]
      /\ UNCHANGED <<cacr, acr, replacement, active, slot, txn, bytes, clears, careful, arch, writes>>
  BY Zenon DEF completePush, control, ghost
<1>2. pushing /\ lines[slot].valid /\ txn.count = 0
  BY <1>1, Fields DEF Requested, Extent
<1>3. /\ mem' \in [Word -> Values] /\ slot \in Slot
      /\ \A w \in Word : Sound(w) => IF slot \in Holds(LineOf(w)) THEN mem'[w] = arch[w]
                                     ELSE mem'[w] = mem[w]
  BY <1>1, <1>2, SlotOut, Zenon
<1>4. Requested' /\ Extent' /\ ReadsLatest'
  BY <1>1, <1>2, Zenon DEF Requested, Extent, ReadsLatest
<1>5. Disciplined'
  BY <1>1, <1>2, LineOfWord, Fields, SMTT(30) DEF Disciplined
<1>6. \A w \in Word : ~Unwritten(w)'
  BY <1>1, <1>2, LineOfWord, Fields, SMTT(30) DEF Unwritten, Here, Extent
<1>7. CASE clears
  <2>1. lines' = [lines EXCEPT ![slot] = NoLine]
    BY <1>1, <1>7, Zenon
  <2>2. lines' \in [Slot -> Entry] /\ OneCopy' /\ DirtyIsValid'
    BY <1>3, <2>1, Drop, Zenon
  <2>3. TypeOK'
    BY <1>1, <1>3, <2>2, Zenon DEF TypeOK, OneCopy
  <2>4. ASSUME careful, NEW w \in Word PROVE Sound(w)'
    BY <1>1, <1>2, <1>3, <2>1, <2>4, AtRest, DropSound, Zenon
  <2>5. Data'
    BY <1>1, <1>6, <2>4, Zenon DEF Data
  <2> QED
    BY <1>4, <1>5, <2>2, <2>3, <2>5, Zenon DEF IInv
<1>8. CASE ~clears
  <2> DEFINE e == [lines[slot] EXCEPT !.dirty = FALSE]
  <2>1. lines' = [lines EXCEPT ![slot] = e]
    BY <1>1, <1>8, Zenon
  <2>2. /\ e \in Entry /\ e.valid = lines[slot].valid /\ e.line = lines[slot].line
        /\ e.dirty = FALSE /\ e.bytes = lines[slot].bytes
    BY <1>3, EntryFields, Zenon DEF Entry
  <2> HIDE DEF e
  <2>3. /\ lines' \in [Slot -> Entry] /\ OneCopy'
        /\ lines'[slot] = e /\ \A s \in Slot : s # slot => lines'[s] = lines[s]
        /\ \A l : Holds(l)' = Holds(l)
    BY <1>3, <2>1, <2>2, Rewrite, Zenon
  <2>4. TypeOK' /\ DirtyIsValid'
    BY <1>1, <1>3, <2>2, <2>3, Zenon DEF TypeOK, OneCopy, DirtyIsValid
  <2>5. ASSUME careful, NEW w \in Word PROVE Sound(w)'
    <3>1. Sound(w)
      BY <1>2, <2>5, AtRest, Zenon
    <3>2. \A s \in Holds(LineOf(w)) : /\ lines'[s].bytes = lines[s].bytes
                                      /\ s # slot => lines'[s].dirty = lines[s].dirty
      BY <2>2, <2>3, Zenon DEF Holds
    <3>3. CASE slot \in Holds(LineOf(w))
      BY <1>1, <1>3, <2>3, <3>1, <3>2, <3>3, Zenon DEF Sound
    <3>4. CASE slot \notin Holds(LineOf(w))
      BY <1>1, <1>3, <2>3, <3>1, <3>2, <3>4, ZenonT(60) DEF Sound
    <3> QED
      BY <3>3, <3>4, Zenon
  <2>6. Data'
    BY <1>1, <1>6, <2>5, Zenon DEF Data
  <2> QED
    BY <1>4, <1>5, <2>4, <2>6, Zenon DEF IInv
<1> QED
  BY <1>7, <1>8, Zenon

LEMMA CompleteEvictStep ==
    ASSUME IInv, completeEvict
    PROVE  IInv'
<1> TypeOK /\ Data /\ Extent /\ DirtyIsValid /\ Disciplined /\ Requested /\ ReadsLatest
  BY Zenon DEF IInv
<1>1. /\ pending = "evict" /\ pending' = "none"
      /\ mem' = LineOut(mem, lines[slot].line, lines[slot].bytes)
      /\ lines' = [lines EXCEPT ![slot] = NoLine]
      /\ UNCHANGED <<cacr, acr, replacement, active, slot, txn, bytes, pushing, clears, careful, arch,
                     writes>>
  BY Zenon DEF completeEvict, control, ghost
<1>2. lines[slot].valid
  BY <1>1, Zenon DEF Requested
<1>3. /\ mem' \in [Word -> Values] /\ slot \in Slot
      /\ \A w \in Word : Sound(w) => IF slot \in Holds(LineOf(w)) THEN mem'[w] = arch[w]
                                     ELSE mem'[w] = mem[w]
  BY <1>1, <1>2, SlotOut, Zenon
<1>4. Requested' /\ Extent' /\ ReadsLatest'
  BY <1>1, Zenon DEF Requested, Extent, ReadsLatest
<1>5. Disciplined'
  <2>1. \A l : MayAccess(l) => MayAccess(l)'
    BY <1>1, <1>3, DropDisciplined, Zenon
  <2> QED
    BY <1>1, <2>1, Zenon DEF Disciplined
<1>6. lines' \in [Slot -> Entry] /\ OneCopy' /\ DirtyIsValid'
  BY <1>1, <1>3, Drop, ZenonT(30)
<1>7. TypeOK'
  BY <1>1, <1>3, <1>6, Zenon DEF TypeOK, OneCopy
<1>8. Data'
  <2> SUFFICES ASSUME careful, NEW w \in Word, ~Unwritten(w) PROVE Sound(w)'
    BY <1>1, SameTxn, Zenon DEF Data
  <2> QED
    BY <1>1, <1>3, DropSound, Zenon DEF Data
<1> QED
  BY <1>4, <1>5, <1>6, <1>7, <1>8, Zenon DEF IInv

\* The chunk reaches memory.
LEMMA ChunkOut ==
    ASSUME IInv, txn.offset < txn.count, mem' = LineOut(mem, Line, Stored(LineIn(mem, Line)))
    PROVE  /\ mem' \in [Word -> Values]
           /\ \A w \in Word : mem'[w] = IF w >= Here /\ w < Here + Chunk THEN bytes[w - txn.address]
                                        ELSE mem[w]
<1> TypeOK /\ Data /\ Extent /\ DirtyIsValid /\ Disciplined /\ Requested /\ ReadsLatest
  BY Zenon DEF IInv
<1> DEFINE b == LineIn(mem, Line)
<1>1. /\ b \in [0..(LineWords - 1) -> Values]
      /\ \A w \in Word : LineOf(w) = Line => b[w % LineWords] = mem[w]
  BY ChunkFits, LineInWords, Zenon
<1>2. mem' = LineOut(mem, Line, Stored(b))
  OBVIOUS
<1> HIDE DEF b
<1>3. Stored(b) \in [0..(LineWords - 1) -> Values]
  BY <1>1, StoredType, Zenon
<1>4. /\ mem' \in [Word -> Values]
      /\ \A w \in Word : mem'[w] = IF LineOf(w) = Line THEN Stored(b)[w % LineWords] ELSE mem[w]
  BY <1>2, <1>3, WrittenBack, Zenon
<1>5. ASSUME NEW w \in Word
      PROVE  mem'[w] = IF w >= Here /\ w < Here + Chunk THEN bytes[w - txn.address] ELSE mem[w]
  <2>1. CASE LineOf(w) = Line
    BY <1>1, <1>4, <2>1, StoredWord, ZenonT(30)
  <2>2. CASE LineOf(w) # Line
    BY <1>4, <2>2, ChunkWords, Zenon
  <2> QED
    BY <2>1, <2>2, Zenon
<1> QED
  BY <1>4, <1>5, Zenon


LEMMA CompleteWriteStep ==
    ASSUME IInv, completeWrite
    PROVE  IInv'
<1> TypeOK /\ Data /\ Extent /\ DirtyIsValid /\ Disciplined /\ Requested /\ ReadsLatest
  BY Zenon DEF IInv
<1> DEFINE e == [lines[slot] EXCEPT !.dirty = FALSE]
<1>1. /\ pending \in {"bypassWrite", "writeThrough"} /\ pending' = "none"
      /\ mem' = LineOut(mem, Line, Stored(LineIn(mem, Line)))
      /\ lines' = IF pending = "writeThrough" THEN [lines EXCEPT ![slot] = e] ELSE lines
      /\ txn' = [txn EXCEPT !.offset = @ + Chunk]
      /\ UNCHANGED <<cacr, acr, replacement, active, slot, bytes, pushing, clears, careful, arch,
                     writes>>
  BY Zenon DEF completeWrite, control, ghost
<1>2. txn.offset < txn.count /\ txn.write /\ slot \in Slot
  BY <1>1, Zenon DEF Requested, TypeOK
<1>3. /\ mem' \in [Word -> Values]
      /\ \A w \in Word : mem'[w] = IF w >= Here /\ w < Here + Chunk THEN bytes[w - txn.address]
                                   ELSE mem[w]
  BY <1>1, <1>2, ChunkOut, Zenon
<1>4. /\ txn' \in [write : BOOLEAN, address : Word, count : 0..MaxCount, offset : 0..MaxCount]
      /\ txn'.write = txn.write /\ txn'.address = txn.address /\ txn'.count = txn.count
      /\ Extent'
      /\ \A w \in Word : Unwritten(w)' <=> Unwritten(w) /\ ~(w >= Here /\ w < Here + Chunk)
  BY <1>1, <1>2, Transferred, Zenon
<1>5. /\ e \in Entry /\ e.valid = lines[slot].valid /\ e.line = lines[slot].line
      /\ e.dirty = FALSE /\ e.bytes = lines[slot].bytes
  BY <1>2, EntryFields, Zenon DEF Entry
<1> HIDE DEF e
<1>6. /\ lines' \in [Slot -> Entry] /\ OneCopy' /\ \A l : Holds(l)' = Holds(l)
      /\ \A s \in Slot : /\ lines'[s].bytes = lines[s].bytes /\ lines'[s].valid = lines[s].valid
                         /\ lines'[s].dirty => lines[s].dirty
                         /\ s # slot \/ pending = "bypassWrite" => lines'[s].dirty = lines[s].dirty
  <2>1. CASE pending = "writeThrough"
    <3>1. /\ lines' \in [Slot -> Entry] /\ OneCopy'
          /\ lines'[slot] = e /\ \A s \in Slot : s # slot => lines'[s] = lines[s]
          /\ \A l : Holds(l)' = Holds(l)
      BY <1>1, <1>2, <1>5, <2>1, Rewrite, Zenon
    <3> QED
      BY <1>5, <2>1, <3>1, Zenon
  <2>2. CASE pending = "bypassWrite"
    BY <1>1, <2>2, Zenon DEF TypeOK, OneCopy, Holds
  <2> QED
    BY <1>1, <2>1, <2>2, Zenon
<1>7. TypeOK'
  BY <1>1, <1>3, <1>4, <1>6, Zenon DEF TypeOK, OneCopy
<1>8. Requested' /\ ReadsLatest' /\ DirtyIsValid'
  BY <1>1, <1>2, <1>4, <1>6, Zenon DEF Requested, ReadsLatest, DirtyIsValid
<1>9. Disciplined'
  <2>1. \A l : mode(l)' = mode(l)
    BY <1>1, Zenon DEF mode
  <2>2. \A l : MayAccess(l) => MayAccess(l)'
    BY <1>6, <2>1, SMTT(30) DEF MayAccess, Holds
  <2> QED
    BY <1>1, <1>4, <2>2, Zenon DEF Disciplined
<1>10. Data'
  <2> SUFFICES ASSUME careful, NEW w \in Word, ~Unwritten(w)' PROVE Sound(w)'
    BY <1>1, <1>4, Zenon DEF Data
  <2>1. MayAccess(Line) /\ Line \in LineNo
    BY <1>2, ChunkAllowed, ChunkFits, Zenon
  <2>2. CASE w >= Here /\ w < Here + Chunk
    <3>1. LineOf(w) = Line
      BY <1>2, <2>2, ChunkWords, Zenon
    <3>2. Unwritten(w)
      BY <1>2, <2>2, <3>1, ChunkWords, Zenon
    <3>3. bytes[w - txn.address] = arch[w] /\ mem'[w] = arch[w]
      BY <1>3, <2>2, <3>2, Zenon DEF Data
    <3>4. CASE pending = "bypassWrite"
      <4>1. Bypass /\ mode(Line) \in 0..3
        BY <3>4, ModeType, Zenon DEF Requested
      <4>2. Holds(LineOf(w)) = {}
        BY <2>1, <3>1, <4>1, SMTT(30) DEF Bypass, Hit, MayAccess
      <4> QED
        BY <1>1, <1>6, <3>3, <4>2, Zenon DEF Sound
    <3>5. CASE pending = "writeThrough"
      <4>1. /\ slot \in Holds(Line)
            /\ \A k \in 0..(LineWords - 1) :
                  k >= In /\ k < In + Chunk => lines[slot].bytes[k] = bytes[txn.offset + k - In]
        BY <3>5, Zenon DEF Requested
      <4>2. PICK k \in Nat : k = w % LineWords /\ k \in 0..(LineWords - 1) /\ w + In = Here + k
        BY <1>2, <3>1, ChunkWords, Zenon
      <4>3. k >= In /\ k < In + Chunk /\ txn.offset + k - In = w - txn.address
        BY <1>2, <2>2, <4>2, ChunkPlace, LineOfWord, Zenon
      <4>4. lines[slot].bytes[w % LineWords] = arch[w]
        BY <3>3, <4>1, <4>2, <4>3, Zenon
      <4>5. \A s \in Holds(Line) : s = slot
        BY <2>1, <4>1, FindFacts, Zenon
      <4> QED
        BY <1>1, <1>2, <1>6, <3>1, <3>3, <4>1, <4>4, <4>5, Zenon DEF Sound
    <3> QED
      BY <1>1, <3>4, <3>5, Zenon
  <2>3. CASE ~(w >= Here /\ w < Here + Chunk)
    <3>1. Sound(w) /\ mem'[w] = mem[w]
      BY <1>3, <1>4, <2>3, Zenon DEF Data
    <3>2. ASSUME NEW s \in Holds(LineOf(w)) PROVE lines'[s].dirty = lines[s].dirty
      <4>1. CASE s # slot \/ pending = "bypassWrite"
        BY <1>6, <4>1, Zenon DEF Holds
      <4>2. CASE s = slot /\ pending = "writeThrough"
        <5>1. slot \in Holds(Line) /\ mode(Line) = 0
          BY <4>2, ZenonT(30) DEF Requested
        <5>2. lines[slot].dirty = FALSE
          BY <1>2, <2>1, <5>1, EntryFields DEF MayAccess
        <5> QED
          BY <1>1, <1>2, <1>5, <4>2, <5>2, Zenon DEF TypeOK
      <4> QED
        BY <1>1, <4>1, <4>2, Zenon
    <3>3. \A s \in Holds(LineOf(w)) : lines'[s].bytes = lines[s].bytes
      BY <1>6, Zenon DEF Holds
    <3> QED
      BY <1>1, <1>6, <3>1, <3>2, <3>3, ZenonT(60) DEF Sound
  <2> QED
    BY <2>2, <2>3, Zenon
<1> QED
  BY <1>4, <1>7, <1>8, <1>9, <1>10, Zenon DEF IInv

-----------------------------------------------------------------------------
(* Invariance.                                                             *)

LEMMA InitIInv == Init => IInv
<1> SUFFICES ASSUME Init PROVE IInv
  OBVIOUS
<1>1. Zero \in Values /\ 0 \in Word /\ 0 \in 0..MaxCount /\ <<0, 0>> \in Slot /\ 0 \in LineNo
  BY GeometryAssumption, ControlAssumption, SMTT(30) DEF Values, Zero, Word, MaxCount, Slot, LineNo
<1>2. NoLine \in Entry /\ NoLine.valid = FALSE /\ NoLine.dirty = FALSE
  BY <1>1, Zenon DEF NoLine, Entry
<1>3. /\ txn.write = FALSE /\ txn.address = 0 /\ txn.count = 0 /\ txn.offset = 0 /\ pending = "none"
      /\ txn \in [write : BOOLEAN, address : Word, count : 0..MaxCount, offset : 0..MaxCount]
  BY <1>1, Zenon DEF Init, NoTxn
<1>4. \A s \in Slot : lines[s] = NoLine
  BY Zenon DEF Init
<1>5. TypeOK
  <2>1. lines \in [Slot -> Entry] /\ slot \in Slot /\ mem \in [Word -> Values] /\ arch \in [Word -> Values]
    BY <1>1, <1>2, Zenon DEF Init
  <2>2. bytes \in [0..(MaxCount - 1) -> Values] /\ replacement \in 0..(Ways - 1)
    BY <1>1, GeometryAssumption, SMTT(30) DEF Init, NoBytes
  <2>3. writes \in 0..MaxWrites
    BY ControlAssumption, SMTT(30) DEF Init
  <2>4. acr \in [1..NumAcrs -> Matches \cup {NoMatch}]
    BY Zenon DEF Init
  <2>5. \A s, t \in Slot :
          lines[s].valid => /\ s[1] = setIndex(lines[s].line)
                            /\ lines[t].valid /\ lines[s].line = lines[t].line => s = t
    BY <1>2, <1>4, Zenon
  <2> QED
    BY <1>3, <2>1, <2>2, <2>3, <2>4, <2>5, ZenonT(60) DEF TypeOK, Init
<1>6. Extent /\ Disciplined /\ ReadsLatest /\ Requested
  BY <1>3, LineOfWord, SMTT(30) DEF Extent, Disciplined, ReadsLatest, Requested
<1>7. DirtyIsValid
  BY <1>2, <1>4, Zenon DEF DirtyIsValid
<1>8. Data
  <2>1. \A l : Holds(l) = {}
    BY <1>2, <1>4, Zenon DEF Holds
  <2>2. \A w \in Word : Sound(w)
    BY <2>1, Zenon DEF Sound, Init
  <2> QED
    BY <1>3, <2>2, Zenon DEF Data, Unwritten
<1> QED
  BY <1>5, <1>6, <1>7, <1>8, Zenon DEF IInv

LEMMA StartIInv == ASSUME IInv, Start PROVE IInv'
<1>1. CASE \E w \in Word, n \in 1..MaxCount : access(w, n, FALSE, bytes)
  BY <1>1, AccessStep, Zenon
<1>2. CASE \E w \in Word, n \in 1..MaxCount : access(w, n, TRUE, [k \in 0..(n - 1) |-> Fresh(k)])
  <2>1. PICK w \in Word, n \in 1..MaxCount : access(w, n, TRUE, [k \in 0..(n - 1) |-> Fresh(k)])
    BY <1>2, ZenonT(30)
  <2> DEFINE data == [k \in 0..(n - 1) |-> Fresh(k)]
  <2>2. writes < MaxWrites
    BY <2>1, Zenon DEF access
  <2>3. ASSUME NEW k \in 0..(n - 1) PROVE data[k] \in Values
    <3>1. k \in 0..(MaxCount - 1)
      BY GeometryAssumption DEF MaxCount
    <3> QED
      BY <2>2, <3>1, FreshType, Zenon DEF IInv
  <2>4. access(w, n, TRUE, data)
    BY <2>1, Zenon
  <2> HIDE DEF data
  <2> QED
    BY <2>3, <2>4, AccessStep, Zenon
<1>3. CASE \E c \in Controls, inval \in BOOLEAN : movecCacr(c, inval)
  BY <1>3, MovecCacrStep, Zenon
<1>4. CASE \E i \in 1..NumAcrs, m \in Matches : movecAcr(i, m)
  BY <1>4, MovecAcrStep, Zenon
<1>5. CASE \E s \in Slot : push(s)
  BY <1>5, PushStep, Zenon
<1>6. CASE reset
  BY <1>6, ResetStep, Zenon
<1> QED
  BY <1>1, <1>2, <1>3, <1>4, <1>5, <1>6, Zenon DEF Start

LEMMA NextIInv == IInv /\ [Next]_vars => IInv'
<1> SUFFICES ASSUME IInv, [Next]_vars PROVE IInv'
  OBVIOUS
<1>1. CASE Start
  BY <1>1, StartIInv, Zenon
<1>2. CASE nextWriteHit
  BY <1>2, WriteThroughHit, CopybackHit, Zenon
<1>3. CASE Drive /\ ~nextWriteHit
  BY <1>3, NextPushStep, NextBypassStep, NextMissStep, NextReadHitStep, NextDoneStep,
     CompleteFillStep, CompleteBypassReadStep, CompletePushStep, CompleteEvictStep,
     CompleteWriteStep, ZenonT(60) DEF Drive
<1>4. CASE UNCHANGED vars
  <2>1. UNCHANGED <<lines, cacr, acr, replacement, active, pending, slot, txn, bytes, pushing, clears,
                    mem, careful, arch, writes>>
    BY <1>4, Zenon DEF vars, control, job, ghost
  <2>2. Requested'
    <3>1. Bypass' <=> Bypass
      BY <2>1, SameLines, SameTxn, Zenon DEF Bypass, Hit
    <3>2. Hit' <=> Hit
      BY <2>1, SameLines, SameTxn, Zenon DEF Hit
    <3> QED
      BY <2>1, <3>1, <3>2, SameLines, SameTxn, Zenon DEF Requested, IInv
  <2> QED
    BY <2>1, <2>2, OnlyRequest, Zenon DEF IInv, TypeOK
<1> QED
  BY <1>1, <1>2, <1>3, <1>4, Zenon DEF Next


LEMMA Invariance == Spec => []IInv
  BY InitIInv, NextIInv, PTL DEF Spec

\* Every variable keeps its type, and a line is cached in at most one way, of its
\* own set, so that the lookup of WindowDataCache::find has one answer.
THEOREM TypeCorrect == Spec => []TypeOK
<1>1. IInv => TypeOK
  BY Zenon DEF IInv
<1> QED
  BY <1>1, Invariance, PTL

\* Whatever is filled, evicted, pushed, locked or switched between modes, a read
\* of a program that keeps the cache discipline returns what it wrote last.
THEOREM CacheInvisible == Spec => []ReadsLatest
<1>1. IInv => ReadsLatest
  BY Zenon DEF IInv
<1> QED
  BY <1>1, Invariance, PTL

\* When no transaction is under way, each word the program wrote is in the one
\* way that caches it or in memory, and memory agrees with every clean line.
THEOREM NoWriteLost == Spec => []NothingMissing
<1>1. ASSUME IInv PROVE NothingMissing
  <2> SUFFICES ASSUME careful, ~active, NEW w \in Word
               PROVE  IF Holds(LineOf(w)) = {} THEN mem[w] = arch[w]
                      ELSE LET b == lines[find(LineOf(w))]
                           IN  /\ b.bytes[w % LineWords] = arch[w]
                               /\ b.dirty \/ mem[w] = arch[w]
    BY Zenon DEF NothingMissing
  <2>1. Sound(w)
    BY <1>1, Resting, AtRest, Zenon
  <2>2. CASE Holds(LineOf(w)) = {}
    BY <2>1, <2>2, ZenonT(30) DEF Sound
  <2>3. CASE Holds(LineOf(w)) # {}
    <3>1. find(LineOf(w)) \in Holds(LineOf(w))
      BY <1>1, <2>3, FindFacts, LineOfWord, Zenon DEF IInv
    <3> QED
      BY <2>1, <2>3, <3>1, Zenon DEF Sound
  <2> QED
    BY <2>2, <2>3, Zenon
<1> QED
  BY <1>1, Invariance, PTL

-----------------------------------------------------------------------------
(* What a step may not do.                                                 *)

\* A locked way keeps its line: the victim of a miss is never in the locked half.
LEMMA LockedStep ==
    ASSUME IInv, [Next]_vars, NEW s \in Slot, cacr.dhlck, s[2] < Half
    PROVE  \/ lines'[s].valid = lines[s].valid /\ lines'[s].line = lines[s].line
           \/ ~lines'[s].valid /\ (~active \/ (pushing /\ slot = s))
<1> TypeOK /\ Data /\ Extent /\ DirtyIsValid /\ Disciplined /\ Requested /\ ReadsLatest
  BY Zenon DEF IInv
<1>1. lines \in [Slot -> Entry] /\ slot \in Slot /\ NoLine.valid = FALSE
  BY Zenon DEF TypeOK, NoLine
<1>2. CASE UNCHANGED lines
  BY <1>2, Zenon
<1>3. CASE \E c \in Controls, inval \in BOOLEAN : movecCacr(c, inval)
  BY <1>1, <1>3, Zenon DEF movecCacr, start
<1>4. CASE nextPush \/ completePush
  <2>1. PICK e : lines' = [lines EXCEPT ![slot] = e]
                 /\ (e = NoLine \/ e = lines[slot] \/ e = [lines[slot] EXCEPT !.dirty = FALSE])
    <3>1. CASE nextPush
      BY <1>1, <3>1, Zenon DEF nextPush
    <3>2. CASE completePush
      BY <1>1, <3>2, Zenon DEF completePush
    <3> QED
      BY <1>4, <3>1, <3>2, Zenon
  <2>2. e.valid = FALSE \/ (e.line = lines[slot].line /\ e.valid = lines[slot].valid)
    BY <1>1, <2>1, EntryFields, Zenon DEF Entry
  <2>3. lines'[s] = IF s = slot THEN e ELSE lines[s]
    BY <1>1, <2>1, Zenon
  <2>4. pushing
    BY <1>4, Zenon DEF nextPush, completePush, Requested
  <2> QED
    BY <2>2, <2>3, <2>4, Zenon
<1>5. CASE nextWriteHit
  <2>1. find(Line) \in Slot
    BY <1>5, ChunkFits, FindFacts, Zenon DEF nextWriteHit, More, Hit, Holds
  <2>2. \E e : /\ lines' = [lines EXCEPT ![find(Line)] = e]
               /\ e.line = lines[find(Line)].line
               /\ e.valid = lines[find(Line)].valid
    <3>1. lines[find(Line)] \in Entry
      BY <2>1, EntryFields, Zenon
    <3>2. CASE mode(Line) = 0
      <4> DEFINE e == [lines[find(Line)] EXCEPT !.bytes = Stored(@)]
      <4>1. lines' = [lines EXCEPT ![find(Line)] = e]
        BY <1>5, <3>2, Zenon DEF nextWriteHit
      <4>2. e.line = lines[find(Line)].line /\ e.valid = lines[find(Line)].valid
        BY <3>1, Zenon DEF Entry
      <4> QED
        BY <4>1, <4>2, Zenon
    <3>3. CASE mode(Line) # 0
      <4> DEFINE e == [lines[find(Line)] EXCEPT !.bytes = Stored(@), !.dirty = TRUE]
      <4>1. lines' = [lines EXCEPT ![find(Line)] = e]
        BY <1>1, <1>5, <2>1, <3>3, Zenon DEF nextWriteHit
      <4>2. e.line = lines[find(Line)].line /\ e.valid = lines[find(Line)].valid
        BY <3>1, Zenon DEF Entry
      <4> QED
        BY <4>1, <4>2, Zenon
    <3> QED
      BY <3>2, <3>3, Zenon
  <2> QED
    BY <1>1, <2>1, <2>2, Zenon
<1>6. CASE completeWrite
  BY <1>1, <1>6, Zenon DEF completeWrite, Entry
<1>7. CASE completeFill \/ completeEvict
  <2>1. pending \in {"fill", "evict"}
    BY <1>7, Zenon DEF completeFill, completeEvict
  <2>2. slot[2] >= Half
    BY <2>1, Zenon DEF Requested
  <2>3. Half \in Nat /\ slot[2] \in Nat /\ s[2] \in Nat
    BY <1>1, GeometryAssumption, SMTT(30) DEF Half, Slot
  <2>4. slot # s
    BY <2>2, <2>3, SMTT(30)
  <2> QED
    BY <1>1, <1>7, <2>4, Zenon DEF completeFill, completeEvict
<1>8. UNCHANGED lines \/ (\E c \in Controls, inval \in BOOLEAN : movecCacr(c, inval))
      \/ nextPush \/ completePush \/ completeEvict \/ nextWriteHit \/ completeWrite \/ completeFill
  BY Zenon DEF Next, Start, Drive, access, movecAcr, push, reset, nextBypass, nextMiss, nextReadHit, nextDone,
         completeBypassRead, vars
<1> QED
  BY <1>2, <1>3, <1>4, <1>5, <1>6, <1>7, <1>8, Zenon

\* While CACR has the half-lock bit set, the lower ways keep their lines and take
\* no others: a line goes by invalidation or a push of its way, never to make
\* room, be it clean or dirty.
THEOREM LockHeld == Spec => LockedStay
<1>1. IInv /\ [Next]_vars => [\A s \in Slot :
          cacr.dhlck /\ s[2] < Half =>
              \/ lines'[s].valid = lines[s].valid /\ lines'[s].line = lines[s].line
              \/ ~lines'[s].valid /\ (~active \/ (pushing /\ slot = s))]_vars
  BY LockedStep, Zenon
<1> QED
  BY <1>1, Invariance, PTL DEF Spec, LockedStay


LEMMA StageBound == Stage \in 0..7 /\ Stage' \in 0..7
  BY DEF Stage

\* A way that was just emptied is one that a victim can be.
LEMMA RoomMade ==
    ASSUME TypeOK', DirtyIsValid', NEW i \in 0..(Sets - 1), NEW v \in 0..(Ways - 1),
           cacr'.dhlck => v >= Half, ~lines'[<<i, v>>].valid
    PROVE  ~lines'[victim(i)'].dirty
<1> DEFINE low == IF cacr'.dhlck THEN Half ELSE 0
           free == {w \in low..(Ways - 1) : ~lines'[<<i, w>>].valid}
           way == CHOOSE w \in free : \A u \in free : w <= u
<1>1. Half \in Nat /\ Ways \in Nat /\ low \in Nat
  BY GeometryAssumption, SMTT(30) DEF Half
<1>2. v \in free
  BY <1>1
<1>3. victim(i)' = <<i, way>>
  BY <1>2, Zenon DEF victim
<1>4. \E w \in free : \A u \in free : w <= u
  BY <1>1, <1>2, Lowest, free \in SUBSET Nat, Zenon
<1>5. way \in free
  BY <1>4, Zenon
<1>6. way \in 0..(Ways - 1) /\ ~lines'[<<i, way>>].valid
  BY <1>1, <1>5, SMTT(30)
<1> HIDE DEF way, free
<1> QED
  BY <1>3, <1>6, Zenon DEF DirtyIsValid, Slot

\* Transferring a chunk.
LEMMA ChunkShrinks ==
    ASSUME IInv, active, ~pushing, txn.offset < txn.count, txn' = [txn EXCEPT !.offset = @ + Chunk],
           Stage >= 2, UNCHANGED <<active, pushing>>
    PROVE  Left' < Left
<1>1. txn'.count = txn.count /\ txn'.offset = txn.offset + Chunk
  BY Transferred, Zenon DEF IInv
<1>2. Left = 1 + 8 * (txn.count - txn.offset) + Stage
  BY Zenon DEF Left
<1>3. Left' = 1 + 8 * (txn.count - (txn.offset + Chunk)) + Stage'
  BY <1>1, Zenon DEF Left
<1>4. PICK n, o, c \in Nat : n = txn.count /\ o = txn.offset /\ c = Chunk
  BY ChunkFits, Fields, Zenon DEF IInv
<1>5. c > 0 /\ o + c <= n
  BY <1>4, ChunkFits, Zenon DEF IInv
<1>6. PICK a, b \in 0..7 : a = Stage /\ b = Stage'
  BY StageBound, Zenon
<1>7. 1 + 8 * (n - (o + c)) + b < 1 + 8 * (n - o) + a
  BY <1>5, <1>6, SMTT(30)
<1> QED
  BY <1>2, <1>3, <1>4, <1>6, <1>7, Zenon

\* Another step of the same chunk.
LEMMA StageShrinks ==
    ASSUME IInv, active, ~pushing, txn.offset < txn.count, Stage' < Stage,
           UNCHANGED <<active, pushing, txn>>
    PROVE  Left' < Left
<1>1. Left = 1 + 8 * (txn.count - txn.offset) + Stage /\ Left' = 1 + 8 * (txn.count - txn.offset) + Stage'
  BY Zenon DEF Left
<1>2. PICK n, o \in Nat : n = txn.count /\ o = txn.offset
  BY Fields, Zenon DEF IInv
<1>3. PICK a, b \in 0..7 : a = Stage /\ b = Stage'
  BY StageBound, Zenon
<1>4. b < a
  BY <1>3, Zenon
<1>5. 1 + 8 * (n - o) + b < 1 + 8 * (n - o) + a
  BY <1>4
<1> QED
  BY <1>1, <1>2, <1>3, <1>5, Zenon


\* A push is one write back at most, and what follows is the end.
LEMMA PushShrinks ==
    ASSUME IInv, nextPush \/ completePush
    PROVE  Left' < Left
<1> TypeOK /\ Data /\ Extent /\ DirtyIsValid /\ Disciplined /\ Requested /\ ReadsLatest
  BY Zenon DEF IInv
<1>1. active /\ pushing /\ UNCHANGED <<active, txn>>
  BY Zenon DEF nextPush, completePush, InNext, Requested
<1>2. txn.count = 0 /\ txn.offset = 0
  BY <1>1, Fields, SMTT(30) DEF Extent
<1>3. CASE pushing'
  <2>1. pending = "none" /\ pending' = "push"
    BY <1>3, Zenon DEF nextPush, completePush, InNext
  <2> QED
    BY <1>1, <1>3, <2>1, SMTT(30) DEF Left
<1>4. CASE ~pushing'
  <2>1. pending' = "none"
    BY <1>1, <1>4, Zenon DEF nextPush, completePush, InNext
  <2>2. Stage' = 0
    BY <1>1, <1>2, <2>1, Zenon DEF Stage
  <2>3. Left' = 1
    BY <1>1, <1>2, <1>4, <2>2, SMTT(30) DEF Left
  <2>4. Left \in {2, 3}
    BY <1>1, Zenon DEF Left
  <2> QED
    BY <2>3, <2>4, SMTT(30)
<1> QED
  BY <1>3, <1>4, Zenon

\* Which step of a chunk each pass of next finds, and which it leaves.
LEMMA NextShrinks ==
    ASSUME IInv, nextBypass \/ nextMiss \/ nextReadHit \/ nextWriteHit
    PROVE  Left' < Left
<1> TypeOK /\ Data /\ Extent /\ DirtyIsValid /\ Disciplined /\ Requested /\ ReadsLatest
  BY Zenon DEF IInv
<1>1. active /\ pending = "none" /\ ~pushing /\ txn.offset < txn.count /\ UNCHANGED <<active, pushing>>
  BY Zenon DEF nextBypass, nextMiss, nextReadHit, nextWriteHit, More, InNext
<1>2. txn.offset # txn.count
  BY <1>1, Fields, SMTT(30)
<1>3. Stage = IF Bypass \/ Hit THEN 3 ELSE IF lines[victim(setIndex(Line))].dirty THEN 7 ELSE 5
  BY <1>1, <1>2, Zenon DEF Stage
<1>4. CASE nextBypass
  <2>1. Bypass /\ pending' \in {"bypassRead", "bypassWrite"} /\ UNCHANGED txn
    BY <1>4, Zenon DEF nextBypass
  <2>2. Stage' = 2
    BY <2>1, Zenon DEF Stage
  <2> QED
    BY <1>1, <1>3, <2>1, <2>2, StageShrinks, SMTT(30)
<1>5. CASE nextMiss
  <2>1. /\ ~Bypass /\ ~Hit /\ UNCHANGED txn
        /\ pending' = IF lines[victim(setIndex(Line))].valid /\ lines[victim(setIndex(Line))].dirty
                        THEN "evict" ELSE "fill"
    BY <1>5, Zenon DEF nextMiss
  <2>2. victim(setIndex(Line)) \in Slot
    BY <1>1, ChunkFits, SetIndex, VictimFacts, Zenon
  <2>3. Stage' = IF lines[victim(setIndex(Line))].dirty THEN 6 ELSE 4
    BY <2>1, <2>2, Zenon DEF Stage, DirtyIsValid
  <2>4. Stage' < Stage
    BY <1>3, <2>1, <2>3, SMTT(30)
  <2> QED
    BY <1>1, <2>1, <2>4, StageShrinks, Zenon
<1>6. CASE nextReadHit \/ (nextWriteHit /\ mode(Line) # 0)
  <2>1. Hit /\ txn' = [txn EXCEPT !.offset = @ + Chunk]
    BY <1>6, Zenon DEF nextReadHit, nextWriteHit
  <2> QED
    BY <1>1, <1>3, <2>1, ChunkShrinks, SMTT(30)
<1>7. CASE nextWriteHit /\ mode(Line) = 0
  <2>1. Hit /\ pending' = "writeThrough" /\ UNCHANGED txn
    BY <1>7, Zenon DEF nextWriteHit
  <2>2. Stage' = 2
    BY <2>1, Zenon DEF Stage
  <2> QED
    BY <1>1, <1>3, <2>1, <2>2, StageShrinks, SMTT(30)
<1> QED
  BY <1>4, <1>5, <1>6, <1>7, Zenon

\* And what each response leaves: an eviction makes room for the fill, and the
\* fill is a hit.
LEMMA CompleteShrinks ==
    ASSUME IInv, IInv', completeFill \/ completeBypassRead \/ completeEvict \/ completeWrite
    PROVE  Left' < Left
<1> TypeOK /\ Data /\ Extent /\ DirtyIsValid /\ Disciplined /\ Requested /\ ReadsLatest
  BY Zenon DEF IInv
<1> TypeOK' /\ DirtyIsValid'
  BY Zenon DEF IInv
<1>1. /\ active /\ pending \notin {"none", "push"} /\ UNCHANGED <<active, pushing>> /\ pending' = "none"
  BY Zenon DEF completeFill, completeBypassRead, completeEvict, completeWrite
<1>2. txn.offset < txn.count /\ ~pushing
  <2>1. txn.offset < txn.count
    BY <1>1, Zenon DEF Requested
  <2>2. txn.count > 0
    BY <2>1, Fields, SMTT(30)
  <2> QED
    BY <2>1, <2>2, Zenon DEF Extent
<1>3. txn.offset # txn.count /\ Line \in LineNo
  BY <1>2, Fields, ChunkFits, SMTT(30)
<1>4. CASE completeBypassRead \/ completeWrite
  <2>1. Stage = 2 /\ txn' = [txn EXCEPT !.offset = @ + Chunk]
    BY <1>4, Zenon DEF Stage, completeBypassRead, completeWrite
  <2> QED
    BY <1>1, <1>2, <2>1, ChunkShrinks, SMTT(30)
<1>5. CASE completeFill
  <2>1. Stage = 4 /\ UNCHANGED txn
    BY <1>5, Zenon DEF completeFill, Stage
  <2>2. slot \in Slot /\ slot[1] = setIndex(Line)
    BY <1>5, Zenon DEF completeFill, Requested, TypeOK
  <2>3. lines'[slot].valid /\ lines'[slot].line = Line
    BY <1>5, <2>2, ZenonT(30) DEF completeFill, TypeOK
  <2>4. Hit'
    <3>1. Line' = Line
      BY <2>1, SameTxn, Zenon
    <3> QED
      BY <2>2, <2>3, <3>1, Zenon DEF Hit, Holds
  <2>5. Stage' = 3
    BY <1>1, <1>3, <2>1, <2>4, Zenon DEF Stage
  <2> QED
    BY <1>1, <1>2, <2>1, <2>5, StageShrinks, SMTT(30)
<1>6. CASE completeEvict
  <2>1. Stage = 6 /\ UNCHANGED <<txn, cacr>>
    BY <1>6, Zenon DEF completeEvict, Stage, control
  <2>2. slot \in Slot /\ slot[1] = setIndex(Line) /\ (cacr.dhlck => slot[2] >= Half)
    BY <1>6, Zenon DEF completeEvict, Requested, TypeOK
  <2>3. ~lines'[slot].valid
    BY <1>6, <2>2, Drop, Zenon DEF completeEvict
  <2>4. PICK i \in 0..(Sets - 1), v \in 0..(Ways - 1) :
          i = setIndex(Line) /\ slot = <<i, v>> /\ (cacr'.dhlck => v >= Half) /\ ~lines'[<<i, v>>].valid
    BY <2>1, <2>2, <2>3, SMTT(30) DEF Slot
  <2>5. ~lines'[victim(i)'].dirty
    BY <2>4, RoomMade, Zenon
  <2>6. setIndex(Line)' = i
    BY <2>1, <2>4, SameTxn, Zenon DEF setIndex
  <2>7. victim(setIndex(Line))' = victim(i)'
    BY <2>6, SMTT(30) DEF victim
  <2>8. Stage' \in {3, 5}
    BY <1>1, <1>3, <2>1, <2>5, <2>7, Zenon DEF Stage
  <2> QED
    BY <1>1, <1>2, <2>1, <2>8, StageShrinks, SMTT(30)
<1> QED
  BY <1>4, <1>5, <1>6, Zenon

\* Every step of a transaction brings it nearer its end: next never loops on the
\* same state, and the response the vCPU waits for is a bounded number of backing
\* requests away.
THEOREM TransactionsEnd == Spec => TransactionShrinks
<1>1. ASSUME IInv, IInv', [Next]_vars PROVE [active => Left' < Left]_vars
  <2> SUFFICES ASSUME active, Next PROVE Left' < Left
    BY <1>1, Zenon
  <2>1. ~Start
    BY Zenon DEF Start, access, movecCacr, movecAcr, push, reset, start
  <2>2. CASE nextDone
    <3>1. pending = "none" /\ ~pushing /\ txn.offset = txn.count /\ active' = FALSE
      BY <2>2, Zenon DEF nextDone, InNext
    <3>2. Stage = 0 /\ txn.count - txn.offset = 0
      BY <1>1, <3>1, Fields, SMTT(30) DEF Stage, IInv
    <3>3. Left = 1 /\ Left' = 0
      BY <3>1, <3>2, SMTT(30) DEF Left
    <3> QED
      BY <3>3
  <2>3. CASE Drive /\ ~nextDone
    BY <1>1, <2>3, PushShrinks, NextShrinks, CompleteShrinks, Zenon DEF Drive
  <2> QED
    BY <2>1, <2>2, <2>3, Zenon DEF Next
<1> QED
  BY <1>1, Invariance, PTL DEF Spec, TransactionShrinks
=============================================================================
