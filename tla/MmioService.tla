---------------------------- MODULE MmioService ----------------------------
(***************************************************************************)
(* What the synchronous mailbox promises its callers, without lock, flags  *)
(* or shared fields: a call is executed once, between its invocation and   *)
(* its return; it returns the answer to itself; and each vCPU's aperture   *)
(* serves one call at a time.                                              *)
(***************************************************************************)
EXTENDS Naturals

CONSTANTS Producers, Slots, MaxCalls, None

VARIABLES
    stage,       \* how far the producer's current call has got
    target,      \* vCPU the call is made for
    number,      \* number of the producer's current call
    reply,       \* what the producer's last call returned
    inService    \* the call each vCPU's aperture is executing, or None

vars == <<stage, target, number, reply, inService>>

This(p) == <<p, number[p]>>

Init ==
    /\ stage     = [p \in Producers |-> "idle"]
    /\ target    = [p \in Producers |-> None]
    /\ number    = [p \in Producers |-> 0]
    /\ reply     = [p \in Producers |-> None]
    /\ inService = [v \in Slots |-> None]

Invoke(p, v) ==
    /\ stage[p] = "idle"
    /\ number[p] < MaxCalls
    /\ stage'  = [stage EXCEPT ![p] = "asked"]
    /\ target' = [target EXCEPT ![p] = v]
    /\ number' = [number EXCEPT ![p] = @ + 1]
    /\ UNCHANGED <<reply, inService>>

\* A call for a vCPU that does not exist returns zero and has no effect.
Refuse(p) ==
    /\ stage[p] = "idle"
    /\ reply' = [reply EXCEPT ![p] = None]
    /\ UNCHANGED <<stage, target, number, inService>>

Execute(p) ==
    /\ stage[p] = "asked"
    /\ inService[target[p]] = None
    /\ stage' = [stage EXCEPT ![p] = "executing"]
    /\ inService' = [inService EXCEPT ![target[p]] = This(p)]
    /\ UNCHANGED <<target, number, reply>>

Complete(p) ==
    /\ stage[p] = "executing"
    /\ inService[target[p]] = This(p)
    /\ stage' = [stage EXCEPT ![p] = "answered"]
    /\ inService' = [inService EXCEPT ![target[p]] = None]
    /\ UNCHANGED <<target, number, reply>>

Return(p) ==
    /\ stage[p] = "answered"
    /\ stage' = [stage EXCEPT ![p] = "idle"]
    /\ reply' = [reply EXCEPT ![p] = This(p)]
    /\ UNCHANGED <<target, number, inService>>

Next ==
    \E p \in Producers :
        \/ \E v \in Slots : Invoke(p, v)
        \/ Refuse(p) \/ Execute(p) \/ Complete(p) \/ Return(p)

Spec == Init /\ [][Next]_vars
=============================================================================
