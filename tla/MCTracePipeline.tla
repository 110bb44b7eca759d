--------------------------- MODULE MCTracePipeline --------------------------
(* Small instances of TracePipeline: every program over an alphabet, up to a *)
(* length; or one program per vCPU.                                          *)
EXTENDS TracePipeline, FiniteSets

CONSTANTS Alphabet, MaxLen

MCPrograms == [Cores -> UNION {[1..n -> Alphabet] : n \in 0..MaxLen}]

\* Short programs over everything, with one access outside ordinary memory;
\* longer ones over the alphabet.
Unusual(p) == {i \in DOMAIN p : p[i] \in Accesses \ {"mem"}}
MCMixed ==
    [Cores -> {p \in UNION {[1..n -> Events] : n \in 0..MaxLen - 1} : Cardinality(Unusual(p)) <= 1}
              \cup [1..MaxLen -> Alphabet]]

\* Handlers that overlap: the finisher comes before a filter around it.
MCRegions ==
    <<[kind |-> "finisher", start |-> 4, end |-> 4], [kind |-> "filtered", start |-> 3, end |-> 5],
      [kind |-> "mmio", start |-> 6, end |-> 6], [kind |-> "forward", start |-> 0, end |-> 5]>>

MCAccess ==
    [mem |-> [addr |-> 1, write |-> TRUE], mmio |-> [addr |-> 6, write |-> TRUE],
     filtered |-> [addr |-> 5, write |-> TRUE], wild |-> [addr |-> 9, write |-> FALSE],
     finisher |-> [addr |-> 4, write |-> TRUE], peek |-> [addr |-> 4, write |-> FALSE]]

\* No more than MaxLen instructions in all, fewer on the later vCPUs, and at most
\* one that ends the trace or passes it by.
Slot == Cores \X (1..MaxLen)
MCUneven ==
    {p \in MCPrograms :
       /\ Cardinality({x \in Slot : x[2] <= Len(p[x[1]])}) <= MaxLen
       /\ \A c \in Cores \ {1} : Len(p[c]) < MaxLen
       /\ Cardinality({x \in Slot : x[2] <= Len(p[x[1]]) /\ p[x[1]][x[2]] # "mem"}) <= 1}

NoLatency == [e \in Records |-> 0]
MemLatency == [e \in Records |-> IF e = "mem" THEN 1 ELSE 0]
=============================================================================
