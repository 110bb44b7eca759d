----------------------------- MODULE MCAddresses ----------------------------
(***************************************************************************)
(* Three sequential parts that share no state, checked side by side: how   *)
(* an access is split (AccessSplit), how a user-mode access is serviced    *)
(* (UserMmio), how the shared segment is laid out (SharedSegment).  A      *)
(* behaviour runs one of them on one input; the others stay idle.          *)
(***************************************************************************)
EXTENDS AccessSplit, UserMmio, SharedSegment

Arg(n, b, s) == [name |-> n, base |-> b, size |-> s, vcpu |-> 0]

\* Register contents: none zero but RISC-V's x0, bytes that tell sizes apart.
MCx(isa) ==
    [r \in RegNames |-> IF isa = "riscv" THEN (IF r = 0 THEN 0 ELSE 58596 + r) ELSE 100 + r]

Guest(isa, specs, prog, cpu, answer) ==
    [isa |-> isa, specs |-> specs, prog |-> prog, cpu |-> cpu, answer |-> answer,
     x |-> MCx(isa), ccr |-> {"X", "V", "C"}]

\* Command lines: every pair of arguments, and a third one that is too many.
MCArgs == [name : {"", "a", "b", "wide", "none"}, base : {0, 8, 10, 12, 28, 32}, size : {0, 3, 4, 6, 8, 33}, vcpu : {0, 1}]
GoodArgs == {Arg("a", 0, 4), Arg("b", 8, 4), Arg("a", 12, 3), Arg("b", 28, 4)}
MCRegistrations ==
    {Guest("riscv", sp, << >>, 0, 0) :
        sp \in {<<s>> : s \in MCArgs} \cup {<<g, s>> : g \in GoodArgs, s \in MCArgs}
               \cup {<<g, h, s>> : g \in GoodArgs, h \in GoodArgs, s \in GoodArgs}}

\* Two apertures, the second not a whole number of pages, a gap between them.
MCLayout == <<Arg("a", 8, 8), Arg("b", 20, 6)>>

MCRv  == [set : {"rv"}, op : {"load", "store", "other"}, f : 0..7, r : {0, 9}]
MCRvc == [set : {"rvc"}, q : 0..2, f : 0..7, r : {8}]
Ea == {<<m, 0>> : m \in 0..6} \cup {<<7, r>> : r \in 0..5}
MCM68k == {i \in [set : {"m68k"}, move : {TRUE}, sz : 0..3, dst : Ea, src : Ea, full : BOOLEAN, imm : {75}] :
            /\ InMemory(i.src) \/ InMemory(i.dst)
            /\ i.full => \E ea \in {i.src, i.dst} : ea[1] = 6 \/ ea = <<7, 3>>}

\* The guest's data accesses from just below the first aperture to the end of
\* the second; an instruction that is not supported may access four bytes.  Its
\* text goes on after the instruction, or (where the access is at 8) ends with it.
Doing(i, lo, w, from, text) ==
    [insn |-> i, lo |-> lo, write |-> w, from |-> from, text |-> text,
     bytes |-> IF Supported(i) THEN IsaSize(i) ELSE 4]
Texts(i, lo) == IF lo = 8 THEN {IF Supported(i) THEN IsaLength(i) ELSE 2, 10} ELSE {10}
Directions(i) ==
    IF i.set # "m68k" THEN {IsaStores(i)}
    ELSE {w \in BOOLEAN : IF w THEN InMemory(i.dst) ELSE InMemory(i.src)}

Single(i, lo) == {<<Doing(i, lo, w, "insn", t)>> : w \in Directions(i), t \in Texts(i, lo)}
MCPrograms(isa) ==
    IF isa = "riscv" THEN UNION {Single(i, lo) : i \in MCRv \cup MCRvc, lo \in 5..25}
    ELSE UNION {Single(i, lo) : i \in MCM68k, lo \in {6, 8, 13, 15, 20, 24}}

Lw == [set |-> "rv", op |-> "load", f |-> 2, r |-> 9]
MCTwice == {<<Doing(Lw, 8, FALSE, f, 8), Doing(Lw, 12, FALSE, "insn", 4)>> : f \in Origins}

MCJobs ==
    MCRegistrations
    \cup {Guest("riscv", MCLayout, p, 0, v) : p \in MCPrograms("riscv"), v \in {0, 44719}}
    \cup {Guest("m68k", MCLayout, p, 1, v) : p \in MCPrograms("m68k"), v \in {0, 44719}}
    \cup {Guest("riscv", MCLayout, p, c, 7) : p \in MCTwice, c \in 0..2}

-----------------------------------------------------------------------------
\* Configurations of native regions: every list of up to two, whether it parses
\* or not, and one of three; both processes map the segment on any page.
MCLists ==
    {<< >>} \cup {<<<<b, s>>>> : b \in {0, 2, 3, 12, 14, 16}, s \in 0..5}
    \cup {<<<<b, s>>, <<c, t>>>> : b \in {0, 2, 4}, c \in {0, 2, 3, 4, 8, 14, 16}, s \in {2, 4}, t \in {0, 2, 3, 4, 6}}
    \cup {<<<<0, 2>>, <<4, 2>>, <<8, 2>>>>}
MCTrue == [mapSize |-> SegmentBytes, off |-> SharedOff, file |-> SegmentBytes]
MCHeaders ==
    [mapSize : {0, SharedBytes, SegmentBytes - 1, SegmentBytes, SegmentBytes + 2},
     off : {0, SharedOff, SharedOff + 1, SegmentBytes + 1}, file : {1, SegmentBytes, SegmentBytes + 2}]
MCSetups ==
    [list : MCLists, sst : {8, 10}, qemu : {20, 22}, header : {MCTrue}]
    \cup [list : {<<<<2, 4>>>>}, sst : {8}, qemu : {22}, header : MCHeaders]

-----------------------------------------------------------------------------
SplitIdle == access = [kind |-> "idle"] /\ offset = 0 /\ sent = << >> /\ status = "start"
MmioIdle ==
    /\ job = [prog |-> << >>] /\ phase = "exit" /\ ranges = << >> /\ args = 0
    /\ x = << >> /\ pc = 0 /\ ccr = {} /\ blocked = FALSE /\ ran = 0 /\ request = NoRequest
SegIdle == setup = [list |-> << >>] /\ stage = "idle" /\ table = << >>

Init ==
    \/ SplitInit /\ MmioIdle /\ SegIdle
    \/ SplitIdle /\ MmioInit /\ SegIdle
    \/ SplitIdle /\ MmioIdle /\ SegInit

Next ==
    \/ access.kind # "idle" /\ SplitNext /\ UNCHANGED <<mmioVars, segVars>>
    \/ MmioNext /\ UNCHANGED <<splitVars, segVars>>
    \/ SegNext /\ UNCHANGED <<splitVars, mmioVars>>

Spec == Init /\ [][Next]_<<splitVars, mmioVars, segVars>>
=============================================================================
