------------------------------- MODULE UserMmio -----------------------------
(***************************************************************************)
(* Synchronous MMIO of a user-mode guest (linux-user/sst_mmio.c).          *)
(*                                                                         *)
(* QEMU's -sst-mmio-range arguments fill a table of apertures, whose pages *)
(* are then reserved without access rights.  A guest load or store that    *)
(* touches one faults; the SIGSEGV handler finds the aperture, decodes the *)
(* instruction, makes the access through the mailbox of the vCPU, and does *)
(* to the guest's registers what the instruction would have done.  What it *)
(* cannot do it leaves to the guest as an ordinary segmentation fault.     *)
(*                                                                         *)
(* A byte has B values.  An instruction is the record of the fields the    *)
(* decoders look at.  The mailbox call is that of MmioMailbox; here it is  *)
(* a request and an answer.                                                *)
(***************************************************************************)
EXTENDS Integers, Sequences, FiniteSets

CONSTANTS
    B,            \* values of a byte (256)
    Page,         \* bytes of a page
    AbiTop,       \* addresses of the guest's ABI (2^32 or 2^64)
    MaxRanges,    \* MAX_RANGES
    VcpuCount,    \* mailboxes of a well-formed segment
    Jobs          \* command lines, guests and programs: see Job below

RegNames == 0..15      \* RISC-V: the registers used; m68k: D0..D7, A0..A7

\* The values of n bytes, for the sizes of an access and of a register.
Values(n) ==
    LET two  == B * B
        four == two * two
    IN  CASE n = 1 -> B [] n = 2 -> two [] n = 4 -> four [] OTHER -> four * four

Wide(isa) == Values(IF isa = "riscv" THEN 8 ELSE 4)

\* The fields of an instruction: RISC-V, its compressed form, m68k.  An m68k
\* operand is <<mode, register>>; `full' is the format of an index extension
\* word, `move' says whether the opcode is a MOVE at all.
Rv   == [set : {"rv"}, op : {"load", "store", "other"}, f : 0..7, r : RegNames]
Rvc  == [set : {"rvc"}, q : 0..2, f : 0..7, r : 8..15]
M68k == [set : {"m68k"}, move : BOOLEAN, sz : 0..3, dst : (0..7) \X (0..7), src : (0..7) \X (0..7),
         full : BOOLEAN, imm : Nat]

\* A range argument and a guest access.  `lo' is the first byte the
\* instruction addresses, `bytes' how many, `write' the direction of the
\* access that faults, `text' how many bytes can be read from the instruction
\* on.  `from' is what made the access: the code translated from the
\* instruction, code of the translation buffer that belongs to no instruction,
\* QEMU's own code, or an instruction fetch.
Spec1     == [name : STRING, base : Nat, size : Nat, vcpu : Nat]
Origins   == {"insn", "stub", "helper", "fetch"}
Accesses1 == [insn : Rv \cup Rvc \cup M68k, lo : Nat, bytes : Nat \ {0}, write : BOOLEAN,
              text : Nat, from : Origins]

ASSUME UserMmioAssumption ==
    /\ {B, Page, AbiTop, MaxRanges, VcpuCount} \subseteq Nat \ {0}
    /\ AbiTop % Page = 0
    /\ \A j \in Jobs :
         /\ j.isa \in {"riscv", "m68k"} /\ j.cpu \in Nat /\ j.answer \in Nat
         /\ j.specs \in Seq(Spec1)
         /\ j.x \in [RegNames -> 0..Wide(j.isa) - 1]

VARIABLES
    job,       \* the command line, the guest thread and its program
    phase,     \* "args", "run", "exit" (invalid_range), "segv", "wedged"
    ranges,    \* ranges[], range_count
    args,      \* arguments registered so far
    x, pc, ccr,\* the guest's registers
    blocked,   \* SIGSEGV is blocked in this thread
    ran,       \* instructions of the program executed
    request    \* the last mailbox request, and what came of the access

mmioVars == <<job, phase, ranges, args, x, pc, ccr, blocked, ran, request>>

NoRequest == [client |-> "none"]

MmioInit ==
    /\ job \in Jobs
    /\ phase = "args" /\ ranges = << >> /\ args = 0
    /\ x = job.x /\ pc = 0 /\ ccr = job.ccr
    /\ blocked = FALSE /\ ran = 0 /\ request = NoRequest

-----------------------------------------------------------------------------
(* sst_mmio_register_range                                                 *)

\* quetz_ipc_attach, quetz_ipc_vcpu_count: the segments called "a" and "b" are
\* well-formed, "wide" has a bad vCPU count, any other name fails to attach.
VcpusOf(name) == CASE name \in {"a", "b"} -> VcpuCount [] name = "wide" -> 0 [] OTHER -> -1

\* Faulty variant: the end is computed by an addition that wraps.
FitsWrapped(s) == s.base <= AbiTop - 1 /\ (s.base + s.size - 1) % AbiTop <= AbiTop - 1

FitsAbi(s) == s.base <= AbiTop - 1 /\ s.size <= AbiTop - 1 /\ s.size - 1 <= AbiTop - 1 - s.base

Overlap(r, old) ==
    \/ r.base >= old.base /\ r.base - old.base < old.size
    \/ old.base >= r.base /\ old.base - r.base < r.size

\* The client is named by the segment: ranges of one segment share it.
RangeRefused(s) ==
    \/ Len(ranges) >= MaxRanges
    \/ s.name = "" \/ s.size = 0 \/ ~FitsAbi(s)
    \/ \E i \in DOMAIN ranges : Overlap(s, ranges[i])
    \/ s.vcpu # 0
    \/ VcpusOf(s.name) <= 0

RegisterRange ==
    LET s == job.specs[args + 1]
    IN  /\ phase = "args" /\ args < Len(job.specs)
        /\ args' = args + 1
        /\ IF RangeRefused(s) THEN phase' = "exit" /\ UNCHANGED ranges
           ELSE /\ ranges' = Append(ranges, [base |-> s.base, size |-> s.size, client |-> s.name])
                /\ UNCHANGED phase
        /\ UNCHANGED <<job, x, pc, ccr, blocked, ran, request>>

\* sst_mmio_apply_reservation: mmap refuses an address inside a page.
ApplyReservation ==
    /\ phase = "args" /\ args = Len(job.specs)
    /\ phase' = IF \A i \in DOMAIN ranges : ranges[i].base % Page = 0 THEN "run" ELSE "exit"
    /\ UNCHANGED <<job, ranges, args, x, pc, ccr, blocked, ran, request>>

-----------------------------------------------------------------------------
(* The instruction decoders.                                               *)

NoDecode == [len |-> 0]

\* decode_ldst, compressed: quadrant q, function f, register r.
DecodeRvc(i) ==
    IF i.q # 0 \/ i.f \notin {2, 3, 6, 7} THEN NoDecode
    ELSE [len |-> 2, store |-> i.f >= 6, size |-> IF i.f % 2 = 0 THEN 4 ELSE 8,
          reg |-> i.r, signed |-> i.f = 2, index |-> 0]

\* decode_ldst, base instructions: opcode and funct3.
DecodeRv(i) ==
    IF (i.op = "load" /\ i.f <= 6) \/ (i.op = "store" /\ i.f <= 3)
      THEN [len |-> 4, store |-> i.op = "store",
            size |-> CASE i.f \in {0, 4} -> 1 [] i.f \in {1, 5} -> 2 [] i.f \in {2, 6} -> 4 [] OTHER -> 8,
            reg |-> i.r, signed |-> i.op = "load" /\ i.f <= 2, index |-> 0]
    ELSE NoDecode

\* m68k_ea_extlen of an operand <<mode, register>>; -1 for what is not handled.
EaExtLen(ea) ==
    CASE ea[1] = 2 -> 0
      [] ea[1] \in {5, 6} -> 2
      [] ea[1] = 7 -> IF ea[2] = 1 THEN 4 ELSE IF ea[2] \in {0, 2, 3} THEN 2 ELSE -1
      [] OTHER -> -1

RegOf(ea) == IF ea[1] = 1 THEN 8 + ea[2] ELSE ea[2]
Immediate == -1

\* m68k_mmio_decode: a MOVE between memory and a register, or of an immediate
\* to memory.  `index' is the offset of an index extension word.
DecodeM68k(i) ==
    LET size     == CASE i.sz = 1 -> 1 [] i.sz = 3 -> 2 [] i.sz = 2 -> 4 [] OTHER -> 0
        imm      == IF size = 4 THEN 4 ELSE 2
        dstIsMem == i.dst[1] >= 2 /\ (i.dst[1] # 7 \/ i.dst[2] <= 1)
        Move(ext, extra, store, reg, indexed) ==
            IF ext < 0 THEN NoDecode
            ELSE [len |-> 2 + extra + ext, store |-> store, size |-> size, reg |-> reg,
                  signed |-> FALSE, index |-> IF indexed THEN 2 + extra ELSE 0]
    IN  IF ~i.move \/ size = 0 \/ (size = 1 /\ 1 \in {i.src[1], i.dst[1]}) THEN NoDecode
        ELSE CASE i.src[1] \in {0, 1} /\ dstIsMem ->
                     Move(EaExtLen(i.dst), 0, TRUE, RegOf(i.src), i.dst[1] = 6)
               [] i.src = <<7, 4>> /\ dstIsMem ->
                     Move(EaExtLen(i.dst), imm, TRUE, Immediate, i.dst[1] = 6)
               [] i.dst[1] \in {0, 1} ->
                     Move(EaExtLen(i.src), 0, FALSE, RegOf(i.dst), i.src[1] = 6 \/ i.src = <<7, 3>>)
               [] OTHER -> NoDecode

Decode(i) ==
    CASE i.set = "rvc" -> DecodeRvc(i) [] i.set = "rv" -> DecodeRv(i) [] i.set = "m68k" -> DecodeM68k(i)

-----------------------------------------------------------------------------
(* sst_mmio_handle_fault                                                   *)

Low(v, size) == v % Values(size)
Negative(v, size) == 2 * Low(v, size) >= Values(size)
SignExtend(v, size, width) == Low(v, size) + (IF Negative(v, size) THEN Values(width) - Values(size) ELSE 0)

\* What a load leaves in its register.
Widen(isa, d, val, old) ==
    IF isa = "riscv" THEN IF d.signed THEN SignExtend(val, d.size, 8) ELSE Low(val, d.size)
    ELSE IF d.reg < 8 THEN old - Low(old, d.size) + Low(val, d.size)
    ELSE IF d.size = 2 THEN SignExtend(val, 2, 4) ELSE Low(val, 4)

\* What a store passes to quetz_ipc_mmio_write: on RISC-V the whole register,
\* of which the mailbox takes `size' bytes.
StoreValue(isa, i, d) ==
    IF isa = "riscv" THEN x[d.reg]
    ELSE IF d.reg = Immediate THEN Low(IF d.size = 4 THEN i.imm ELSE Low(i.imm, 2), d.size)
    ELSE Low(x[d.reg], d.size)

\* m68k_mmio_move_ccr
MoveCcr(value, size, previous) ==
    (previous \cap {"X"}) \cup (IF Low(value, size) = 0 THEN {"Z"} ELSE {})
                          \cup (IF Negative(value, size) THEN {"N"} ELSE {})

\* find_range; NoRange when no aperture holds the address.
NoRange == 0
FindRange(addr) ==
    LET held == {i \in DOMAIN ranges : addr >= ranges[i].base /\ addr - ranges[i].base < ranges[i].size}
    IN  IF held = {} THEN NoRange ELSE CHOOSE i \in held : \A j \in held : i <= j

\* get_user: a RISC-V instruction is read as four bytes, also a compressed one;
\* of an m68k one the opcode, the index word and an immediate.
TextRead(isa, d) ==
    IF isa = "riscv" THEN {4}
    ELSE {2} \cup (IF d.index # 0 THEN {d.index + 2} ELSE {})
             \cup (IF d.reg = Immediate THEN {IF d.size = 4 THEN 6 ELSE 4} ELSE {})

\* Faulty variant: the access may reach past the end of the aperture.
ServesNoEnd(a, fault) ==
    LET r == FindRange(fault)
        d == Decode(a.insn)
    IN  /\ a.from = "insn"
        /\ r # NoRange
        /\ job.cpu < VcpusOf(ranges[r].client)
        /\ d.len # 0 /\ d.store = a.write
        /\ ~(d.index # 0 /\ a.insn.full)
        /\ \A n \in TextRead(job.isa, d) : n <= a.text

\* The early returns of the handler: the guest gets its fault unless all hold.
\* The caller asks it only about data accesses of the translation buffer, and
\* cpu_restore_state finds the guest's state only for translated instructions.
Serves(a, fault) ==
    LET r == FindRange(fault)
        d == Decode(a.insn)
    IN  /\ a.from \notin {"fetch", "helper"}
        /\ r # NoRange
        /\ job.cpu < VcpusOf(ranges[r].client)
        /\ a.from = "insn"
        /\ d.len # 0 /\ d.store = a.write
        /\ d.size <= ranges[r].size - (fault - ranges[r].base)
        /\ ~(d.index # 0 /\ a.insn.full)
        /\ \A n \in TextRead(job.isa, d) : n <= a.text

\* sst_mmio_resume: whether SIGSEGV is blocked in the thread that continues.
Resume(before, inHandler) == before

\* The bytes of an access that lie in reserved pages: mmap rounds to pages.
PageUp(n) == ((n + Page - 1) \div Page) * Page
Reserved(b) == \E i \in DOMAIN ranges : b >= ranges[i].base /\ b < ranges[i].base + PageUp(ranges[i].size)
Touched(a) == {b \in a.lo..a.lo + a.bytes - 1 : Reserved(b)}

\* The host reports the first byte that it may not touch.
FaultAddress(a) == CHOOSE b \in Touched(a) : \A c \in Touched(a) : b <= c

Access1 == job.prog[ran + 1]
Running == phase = "run" /\ ran < Len(job.prog)

HandleFault ==
    LET a     == Access1
        fault == FaultAddress(a)
        d     == Decode(a.insn)
        r     == ranges[FindRange(fault)]
        val   == IF d.store THEN StoreValue(job.isa, a.insn, d) ELSE job.answer
    IN  /\ Running /\ Touched(a) # {} /\ ~blocked /\ Serves(a, fault)
        /\ request' = [client |-> r.client, vcpu |-> job.cpu, addr |-> fault, size |-> d.size,
                       write |-> d.store, value |-> val]
        /\ x' = IF d.store \/ (job.isa = "riscv" /\ d.reg = 0) THEN x
                ELSE [x EXCEPT ![d.reg] = Widen(job.isa, d, val, @)]
        /\ ccr' = IF job.isa = "m68k" /\ (d.store \/ d.reg < 8) THEN MoveCcr(val, d.size, ccr) ELSE ccr
        /\ pc' = pc + d.len
        /\ blocked' = Resume(blocked, TRUE)
        /\ ran' = ran + 1
        /\ UNCHANGED <<job, phase, ranges, args>>

\* The handler returns and the guest's segmentation fault is delivered.  With
\* SIGSEGV blocked there is no handler, and the host ends the process.
DeliverFault ==
    /\ Running /\ Touched(Access1) # {}
    /\ blocked \/ ~Serves(Access1, FaultAddress(Access1))
    /\ phase' = IF blocked THEN "wedged" ELSE "segv"
    /\ UNCHANGED <<job, ranges, args, x, pc, ccr, blocked, ran, request>>

MmioNext == RegisterRange \/ ApplyReservation \/ HandleFault \/ DeliverFault

MmioSpec == MmioInit /\ [][MmioNext]_mmioVars

-----------------------------------------------------------------------------
(* What the instruction sets say of the same instructions.                 *)

\* m68k operands: whether one is in memory, its extension words.
InMemory(ea) == ea[1] \in 2..6 \/ (ea[1] = 7 /\ ea[2] < 4)
Words(ea, size) ==
    CASE ea[1] \in {5, 6} -> 1
      [] ea[1] = 7 -> IF ea[2] = 1 \/ (ea[2] = 4 /\ size = 4) THEN 2 ELSE 1
      [] OTHER -> 0

IsaSize(i) ==
    CASE i.set = "m68k" -> IF i.sz = 0 THEN 0 ELSE <<1, 4, 2>>[i.sz]
      [] OTHER -> <<1, 2, 4, 8>>[(i.f % 4) + 1]

\* The loads and stores of integer registers, and the MOVEs with one operand
\* in memory that change no address register on the way and whose length does
\* not depend on an extension word.
Supported(i) ==
    CASE i.set = "rv"   -> (i.op = "load" /\ i.f <= 6) \/ (i.op = "store" /\ i.f <= 3)
      [] i.set = "rvc"  -> i.q = 0 /\ i.f % 4 \in {2, 3}
      [] i.set = "m68k" ->
            LET mem == {ea \in {i.src, i.dst} : InMemory(ea)}
            IN  /\ i.move /\ i.sz # 0
                /\ InMemory(i.src) # InMemory(i.dst)
                /\ i.dst[1] = 7 => i.dst[2] <= 1
                /\ i.src[1] = 7 => i.src[2] <= 4
                /\ IsaSize(i) = 1 => 1 \notin {i.src[1], i.dst[1]}
                /\ \A ea \in mem : ea[1] \notin {3, 4} /\ (ea[1] = 6 \/ ea = <<7, 3>> => ~i.full)

IsaStores(i) ==
    CASE i.set = "rv" -> i.op = "store" [] i.set = "rvc" -> i.f >= 4 [] OTHER -> InMemory(i.dst)

IsaLength(i) ==
    CASE i.set = "rv" -> 4 [] i.set = "rvc" -> 2
      [] OTHER -> 2 + 2 * (Words(i.src, IsaSize(i)) + Words(i.dst, IsaSize(i)))

Signed(v, size) ==
    LET u == v % Values(size) IN IF 2 * u >= Values(size) THEN u - Values(size) ELSE u

\* The registers after a load of `v', and the value that a store stores.
IsaLoads(i, old, v) ==
    LET s == IsaSize(i)
    IN  CASE i.set = "m68k" ->
               IF i.dst[1] = 1 THEN [old EXCEPT ![8 + i.dst[2]] = Signed(v, s) % Values(4)]
               ELSE [old EXCEPT ![i.dst[2]] = Values(s) * (@ \div Values(s)) + (v % Values(s))]
          [] OTHER -> [r \in RegNames |->
               IF r # i.r \/ r = 0 THEN old[r]
               ELSE IF i.set = "rv" /\ i.f > 3 THEN v % Values(s) ELSE Signed(v, s) % Values(8)]

IsaStored(i, old) ==
    (IF i.set # "m68k" THEN old[i.r]
     ELSE IF i.src = <<7, 4>> THEN i.imm
     ELSE old[(IF i.src[1] = 1 THEN 8 ELSE 0) + i.src[2]]) % Values(IsaSize(i))

\* MOVE sets N and Z, clears V and C and keeps X; MOVEA changes no flag.
IsaFlags(i, old, v) ==
    IF i.set # "m68k" \/ i.dst[1] = 1 THEN old
    ELSE {f \in {"X", "N", "Z"} : CASE f = "X" -> "X" \in old
                                    [] f = "N" -> Signed(v, IsaSize(i)) < 0
                                    [] f = "Z" -> v % Values(IsaSize(i)) = 0}

\* A data access of a supported instruction is the one the instruction makes,
\* and the processor has read the whole instruction.
ASSUME GuestAssumption ==
    \A j \in Jobs :
       /\ j.prog \in Seq(Accesses1)
       /\ \A n \in DOMAIN j.prog :
             LET a == j.prog[n]
             IN  /\ (j.isa = "m68k") <=> (a.insn.set = "m68k")
                 /\ Supported(a.insn) => a.bytes = IsaSize(a.insn)
                 /\ Supported(a.insn) /\ a.from = "insn" =>
                       a.write = IsaStores(a.insn) /\ a.text >= IsaLength(a.insn)

Bytes1(r) == r.base..r.base + r.size - 1
AccessBytes(a) == a.lo..a.lo + a.bytes - 1

\* A serviced access leaves the registers, the flags and the program counter
\* as the instruction would have, and makes one request, on this vCPU's
\* mailbox of the segment behind the aperture, for the bytes that the
\* instruction addressed; the one exception is an access that begins below the
\* aperture.
ServicedLikeIsa ==
    LET a == Access1
        i == a.insn
        moved == IF IsaStores(i) THEN IsaStored(i, x) ELSE job.answer
    IN  ran' # ran =>
          /\ Supported(i) /\ a.from = "insn" /\ a.write = IsaStores(i)
          /\ pc' = pc + IsaLength(i)
          /\ x' = IF IsaStores(i) THEN x ELSE IsaLoads(i, x, job.answer)
          /\ ccr' = IsaFlags(i, ccr, moved)
          /\ request'.write = a.write /\ request'.vcpu = job.cpu /\ request'.size = a.bytes
          /\ request'.value % Values(a.bytes) = moved % Values(a.bytes)
          /\ \E k \in DOMAIN ranges :
                /\ request'.client = ranges[k].client
                /\ request'.addr..request'.addr + a.bytes - 1 \subseteq Bytes1(ranges[k])
                /\ request'.addr = a.lo \/ (a.lo < ranges[k].base /\ request'.addr = ranges[k].base)

\* When an access is left to the guest nothing has changed, and it was not one
\* of a supported instruction that lies within an aperture; but for a compressed
\* instruction in the last two bytes before an unreadable page, since the
\* handler reads four.
LeftUnchanged ==
    phase = "run" /\ phase' # "run" =>
      /\ phase' = "segv"
      /\ UNCHANGED <<x, pc, ccr, request>>
      /\ Supported(Access1.insn) /\ Access1.from = "insn" /\ job.cpu < VcpuCount =>
            \A k \in DOMAIN ranges : AccessBytes(Access1) \subseteq Bytes1(ranges[k])
                => Access1.insn.set = "rvc" /\ Access1.text < 4

\* A faulting access is serviced as the instruction set says, or left to the
\* guest as it was; and no later access finds the signal blocked
\* (sst_mmio_handle_fault, sst_mmio_resume).
ActsLikeIsa == [][ServicedLikeIsa /\ LeftUnchanged]_mmioVars

\* The apertures lie in the guest's address space and are disjoint, each has an
\* attached segment, and a guest runs only if no byte of another aperture lies
\* in the pages that one reserves (sst_mmio_register_range,
\* sst_mmio_apply_reservation).
RangesSound ==
    /\ Len(ranges) <= MaxRanges
    /\ \A k \in DOMAIN ranges :
          /\ ranges[k].size > 0 /\ Bytes1(ranges[k]) \subseteq 0..AbiTop - 1
          /\ VcpusOf(ranges[k].client) > 0
          /\ \A l \in DOMAIN ranges : k # l =>
                /\ Bytes1(ranges[k]) \cap Bytes1(ranges[l]) = {}
                /\ phase = "run" => ~\E b \in Bytes1(ranges[l]) :
                      b \in ranges[k].base..ranges[k].base + PageUp(ranges[k].size) - 1
=============================================================================
