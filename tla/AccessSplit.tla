----------------------------- MODULE AccessSplit ----------------------------
(***************************************************************************)
(* The address arithmetic of quetz_memory_span.h and                       *)
(* quetz_balar_flush_range.h, and the loops that use it: an access issued  *)
(* as requests that stay within a cache line (MemRequestEmitter), and the  *)
(* flush of the lines of a packet (BalarAcceleratorPort).                  *)
(*                                                                         *)
(* Addresses and sizes are machine words of Top values; sums and           *)
(* differences wrap as they do in the code.  The properties compare the    *)
(* result with the same access in the integers, so every input near the    *)
(* top of the address space is tried.  A step sends one request; a window  *)
(* of the emitter is some number of steps.                                 *)
(***************************************************************************)
EXTENDS Integers, Sequences, FiniteSets

CONSTANTS
    Top,        \* 2^64 in the code
    Lines,      \* cache line sizes
    DataCap     \* bytes of a store that the trace carries (64 in the code)

ASSUME TopAssumption       == Top \in Nat \ {0}
ASSUME LineSizesAssumption == Lines \subseteq 0..Top - 1
ASSUME DataCapAssumption   == DataCap \in Nat \ {0}

Word == 0..Top - 1
MaxWord == Top - 1
Wrap(x) == x % Top
Least(a, b) == IF a < b THEN a ELSE b

VARIABLES
    access,     \* the access: its kind, address, size and cache line
    offset,     \* the emitter's cursor
    sent,       \* requests sent: pairs of an address and a length
    status      \* "start", "issue", "done", or "fatal"

splitVars == <<access, offset, sent, status>>

Access == [kind : {"read", "write"}, addr : Word, size : Word, line : Lines \ {0}]
            \cup [kind : {"flush"}, addr : Word, size : Word, line : Lines]

SplitInit ==
    /\ access \in Access
    /\ offset = 0
    /\ sent = <<>>
    /\ status = "start"

-----------------------------------------------------------------------------
\* Faulty variants of definitions below.

\* Chunks as long as a line, wherever they start.
ChunkUnaligned(address, remaining, line, limit) ==
    LET bytes == Least(remaining, limit)
    IN  IF line > 0 THEN Least(bytes, line) ELSE bytes

\* The last line may reach past the end of the address space.
RefusesNoEnd(scratch, bytes, line) == line = 0 \/ bytes > MaxWord - scratch

-----------------------------------------------------------------------------
MemorySpanValid(address, bytes) ==
    bytes = 0 \/ bytes - 1 <= MaxWord - address

MemoryChunkSize(address, remaining, line, limit) ==
    LET bytes == Least(remaining, limit)
    IN  IF line > 0 THEN Least(bytes, line - (address % line)) ELSE bytes

MemorySlots(address, bytes, line) ==
    IF bytes = 0 THEN 0 ELSE 1 + ((address % line) + bytes - 1) \div line

\* computeBalarFlushRange: the first line, the number of lines, and whether
\* the range is refused.
FirstLine(scratch, line) == (scratch \div line) * line

LineCount(scratch, bytes, line) ==
    LET span == Wrap(Wrap(scratch + bytes) - FirstLine(scratch, line))
    IN  IF bytes = 0 THEN 0
        ELSE span \div line + (IF span % line # 0 THEN 1 ELSE 0)

Refuses(scratch, bytes, line) ==
    \/ line = 0
    \/ bytes > MaxWord - scratch
    \/ LET first == FirstLine(scratch, line)
           steps == LineCount(scratch, bytes, line) - 1
       IN  /\ steps >= 0
           /\ \/ steps > (MaxWord - first) \div line
              \/ line > MaxWord - Wrap(first + steps * line)

\* The bytes of the access that are issued: a store's are cut at the payload
\* the trace carries.
IssueSize(a) == IF a.kind = "write" THEN Least(a.size, DataCap) ELSE a.size

\* What issueReadWindow, issueWriteWindow and issueDoorbellFlushes check
\* before they send anything.
Check ==
    /\ status = "start"
    /\ status' =
          CASE access.kind = "flush" ->
                  IF Refuses(access.addr, access.size, access.line) THEN "fatal"
                  ELSE IF access.size = 0 THEN "done" ELSE "issue"
            [] OTHER ->
                  IF access.size = 0 THEN "done"
                  ELSE IF ~MemorySpanValid(access.addr, IssueSize(access)) THEN "fatal"
                  ELSE "issue"
    /\ UNCHANGED <<access, offset, sent>>

\* The loop of issueReadWindow and issueWriteWindow.  Once every captured byte
\* is sent, the cursor moves to the end of the command.
IssueChunk ==
    LET addr  == Wrap(access.addr + offset)
        chunk == MemoryChunkSize(addr, IssueSize(access) - offset, access.line,
                                 IssueSize(access) - offset)
        last  == offset + chunk = IssueSize(access)
    IN  /\ status = "issue" /\ access.kind # "flush"
        /\ sent' = Append(sent, <<addr, chunk>>)
        /\ offset' = IF last THEN access.size ELSE offset + chunk
        /\ status' = IF last THEN "done" ELSE status
        /\ UNCHANGED access

\* The loop of issueDoorbellFlushes; its own overflow check aborts too.
FlushLine ==
    LET i    == Len(sent)
        line == Wrap(FirstLine(access.addr, access.line) + i * access.line)
        more == i + 1 < LineCount(access.addr, access.size, access.line)
    IN  /\ status = "issue" /\ access.kind = "flush"
        /\ sent' = Append(sent, <<line, access.line>>)
        /\ status' = IF ~more THEN "done"
                     ELSE IF line > MaxWord - access.line THEN "fatal" ELSE status
        /\ UNCHANGED <<access, offset>>

SplitNext == Check \/ IssueChunk \/ FlushLine

SplitSpec == SplitInit /\ [][SplitNext]_splitVars

-----------------------------------------------------------------------------
Bytes(r) == r[1]..r[1] + r[2] - 1

Tiled ==
    /\ \A i \in DOMAIN sent :
          /\ sent[i][2] > 0
          /\ sent[i][1] \div access.line = (sent[i][1] + sent[i][2] - 1) \div access.line
          /\ sent[i][1] = IF i = 1 THEN access.addr ELSE sent[i - 1][1] + sent[i - 1][2]
    /\ status = "done" =>
          /\ UNION {Bytes(sent[i]) : i \in DOMAIN sent} = access.addr..access.addr + IssueSize(access) - 1
          /\ Len(sent) = MemorySlots(access.addr, IssueSize(access), access.line)
          /\ offset = access.size

Flushed ==
    LET packet == access.addr..access.addr + access.size - 1
    IN  /\ \A i \in DOMAIN sent :
              /\ sent[i][1] % access.line = 0
              /\ Bytes(sent[i]) \cap packet # {}
              /\ \A j \in DOMAIN sent : i # j => sent[i] # sent[j]
        /\ status = "done" => packet \subseteq UNION {Bytes(sent[i]) : i \in DOMAIN sent}

\* Requests follow each other without gap or overlap from the first byte, none
\* crosses a cache line or wraps around, and a complete access has sent exactly
\* the bytes it was to send, in as many requests as slotsNeeded says.  Each
\* flushed line is an aligned line that holds a byte of the packet, no line is
\* flushed twice, and in the end every byte of the packet is flushed.
Covers == status # "start" => IF access.kind = "flush" THEN Flushed ELSE Tiled

\* An access is refused exactly if it does not fit in the address space, and
\* before any of its requests is sent: for a flush, if the line size is zero
\* or the end of the packet or of its last line is not a machine word.
RefusedExactly ==
    LET a == access
        fits ==
            IF a.kind = "flush"
            THEN /\ a.line > 0
                 /\ a.addr + a.size < Top
                 /\ a.size > 0 => ((a.addr + a.size - 1) \div a.line + 1) * a.line < Top
            ELSE a.addr + IssueSize(a) <= Top
    IN  /\ status \in {"issue", "done"} => fits
        /\ status = "fatal" => ~fits /\ sent = <<>>
=============================================================================
