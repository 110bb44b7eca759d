---------------------------- MODULE WindowCache ----------------------------
(***************************************************************************)
(* The private data cache of one vCPU over an SST memory window            *)
(* (WindowDataCache).                                                      *)
(*                                                                         *)
(* A transaction is started by access, movec or push, and driven by next,  *)
(* which names one backing read or write at a time, and complete, which    *)
(* takes its response.  Data is kept per word, LineWords words to a line,  *)
(* so that partial writes and accesses that cross a line exist.  The       *)
(* address matching of an ACR is abstracted to the set of lines it covers. *)
(*                                                                         *)
(* The backing store applies a request when its response is delivered.     *)
(* `arch' is what the program wrote last, whatever the cache did with it;   *)
(* it is kept as long as the program keeps the cache discipline.           *)
(***************************************************************************)
EXTENDS Naturals, FiniteSets

CONSTANTS
    NumLines,    \* lines of the window
    LineWords,   \* words per line (LineBytes)
    Sets,        \* sets of the cache
    Ways,        \* ways per set
    Controls,    \* CACR values the guest writes: records of its data bits
    NumAcrs,     \* data ACRs (2 in the hardware modelled by the code)
    Matches,     \* ACR values the guest writes
    MaxWrites    \* bound on the write accesses of a behaviour

Word  == 0..(NumLines * LineWords - 1)
LineNo == 0..(NumLines - 1)
Slot  == (0..(Sets - 1)) \X (0..(Ways - 1))
Half  == Ways \div 2
MaxCount == LineWords

\* Contents of a word: zero at first, then a fresh value for each word written.
Values == 0..(MaxWrites * MaxCount)

Off == [dec |-> FALSE, ddpi |-> FALSE, dhlck |-> FALSE, mode |-> 0]
NoMatch == [on |-> FALSE, covers |-> {}, mode |-> 0]

ASSUME GeometryAssumption ==
    /\ NumLines \in Nat \ {0} /\ LineWords \in Nat \ {0}
    /\ Sets \in Nat \ {0} /\ Ways \in Nat \ {0}
ASSUME ControlAssumption ==
    /\ Controls \subseteq [dec : BOOLEAN, ddpi : BOOLEAN, dhlck : BOOLEAN, mode : 0..3]
    /\ Matches \subseteq [on : BOOLEAN, covers : SUBSET LineNo, mode : 0..3]
    /\ MaxWrites \in Nat /\ NumAcrs \in Nat

Zero == 0

VARIABLES
    lines,       \* lines_: [valid, dirty, line, bytes] per slot
    cacr,        \* cacr_
    acr,         \* acr_, the data ACRs
    replacement, \* replacement_
    active,      \* active_
    pending,     \* pending_: kind of the outstanding backing request
    slot,        \* pending_slot_
    txn,         \* [write, address, count, offset] of the access
    bytes,       \* bytes_: data of the access
    pushing,     \* pushing_
    clears,      \* invalidate_push_
    mem,         \* backing store (external)
    careful,     \* the program has kept the cache discipline so far (history)
    arch,        \* what it wrote last to each word, while careful (history)
    writes       \* write accesses so far (bound)

control == <<cacr, acr>>
ghost == <<careful, arch, writes>>
job  == <<active, pending, slot, txn, bytes, pushing, clears>>
vars == <<lines, control, replacement, job, mem, ghost>>

\* An invalid line: its address and bytes are never looked at again.
NoLine == [valid |-> FALSE, dirty |-> FALSE, line |-> 0,
           bytes |-> [k \in 0..(LineWords - 1) |-> Zero]]
NoTxn  == [write |-> FALSE, address |-> 0, count |-> 0, offset |-> 0]
NoBytes == [k \in 0..(MaxCount - 1) |-> Zero]

Init ==
    /\ lines = [s \in Slot |-> NoLine]
    /\ cacr = Off
    /\ acr = [i \in 1..NumAcrs |-> NoMatch]
    /\ replacement = 0
    /\ active = FALSE
    /\ pending = "none"
    /\ slot = <<0, 0>>
    /\ txn = NoTxn
    /\ bytes = NoBytes
    /\ pushing = FALSE
    /\ clears = FALSE
    /\ mem = [w \in Word |-> Zero]
    /\ careful = TRUE
    /\ arch = mem
    /\ writes = 0

-----------------------------------------------------------------------------
(* Pure helpers of the class.                                              *)

setIndex(l) == l % Sets

\* The cache mode of a line: 0 write-through, 1 copyback, 2 and 3 inhibited.
modeOf(c, a, l) ==
    IF ~c.dec THEN 2
    ELSE LET hits == {i \in 1..NumAcrs : a[i].on /\ l \in a[i].covers}
         IN  IF hits = {} THEN c.mode
             ELSE a[CHOOSE i \in hits : \A j \in hits : i <= j].mode

mode(l) == modeOf(cacr, acr, l)

Holds(l) == {s \in Slot : s[1] = setIndex(l) /\ lines[s].valid /\ lines[s].line = l}

\* The first way that holds the line.
find(l) == CHOOSE s \in Holds(l) : \A t \in Holds(l) : s[2] <= t[2]

\* Faulty variant of victim: the lock is forgotten once every way is valid.
victimUnlocked(set) ==
    LET first == IF cacr.dhlck THEN Half ELSE 0
        free  == {w \in first..(Ways - 1) : ~lines[<<set, w>>].valid}
    IN  <<set, IF free # {} THEN CHOOSE w \in free : \A x \in free : w <= x ELSE replacement>>

\* The lowest invalid way that is not locked, or the round-robin one.
victim(set) ==
    LET first == IF cacr.dhlck THEN Half ELSE 0
        free  == {w \in first..(Ways - 1) : ~lines[<<set, w>>].valid}
    IN  <<set, IF free # {} THEN CHOOSE w \in free : \A x \in free : w <= x
               ELSE IF cacr.dhlck THEN Half + (replacement \div 2)
               ELSE replacement>>

WordOf(l, k) == l * LineWords + k
LineOf(w)    == w \div LineWords

\* The chunk of the access that next works on.
Here  == txn.address + txn.offset
Line  == LineOf(Here)
In    == Here % LineWords
Chunk == IF txn.count - txn.offset < LineWords - In
           THEN txn.count - txn.offset ELSE LineWords - In

\* bytes with the chunk's words taken from line data b.
Taken(b) ==
    [k \in DOMAIN bytes |->
        IF k >= txn.offset /\ k < txn.offset + Chunk THEN b[In + k - txn.offset] ELSE bytes[k]]

\* Line data b with the chunk's words taken from bytes.
Stored(b) ==
    [k \in DOMAIN b |->
        IF k >= In /\ k < In + Chunk THEN bytes[txn.offset + k - In] ELSE b[k]]

Fresh(k) == writes * MaxCount + k + 1

LineIn(m, l) == [k \in 0..(LineWords - 1) |-> m[WordOf(l, k)]]

\* Memory m with line l set to b.
LineOut(m, l, b) ==
    [w \in Word |-> IF LineOf(w) = l THEN b[w % LineWords] ELSE m[w]]

AnyDirty == \E s \in Slot : lines[s].valid /\ lines[s].dirty

\* What the program must respect for the cache to be invisible: a cached line
\* is used only in a cacheable mode, a dirty one only in copyback mode, and
\* invalidating everything waits until nothing is dirty.
MayAccess(l) ==
    \A s \in Holds(l) : mode(l) < 2 /\ (lines[s].dirty => mode(l) = 1)

-----------------------------------------------------------------------------
(* Starting a transaction.                                                 *)

start ==
    /\ ~active
    /\ active' = TRUE
    /\ pending' = "none"

access(w, n, wr, data) ==
    /\ w + n - 1 \in Word
    /\ wr => writes < MaxWrites
    /\ start
    /\ pushing' = FALSE
    /\ txn' = [write |-> wr, address |-> w, count |-> n, offset |-> 0]
    /\ bytes' = IF wr THEN [k \in 0..(MaxCount - 1) |-> IF k < n THEN data[k] ELSE Zero] ELSE NoBytes
    /\ careful' = (careful /\ MayAccess(LineOf(w)) /\ MayAccess(LineOf(w + n - 1)))
    /\ writes' = IF ~careful' THEN MaxWrites ELSE IF wr THEN writes + 1 ELSE writes
    /\ arch' = [x \in Word |-> IF ~careful' THEN Zero
                               ELSE IF wr /\ x >= w /\ x < w + n THEN data[x - w] ELSE arch[x]]
    /\ UNCHANGED <<lines, control, replacement, slot, clears, mem>>

\* movec to CACR; the invalidate bit discards every line and is not kept.
movecCacr(c, inval) ==
    /\ start
    /\ pushing' = FALSE
    /\ txn' = NoTxn
    /\ lines' = IF inval
                  THEN [s \in Slot |-> NoLine]
                  ELSE lines
    /\ careful' = (careful /\ (inval => ~AnyDirty))
    /\ arch' = [w \in Word |-> IF careful' THEN arch[w] ELSE Zero]
    /\ cacr' = c
    /\ UNCHANGED <<acr, replacement, slot, bytes, clears, mem, writes>>

movecAcr(i, m) ==
    /\ start
    /\ pushing' = FALSE
    /\ txn' = NoTxn
    /\ acr' = [acr EXCEPT ![i] = m]
    /\ UNCHANGED <<lines, cacr, replacement, slot, bytes, clears, mem, ghost>>

\* CPUSHL of the data cache names a set and a way.
push(s) ==
    /\ start
    /\ pushing' = TRUE
    /\ txn' = NoTxn
    /\ clears' = ~cacr.ddpi
    /\ slot' = s
    /\ UNCHANGED <<lines, control, replacement, bytes, mem, ghost>>

\* CPU reset: controls go, contents stay.
reset ==
    /\ ~active
    /\ cacr' = Off
    /\ acr' = [i \in 1..NumAcrs |-> NoMatch]
    /\ UNCHANGED <<lines, replacement, job, mem, ghost>>

-----------------------------------------------------------------------------
(* next: one pass of its loop.  A finished push falls through to Done.     *)

InNext == active /\ pending = "none"
More   == InNext /\ ~pushing /\ txn.offset < txn.count

\* Faulty variant of Hit: only the first way is searched.
HitFirstWay == <<setIndex(Line), 0>> \in Holds(Line)

Hit == Holds(Line) # {}

\* Cache-inhibited, or a write-through miss: the backing store is used.
Bypass == mode(Line) >= 2 \/ (txn.write /\ mode(Line) = 0 /\ ~Hit)

nextPush ==
    /\ InNext /\ pushing
    /\ IF lines[slot].valid /\ lines[slot].dirty
         THEN /\ pending' = "push"
              /\ UNCHANGED <<lines, pushing>>
         ELSE /\ lines' = IF clears THEN [lines EXCEPT ![slot] = NoLine] ELSE lines
              /\ pushing' = FALSE
              /\ UNCHANGED pending
    /\ UNCHANGED <<control, replacement, active, slot, txn, bytes, clears, mem, ghost>>

nextBypass ==
    /\ More /\ Bypass
    /\ pending' = IF txn.write THEN "bypassWrite" ELSE "bypassRead"
    /\ UNCHANGED <<lines, control, replacement, active, slot, txn, bytes, pushing, clears,
                   mem, ghost>>

\* A miss evicts a dirty victim first and fills afterwards.
nextMiss ==
    /\ More /\ ~Bypass /\ ~Hit
    /\ slot' = victim(setIndex(Line))
    /\ pending' = IF lines[slot'].valid /\ lines[slot'].dirty THEN "evict" ELSE "fill"
    /\ UNCHANGED <<lines, control, replacement, active, txn, bytes, pushing, clears, mem, ghost>>

nextReadHit ==
    /\ More /\ ~Bypass /\ Hit /\ ~txn.write
    /\ bytes' = Taken(lines[find(Line)].bytes)
    /\ txn' = [txn EXCEPT !.offset = @ + Chunk]
    /\ UNCHANGED <<lines, control, replacement, active, pending, slot, pushing, clears, mem, ghost>>

\* Faulty variant of nextWriteHit: a copyback hit leaves the line clean.
nextWriteHitClean ==
    /\ More /\ ~Bypass /\ Hit /\ txn.write
    /\ lines' = [lines EXCEPT ![find(Line)].bytes = Stored(@)]
    /\ IF mode(Line) = 0
         THEN /\ pending' = "writeThrough"
              /\ slot' = find(Line)
              /\ UNCHANGED txn
         ELSE /\ txn' = [txn EXCEPT !.offset = @ + Chunk]
              /\ UNCHANGED <<pending, slot>>
    /\ UNCHANGED <<control, replacement, active, bytes, pushing, clears, mem, ghost>>

nextWriteHit ==
    /\ More /\ ~Bypass /\ Hit /\ txn.write
    /\ IF mode(Line) = 0
         THEN /\ lines' = [lines EXCEPT ![find(Line)].bytes = Stored(@)]
              /\ pending' = "writeThrough"
              /\ slot' = find(Line)
              /\ UNCHANGED txn
         ELSE /\ lines' = [lines EXCEPT ![find(Line)].bytes = Stored(@),
                                        ![find(Line)].dirty = TRUE]
              /\ txn' = [txn EXCEPT !.offset = @ + Chunk]
              /\ UNCHANGED <<pending, slot>>
    /\ UNCHANGED <<control, replacement, active, bytes, pushing, clears, mem, ghost>>

\* Kind::Done: the response is posted to the mailbox.  What the transaction
\* leaves in its variables is dead: start sets it anew.
nextDone ==
    /\ InNext /\ ~pushing /\ txn.offset = txn.count
    /\ active' = FALSE
    /\ slot' = <<0, 0>> /\ txn' = NoTxn /\ bytes' = NoBytes /\ clears' = FALSE
    /\ UNCHANGED <<lines, control, replacement, pending, pushing, mem, ghost>>

-----------------------------------------------------------------------------
(* The backing store answers, and complete takes the response.             *)

\* Faulty variants: a bypassed read does not advance; the evicted line never
\* reaches memory.
completeBypassReadStuck ==
    /\ active /\ pending = "bypassRead"
    /\ bytes' = Taken(LineIn(mem, Line))
    /\ pending' = "none"
    /\ UNCHANGED <<lines, control, replacement, active, slot, txn, pushing, clears, mem, ghost>>

completeEvictDropped ==
    /\ active /\ pending = "evict"
    /\ lines' = [lines EXCEPT ![slot] = NoLine]
    /\ pending' = "none"
    /\ UNCHANGED <<control, replacement, active, slot, txn, bytes, pushing, clears, mem, ghost>>

completeFill ==
    /\ active /\ pending = "fill"
    /\ lines' = [lines EXCEPT ![slot] =
                    [valid |-> TRUE, dirty |-> FALSE, line |-> Line, bytes |-> LineIn(mem, Line)]]
    /\ replacement' = (replacement + 1) % Ways
    /\ pending' = "none"
    /\ UNCHANGED <<control, active, slot, txn, bytes, pushing, clears, mem, ghost>>

completeBypassRead ==
    /\ active /\ pending = "bypassRead"
    /\ bytes' = Taken(LineIn(mem, Line))
    /\ txn' = [txn EXCEPT !.offset = @ + Chunk]
    /\ pending' = "none"
    /\ UNCHANGED <<lines, control, replacement, active, slot, pushing, clears, mem, ghost>>

\* The line goes out; it stays valid only if the push does not invalidate.
completePush ==
    /\ active /\ pending = "push"
    /\ mem' = LineOut(mem, lines[slot].line, lines[slot].bytes)
    /\ lines' = [lines EXCEPT ![slot] = IF clears THEN NoLine ELSE [@ EXCEPT !.dirty = FALSE]]
    /\ pushing' = FALSE
    /\ pending' = "none"
    /\ UNCHANGED <<control, replacement, active, slot, txn, bytes, clears, ghost>>

completeEvict ==
    /\ active /\ pending = "evict"
    /\ mem' = LineOut(mem, lines[slot].line, lines[slot].bytes)
    /\ lines' = [lines EXCEPT ![slot] = NoLine]
    /\ pending' = "none"
    /\ UNCHANGED <<control, replacement, active, slot, txn, bytes, pushing, clears, ghost>>

\* A bypassed or written-through chunk reaches memory.
completeWrite ==
    /\ active /\ pending \in {"bypassWrite", "writeThrough"}
    /\ mem' = LineOut(mem, Line, Stored(LineIn(mem, Line)))
    /\ lines' = IF pending = "writeThrough" THEN [lines EXCEPT ![slot].dirty = FALSE] ELSE lines
    /\ txn' = [txn EXCEPT !.offset = @ + Chunk]
    /\ pending' = "none"
    /\ UNCHANGED <<control, replacement, active, slot, bytes, pushing, clears, ghost>>

-----------------------------------------------------------------------------
Start ==
    \/ \E w \in Word, n \in 1..MaxCount :
          \/ access(w, n, FALSE, bytes)
          \/ access(w, n, TRUE, [k \in 0..(n - 1) |-> Fresh(k)])
    \/ \E c \in Controls, inval \in BOOLEAN : movecCacr(c, inval)
    \/ \E i \in 1..NumAcrs, m \in Matches : movecAcr(i, m)
    \/ \E s \in Slot : push(s)
    \/ reset

Drive ==
    \/ nextPush \/ nextBypass \/ nextMiss \/ nextReadHit \/ nextWriteHit \/ nextDone
    \/ completeFill \/ completeBypassRead \/ completePush \/ completeEvict \/ completeWrite

Next == Start \/ Drive

Spec == Init /\ [][Next]_vars

-----------------------------------------------------------------------------
\* An entry of the cache.
Entry == [valid : BOOLEAN, dirty : BOOLEAN, line : LineNo, bytes : [0..(LineWords - 1) -> Values]]

\* Types; and a line is cached in at most one way, of its own set, so that find
\* is unambiguous.
TypeOK ==
    /\ lines \in [Slot -> Entry]
    /\ cacr \in Controls \cup {Off}
    /\ acr \in [1..NumAcrs -> Matches \cup {NoMatch}]
    /\ replacement \in 0..(Ways - 1)
    /\ active \in BOOLEAN /\ pushing \in BOOLEAN /\ clears \in BOOLEAN
    /\ pending \in {"none", "fill", "bypassRead", "bypassWrite", "writeThrough", "push", "evict"}
    /\ slot \in Slot
    /\ txn \in [write : BOOLEAN, address : Word, count : 0..MaxCount, offset : 0..MaxCount]
    /\ bytes \in [0..(MaxCount - 1) -> Values]
    /\ mem \in [Word -> Values]
    /\ careful \in BOOLEAN /\ arch \in [Word -> Values]
    /\ writes \in 0..MaxWrites
    /\ \A s, t \in Slot :
          lines[s].valid => /\ s[1] = setIndex(lines[s].line)
                            /\ lines[t].valid /\ lines[s].line = lines[t].line => s = t

\* To a program that keeps the discipline the cache is invisible: a read
\* gathers exactly what the program wrote last, across fills, evictions,
\* pushes, control changes and resets.
ReadsLatest ==
    careful /\ active /\ ~txn.write
        => \A k \in 0..(MaxCount - 1) : k < txn.offset => bytes[k] = arch[txn.address + k]

\* Between transactions nothing the program wrote is missing: each word is in
\* the cache or in memory, and a clean line is what memory holds.
NothingMissing ==
    careful /\ ~active =>
        \A w \in Word :
            IF Holds(LineOf(w)) = {} THEN mem[w] = arch[w]
            ELSE LET b == lines[find(LineOf(w))]
                 IN  /\ b.bytes[w % LineWords] = arch[w]
                     /\ b.dirty \/ mem[w] = arch[w]

\* While the half-lock bit is set, the locked ways neither lose a line nor take
\* one, at once or by an eviction and a later fill: a line leaves them only when
\* the program pushes that very way, or by an invalidating movec, which starts
\* between transactions.
LockedStay ==
    [][\A s \in Slot :
          cacr.dhlck /\ s[2] < Half =>
              \/ lines'[s].valid = lines[s].valid /\ lines'[s].line = lines[s].line
              \/ ~lines'[s].valid /\ (~active \/ (pushing /\ slot = s))]_vars

\* What a transaction has still to do: the words left, and for the next chunk
\* how far it is from being transferred.
Stage ==
    CASE pending = "evict" -> 6
      [] pending = "fill" -> 4
      [] pending \in {"bypassRead", "bypassWrite", "writeThrough"} -> 2
      [] OTHER -> IF txn.offset = txn.count THEN 0
                  ELSE IF Bypass \/ Hit THEN 3
                  ELSE IF lines[victim(setIndex(Line))].dirty THEN 7 ELSE 5

Left ==
    IF ~active THEN 0
    ELSE IF pushing THEN IF pending = "none" THEN 3 ELSE 2
    ELSE 1 + 8 * (txn.count - txn.offset) + Stage

\* Every step of a transaction brings it nearer its end, whatever the modes,
\* the locks and the victims: the loop of next neither spins nor goes back, and
\* the vCPU blocked on it gets its response.
TransactionShrinks == [][active => Left' < Left]_vars
=============================================================================
