---------------------------- MODULE StreamDevice ----------------------------
(***************************************************************************)
(* QuetzStreamDevice: a file of Size bytes that the guest pops through     *)
(* REG_DATA, paced by a refill clock, with a data-ready interrupt line     *)
(* whose changes travel to the CPU as events on an SST link.               *)
(*                                                                         *)
(* The i-th byte of the file is the number i; 0 is the zero a read is      *)
(* padded with.  Reads of STATUS, SEQ, EOS and IRQ_ACK change nothing and  *)
(* are the operators of those names.  StreamToSink composes the device     *)
(* with its clock, its link, a guest and a sink.                           *)
(***************************************************************************)
EXTENDS Naturals, Sequences

CONSTANTS
    Size,         \* bytes of the stream file
    Paces,        \* pace_bytes looked at; 0 when the whole stream is ready at once
    HasIrq,       \* irq_line >= 0
    MaxRewinds    \* bound on the rewinds of a behaviour

ASSUME SizeAssumption == Size \in Nat \ {0}
ASSUME PaceAssumption == Paces \subseteq Nat
ASSUME IrqAssumption  == HasIrq \in BOOLEAN /\ (HasIrq => 0 \notin Paces)
ASSUME RewindsAssumption == MaxRewinds \in Nat

VARIABLES
    pace,      \* pace_bytes, fixed at construction
    pos,       \* pos_: bytes consumed
    given,     \* budget_given_: bytes the clock has released
    avail,     \* avail_: bytes ready now
    raised,    \* irq_pending_
    link,      \* levels sent to the CPU and not yet handled there
    level,     \* level of the line at the CPU
    rewinds

streamVars == <<pace, pos, given, avail, raised, link, level, rewinds>>

PopMax == 4

StreamInit ==
    /\ pace    \in Paces
    /\ pos     = 0
    /\ given   = IF pace > 0 THEN 0 ELSE Size
    /\ avail   = given
    /\ raised  = FALSE
    /\ link    = <<>>
    /\ level   = FALSE
    /\ rewinds = 0

STATUS  == avail
SEQ     == pos
EOS     == pos >= Size
IRQ_ACK == raised

\* Faulty variants of definitions below.

\* An acknowledgement lowers the line although bytes are left.
LowerAlways(left) ==
    IF ~HasIrq \/ ~raised
    THEN UNCHANGED <<raised, link>>
    ELSE raised' = FALSE /\ link' = Append(link, FALSE)

\* Only the first refill raises the line.
RaiseOnFirst ==
    IF ~HasIrq \/ raised \/ pos > 0
    THEN UNCHANGED <<raised, link>>
    ELSE raised' = TRUE /\ link' = Append(link, TRUE)

\* raiseDataReadyIrq.
RaiseDataReady ==
    IF ~HasIrq \/ raised
    THEN UNCHANGED <<raised, link>>
    ELSE raised' = TRUE /\ link' = Append(link, TRUE)

\* ackIrq, when left bytes are ready.
AckIrq(left) ==
    IF ~HasIrq \/ ~raised \/ left > 0
    THEN UNCHANGED <<raised, link>>
    ELSE raised' = FALSE /\ link' = Append(link, FALSE)

\* tickPace: release the next bytes and raise the line.
TickPace ==
    LET take == IF Size - given > pace THEN pace ELSE Size - given
    IN  /\ pace > 0 /\ given < Size
        /\ given' = given + take
        /\ avail' = avail + take
        /\ RaiseDataReady
        /\ UNCHANGED <<pace, pos, level, rewinds>>

\* A pop is all of the next PopMax bytes, or of the rest of the stream, or
\* nothing.
Want  == IF Size - pos > PopMax THEN PopMax ELSE Size - pos
Ready == ~EOS /\ avail >= Want

\* The value of REG_DATA, byte by byte.
DATA == [i \in 1..PopMax |-> IF Ready /\ i <= Want THEN pos + i ELSE 0]

\* A read of REG_DATA: without a whole pop, it is answered with 0 and consumes
\* nothing; the pop that takes the last ready byte lowers the line.
ReadData ==
    IF Ready
    THEN /\ pos' = pos + Want
         /\ avail' = avail - Want
         /\ AckIrq(avail - Want)
         /\ UNCHANGED <<pace, given, level, rewinds>>
    ELSE UNCHANGED streamVars

\* A write of 1 to REG_CTRL.
Rewound == LET g == IF pace > 0 THEN 0 ELSE Size IN [given |-> g, avail |-> g]

Rewind ==
    /\ rewinds < MaxRewinds
    /\ rewinds' = rewinds + 1
    /\ pos' = 0
    /\ given' = Rewound.given
    /\ avail' = Rewound.avail
    /\ IF Rewound.avail = 0 THEN AckIrq(0) ELSE RaiseDataReady
    /\ UNCHANGED <<pace, level>>

\* A write of anything but 0 to REG_IRQ_ACK.
WriteAck ==
    /\ AckIrq(avail)
    /\ UNCHANGED <<pace, pos, given, avail, level, rewinds>>

\* The CPU handles the oldest event of the link.
Deliver ==
    /\ link # <<>>
    /\ level' = Head(link)
    /\ link' = Tail(link)
    /\ UNCHANGED <<pace, pos, given, avail, raised, rewinds>>

-----------------------------------------------------------------------------
Last(s) == s[Len(s)]

\* STATUS is what the clock has released and the guest has not popped, and
\* data-ready is a level: the line is up exactly while bytes are ready, and the
\* CPU's view of it changes with every event and ends up there.
LineIsLevel ==
    /\ pos <= given /\ given <= Size /\ avail = given - pos
    /\ HasIrq =>
         /\ raised <=> avail > 0
         /\ LET seen == <<level>> \o link
            IN  /\ Last(seen) = raised
                /\ \A i \in 1..Len(seen) - 1 : seen[i] # seen[i + 1]
=============================================================================
