---------------------------- MODULE StreamToSink ----------------------------
(***************************************************************************)
(* A paced stream device, an interrupt-driven guest that drains it and     *)
(* pushes what it reads to a sink device, and the refill clock.            *)
(*                                                                         *)
(* The guest is the drain loop of the ColdFire firmware: it reads STATUS,  *)
(* pops a word when bytes are ready, and otherwise, unless the stream is   *)
(* consumed, rearms the interrupt source and stops until the line is up.   *)
(* It takes whatever a pop returns: a pop made while fewer bytes are ready *)
(* than make up a word returns a word of zeros, and the guest cannot tell  *)
(* it from data.  Every register access is a step of its own.  Between two of them it may *)
(* acknowledge the interrupt early, flush the sink, or start over: rewind  *)
(* the stream and truncate the sink.                                       *)
(***************************************************************************)
EXTENDS StreamDevice, SinkDevice

CONSTANT
    MaxEarly    \* bound on the pops of a behaviour that come too early

ASSUME MaxEarlyAssumption == MaxEarly \in Nat

VARIABLES
    pc,      \* next access of the guest
    word,    \* the word it has popped
    early    \* pops that came too early

guestVars == <<pc, word, early>>
allVars   == <<streamVars, sinkVars, guestVars>>

GuestInit == pc = "status" /\ word = <<>> /\ early = 0

\* A register read: the devices keep their state.
Look(from, to) ==
    /\ pc = from /\ pc' = to
    /\ UNCHANGED <<streamVars, sinkVars, word, early>>

ReadStatus == Look("status", IF STATUS = 0 THEN "eos" ELSE "data")

ReadEos == Look("eos", IF EOS THEN "finish" ELSE "rearm")

\* cf_intc_rearm_drained: wait until the line is down at the interrupt
\* controller, unless the device says that it is up again.
Rearm ==
    /\ ~level \/ IRQ_ACK
    /\ Look("rearm", "wait")

\* cf_wait_until: look at STATUS once more before stopping.
Recheck == Look("wait", IF STATUS = 0 THEN "stop" ELSE "status")

Wake == level /\ Look("stop", "status")

\* The pop, taken whatever it returns.  Past the bound the guest's next pop is
\* one that finds a whole word.
PopWord ==
    /\ pc = "data" /\ pc' = "push"
    /\ Ready \/ early < MaxEarly
    /\ early' = IF Ready THEN early ELSE early + 1
    /\ word' = DATA
    /\ ReadData
    /\ UNCHANGED sinkVars

PushWord ==
    /\ pc = "push" /\ pc' = "status"
    /\ Push(word)
    /\ word' = <<>>
    /\ UNCHANGED <<streamVars, early>>

AckEarly ==
    /\ pc = "status" /\ WriteAck
    /\ UNCHANGED <<sinkVars, guestVars>>

FlushSink ==
    /\ pc = "status" /\ FlushFile
    /\ UNCHANGED <<streamVars, guestVars>>

StartOver ==
    /\ pc = "status" /\ pc' = "truncate"
    /\ Rewind
    /\ UNCHANGED <<sinkVars, word, early>>

TruncateSink ==
    /\ pc = "truncate" /\ pc' = "status"
    /\ Truncate
    /\ UNCHANGED <<streamVars, word, early>>

\* The guest reports success and the simulation ends.
Stop ==
    /\ pc = "finish" /\ pc' = "done"
    /\ FinishSink
    /\ UNCHANGED <<streamVars, word, early>>

GuestNext ==
    \/ ReadStatus \/ ReadEos \/ Rearm \/ Recheck \/ Wake
    \/ PopWord \/ PushWord \/ AckEarly \/ FlushSink \/ StartOver \/ TruncateSink \/ Stop

LoopInit == StreamInit /\ SinkInit /\ GuestInit

LoopNext ==
    \/ GuestNext
    \/ pc # "done" /\ (TickPace \/ Deliver) /\ UNCHANGED <<sinkVars, guestVars>>

\* The guest runs, the refill clock ticks and link events arrive.
LoopSpec ==
    /\ LoopInit /\ [][LoopNext]_allVars
    /\ WF_allVars(GuestNext)
    /\ WF_allVars(TickPace /\ UNCHANGED <<sinkVars, guestVars>>)
    /\ WF_allVars(Deliver /\ UNCHANGED <<sinkVars, guestVars>>)

-----------------------------------------------------------------------------
\* The stream as the guest pops it: whole words, the last one padded.
Words == PopMax * ((Size + PopMax - 1) \div PopMax)
Padded == [i \in 1..Words |-> IF i <= Size THEN i ELSE 0]

Cut(bytes) ==
    IF MaxBytes = 0 \/ MaxBytes >= Len(bytes) THEN bytes ELSE SubSeq(bytes, 1, MaxBytes)

LastWord(bytes) == SubSeq(bytes, Len(bytes) - PopMax + 1, Len(bytes))

\* The loop ends, over any mix of flushes, rewinds and truncations: no refill's
\* interrupt is lost between the guest's last look at STATUS and its stop.  The
\* file then holds the stream's bytes in order, each once; zeros of early pops
\* may stand between them and use up the cap, but a file the cap did not cut
\* has the whole stream and ends with its last word, where the firmware looks
\* for the checksum.  When the clock releases whole words no pop is early, and
\* the file is the padded stream up to the cap.
Drains ==
    <>(/\ pc = "done"
       /\ LET data == SelectSeq(file, LAMBDA byte : byte # 0)
          IN  /\ data = [i \in 1..Len(data) |-> i]
              /\ MaxBytes = 0 \/ Len(file) < MaxBytes =>
                    Len(data) = Size /\ LastWord(file) = LastWord(Padded)
       /\ pace % PopMax = 0 => file = Cut(Padded))
=============================================================================
