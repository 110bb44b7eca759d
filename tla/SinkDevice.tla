----------------------------- MODULE SinkDevice -----------------------------
(***************************************************************************)
(* QuetzSinkDevice: bytes the guest pushes through REG_DATA are captured,  *)
(* up to max_bytes, and appended to a file at every flush and at the end   *)
(* of the simulation.  A file that cannot be written aborts the simulation *)
(* and is not modelled.                                                    *)
(***************************************************************************)
EXTENDS Naturals, Sequences

CONSTANTS
    MaxBytes,     \* max_bytes; 0 when there is no cap
    MaxPushed     \* bound on the bytes pushed in a behaviour

ASSUME MaxBytesAssumption  == MaxBytes \in Nat
ASSUME MaxPushedAssumption == MaxPushed \in Nat

VARIABLES
    captured,     \* captured_
    flushed,      \* flushed_bytes_
    accepted,     \* accepted_
    dropped,      \* dropped_
    file,         \* contents of sink_file
    pushed,       \* bytes pushed since the last truncation (history)
    count,        \* bytes pushed altogether
    finished      \* finish has run

sinkVars == <<captured, flushed, accepted, dropped, file, pushed, count, finished>>

SinkInit ==
    /\ captured = <<>> /\ flushed = 0 /\ accepted = 0 /\ dropped = 0
    /\ file = <<>> /\ pushed = <<>> /\ count = 0 /\ finished = FALSE

\* Faulty variants of definitions below.

\* A flush writes the whole capture after what an earlier one wrote.
AppendAll(bytes, cursor) == file \o bytes

\* writeFile(false) appends what earlier flushes have not written.
AppendRest(bytes, cursor) == file \o SubSeq(bytes, cursor + 1, Len(bytes))

WriteFile ==
    /\ file' = AppendRest(captured, flushed)
    /\ flushed' = Len(captured)

\* Bytes the cap still lets through.
Room == IF MaxBytes = 0 THEN MaxPushed ELSE MaxBytes - Len(captured)

\* A write of bytes to REG_DATA: byte by byte until the cap, then dropped.
Push(bytes) ==
    LET n == IF Len(bytes) > Room THEN Room ELSE Len(bytes)
    IN  /\ ~finished /\ count + Len(bytes) <= MaxPushed
        /\ captured' = captured \o SubSeq(bytes, 1, n)
        /\ accepted' = accepted + n
        /\ dropped' = dropped + (Len(bytes) - n)
        /\ pushed' = pushed \o bytes
        /\ count' = count + Len(bytes)
        /\ UNCHANGED <<flushed, file, finished>>

\* A write of 1 to REG_CTRL.
FlushFile ==
    /\ ~finished
    /\ WriteFile
    /\ UNCHANGED <<captured, accepted, dropped, pushed, count, finished>>

\* A write of 2 to REG_CTRL: capture, count, file and cursor start anew.
Truncate ==
    /\ ~finished
    /\ captured' = <<>> /\ accepted' = 0
    /\ file' = <<>> /\ flushed' = 0
    /\ pushed' = <<>>
    /\ UNCHANGED <<dropped, count, finished>>

\* The end of the simulation.
FinishSink ==
    /\ ~finished
    /\ WriteFile
    /\ finished' = TRUE
    /\ UNCHANGED <<captured, accepted, dropped, pushed, count>>

-----------------------------------------------------------------------------
\* The file is the part of the capture that was flushed, so after any mix of
\* pushes, flushes and truncations it holds each byte once; the capture is
\* what was pushed since the last truncation, cut at the cap; and at the end
\* nothing captured is missing from the file.
FileIsCapture ==
    /\ file = SubSeq(captured, 1, flushed) /\ flushed <= Len(captured)
    /\ accepted = Len(captured)
    /\ MaxBytes > 0 => Len(captured) <= MaxBytes
    /\ captured = SubSeq(pushed, 1, Len(captured))
    /\ Len(captured) < Len(pushed) => MaxBytes > 0 /\ Len(captured) = MaxBytes
    /\ finished => file = captured
=============================================================================
