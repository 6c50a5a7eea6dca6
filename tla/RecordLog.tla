----------------------------- MODULE RecordLog -----------------------------
(* What the engine relies on when it appends framed records to its storage:    *)
(* a sequence of frames that only ever grows, and at most one frame beyond its *)
(* end, left there by an append that did not return Ok, which the next open    *)
(* may find or not.  LogStore implements this with bytes in a file, Engine is  *)
(* written against it.                                                         *)
EXTENDS Sequences

CONSTANTS
    Frame,     \* the records that may be appended
    NoFrame    \* nothing lies beyond the end

VARIABLES
    log,       \* the frames of the store
    stray      \* a whole frame beyond its end, or NoFrame

Init == log = <<>> /\ stray = NoFrame

\* append returned Ok.
Append_ok(m) == log' = Append(log, m) /\ stray' = NoFrame

\* append returned Err, or the process died inside it.
Append_err(m) == stray' = m /\ UNCHANGED log

\* A new open of the store.
Recover ==
    /\ \/ stray # NoFrame /\ log' = Append(log, stray)
       \/ UNCHANGED log
    /\ stray' = NoFrame

Next == (\E m \in Frame : Append_ok(m) \/ Append_err(m)) \/ Recover

Spec == Init /\ [][Next]_<<log, stray>>
=============================================================================
