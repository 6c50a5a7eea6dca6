----------------------------- MODULE MCLogStore -----------------------------
(* Instances of LogStore for TLC.                                              *)
EXTENDS LogStore

TwoByteHeader == <<3, 1>>

\* Records of four, five, five and six bytes: of different lengths, so that a
\* short one leaves the end of a longer one behind, and of the same length, so
\* that one can be written half over the other.
FourPayloads == {<<1, 1>>, <<2, 1, 2>>, <<2, 2, 1>>, <<3, 1, 0, 0>>}

\* The shortest and the longest, where power losses multiply the states.
TwoPayloads == {<<1, 1>>, <<3, 1, 0, 0>>}

\* A host that closes the store after a failed append, on a machine that keeps
\* its power; a host that does not, on a machine that does not.
Careful == [payloads |-> FourPayloads, keepGoing |-> FALSE, powerLoss |-> FALSE, maxLen |-> 18]
Faulty == [payloads |-> TwoPayloads, keepGoing |-> TRUE, powerLoss |-> TRUE, maxLen |-> 12]
CarefulAndFaulty == {Careful, Faulty}

\* A careful host on such a machine.
CarefulUnpowered == {[Faulty EXCEPT !.keepGoing = FALSE]}
=============================================================================
