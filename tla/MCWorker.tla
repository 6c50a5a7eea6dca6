------------------------------ MODULE MCWorker ------------------------------
(* Instances of Worker for TLC.                                                *)
EXTENDS Worker

\* A budget of two attempts and a controller that fails in every way; unlimited
\* retries and a controller that is down for some time.
Budgeted == [max_attempts |-> 2, max_backoff_ms |-> 3,
             results |-> {"Ok", "Transient", "Permanent"}, connectFails |-> TRUE]
Patient == [max_attempts |-> 0, max_backoff_ms |-> 3,
            results |-> {"Ok", "Transient"}, connectFails |-> FALSE]
BudgetedOrPatient == {Budgeted, Patient}

\* A controller that never fails.
Reliable == {[Patient EXCEPT !.results = {"Ok"}]}
=============================================================================
