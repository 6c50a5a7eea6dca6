------------------------------- MODULE Worker -------------------------------
(* The way from a commit to the controller: MutationLog::record, the channel,  *)
(* and the detached worker that connects, applies with retry and backoff, and  *)
(* flushes (morceau-core/src/sync/).                                           *)
(*                                                                             *)
(* An engine life starts with an open and ends with a drop of the engine or    *)
(* with the process.  A dropped engine leaves its worker running: it drains    *)
(* the channel while the next engine may already be open with a worker of its  *)
(* own.  The durable log is abstracted to how many mutations it holds, and a   *)
(* mutation to its local_seq.  The upstream authority is whatever the          *)
(* controllers talk to; it is known by the answers apply returns.              *)
(* On wasm the worker is a task of the event loop that takes the same steps.   *)
EXTENDS Integers, Sequences

CONSTANTS
    Settings,         \* configurations and controllers, see Setting
    first_backoff_ms, \* the 100 ms a retry starts with
    U32Max, U64Max,   \* where attempt and backoff_ms saturate
    MaxSeq,           \* bound: mutations committed
    MaxLives          \* bound: lives of the engine

\* controller_retry_max_attempts (0 for unlimited) and controller_retry_max_backoff_ms
\* of the configuration; what apply may return, and whether connect may fail.
Setting == [max_attempts : 0 .. U32Max, max_backoff_ms : 0 .. U64Max,
            results : SUBSET {"Ok", "Transient", "Permanent"}, connectFails : BOOLEAN]

ASSUME WorkerAssumption ==
    /\ Settings \subseteq Setting
    /\ first_backoff_ms \in 1 .. U64Max
    /\ U32Max \in Nat /\ U64Max \in Nat
    /\ MaxSeq \in Nat /\ MaxLives \in Nat

Life == 1 .. MaxLives
Seqs == 1 .. MaxSeq

VARIABLES
    setting,     \* the configuration and the controller of this behaviour
    committed,   \* mutations in the durable log: local_seq 1 .. committed
    life,        \* the current or last life
    engine,      \* "closed", "open" or "replay"
    wired,       \* the engine's MutationLog: "none", "buffer" or "worker"
    walk,        \* mutations the replay under way has fed
    caughtUp,    \* a replay went through with the worker of this life wired
    buffer,      \* Inner::buffer
    worker,      \* life -> state of its worker
    queue,       \* life -> the channel
    current,     \* life -> the mutation being applied, 0 if none
    attempt,     \* life -> transient failures of that mutation
    backoff_ms,  \* life -> the next sleep
    sent,        \* history: life -> what was put into the channel
    settled,     \* history: life -> what the worker was done with
    accepted     \* history: what apply has returned Ok for, in order

hostVars == <<setting, committed, life, engine, wired, walk, caughtUp, buffer>>
retryVars == <<current, attempt, backoff_ms>>
vars == <<setting, committed, life, engine, wired, walk, caughtUp, buffer, worker, queue,
          current, attempt, backoff_ms, sent, settled, accepted>>

Least(a, b) == IF a <= b THEN a ELSE b

\* The worker thread holds the receiver until its closure returns.
Running == {"connecting", "waiting", "applying", "backoff"}

SenderAlive(l) == l = life /\ engine # "closed" /\ wired = "worker"

Init ==
    /\ setting \in Settings
    /\ committed = 0
    /\ life = 0
    /\ engine = "closed"
    /\ wired = "none"
    /\ walk = 0
    /\ caughtUp = FALSE
    /\ buffer = <<>>
    /\ worker = [l \in Life |-> "none"]
    /\ queue = [l \in Life |-> <<>>]
    /\ current = [l \in Life |-> 0]
    /\ attempt = [l \in Life |-> 0]
    /\ backoff_ms = [l \in Life |-> first_backoff_ms]
    /\ sent = [l \in Life |-> <<>>]
    /\ settled = [l \in Life |-> <<>>]
    /\ accepted = <<>>

-----------------------------------------------------------------------------
(* The engine's side.                                                          *)

\* MutationLog::record: the forwarder's send is ignored once the receiver is gone.
record(m) ==
    LET arrives == wired = "worker" /\ worker[life] \in Running IN
    /\ buffer' = IF wired = "buffer" THEN Append(buffer, m) ELSE buffer
    /\ queue' = IF arrives THEN [queue EXCEPT ![life] = Append(@, m)] ELSE queue
    /\ sent' = IF arrives THEN [sent EXCEPT ![life] = Append(@, m)] ELSE sent

open ==
    /\ engine = "closed"
    /\ life < MaxLives
    /\ life' = life + 1
    /\ engine' = "open"
    /\ UNCHANGED <<setting, committed, wired, walk, caughtUp, buffer, worker, queue, retryVars, sent,
                   settled, accepted>>

\* The tail of Engine::commit; without a MutationLog nothing is recorded.
commit ==
    /\ engine = "open"
    /\ committed < MaxSeq
    /\ committed' = committed + 1
    /\ record(committed + 1)
    /\ UNCHANGED <<setting, life, engine, wired, walk, caughtUp, worker, retryVars, settled, accepted>>

with_mutation_log ==
    /\ engine = "open"
    /\ wired = "none"
    /\ wired' = "buffer"
    /\ UNCHANGED <<setting, committed, life, engine, walk, caughtUp, buffer, worker, queue, retryVars,
                   sent, settled, accepted>>

\* spawn_controller_worker sets the forwarder; what was buffered stays buffered.
spawn_controller_worker ==
    /\ engine = "open"
    /\ wired # "worker"
    /\ wired' = "worker"
    /\ worker' = [worker EXCEPT ![life] = "connecting"]
    /\ UNCHANGED <<setting, committed, life, engine, walk, caughtUp, buffer, queue, retryVars, sent,
                   settled, accepted>>

take_buffer ==
    /\ buffer # <<>>
    /\ buffer' = <<>>
    /\ UNCHANGED <<setting, committed, life, engine, wired, walk, caughtUp, worker, queue, retryVars,
                   sent, settled, accepted>>

\* replay_unconfirmed, once per wired worker as its documentation asks (and, a
\* bound, only into an empty buffer).
StartReplay ==
    /\ engine = "open"
    /\ wired # "none"
    /\ ~caughtUp
    /\ wired = "buffer" => buffer = <<>>
    /\ engine' = "replay"
    /\ walk' = 0
    /\ UNCHANGED <<setting, committed, life, wired, caughtUp, buffer, worker, queue, retryVars, sent,
                   settled, accepted>>

ReplayOne ==
    /\ engine = "replay"
    /\ walk < committed
    /\ walk' = walk + 1
    /\ record(walk + 1)
    /\ UNCHANGED <<setting, committed, life, engine, wired, caughtUp, worker, retryVars, settled, accepted>>

\* A mutant: a replay may end one mutation early.
EndReplay_early ==
    /\ engine = "replay"
    /\ walk + 1 >= committed
    /\ engine' = "open"
    /\ caughtUp' = (wired = "worker")
    /\ UNCHANGED <<setting, committed, life, wired, walk, buffer, worker, queue, retryVars, sent,
                   settled, accepted>>

EndReplay ==
    /\ engine = "replay"
    /\ walk = committed
    /\ engine' = "open"
    /\ caughtUp' = (wired = "worker")
    /\ UNCHANGED <<setting, committed, life, wired, walk, buffer, worker, queue, retryVars, sent,
                   settled, accepted>>

LoseEngine ==
    /\ engine' = "closed"
    /\ wired' = "none"
    /\ walk' = 0
    /\ caughtUp' = FALSE
    /\ buffer' = <<>>

\* The engine is dropped and the channel's sender with it; the worker lives on.
\* The last life is the one without faults: neither a drop nor a crash ends it.
DropEngine ==
    /\ engine = "open"
    /\ life < MaxLives
    /\ LoseEngine
    /\ UNCHANGED <<setting, committed, life, worker, queue, retryVars, sent, settled, accepted>>

\* The process dies: every worker dies with it, and what was in the channels.
Crash ==
    /\ life \in 1 .. MaxLives - 1
    /\ engine # "closed" \/ \E l \in Life : worker[l] \in Running
    /\ LoseEngine
    /\ worker' = [l \in Life |-> IF worker[l] \in Running THEN "dead" ELSE worker[l]]
    /\ queue' = [l \in Life |-> <<>>]
    /\ current' = [l \in Life |-> 0]
    /\ attempt' = [l \in Life |-> 0]
    /\ backoff_ms' = [l \in Life |-> first_backoff_ms]
    /\ UNCHANGED <<setting, committed, life, sent, settled, accepted>>

-----------------------------------------------------------------------------
(* The worker of life l.                                                       *)

\* A connect that fails ends the worker, after a flush: the receiver goes, the
\* channel with it.
connect(l) ==
    /\ worker[l] = "connecting"
    /\ \/ worker' = [worker EXCEPT ![l] = "waiting"] /\ UNCHANGED queue
       \/ /\ setting.connectFails
          /\ worker' = [worker EXCEPT ![l] = "refused"]
          /\ queue' = [queue EXCEPT ![l] = <<>>]
    /\ UNCHANGED <<hostVars, retryVars, sent, settled, accepted>>

recv(l) ==
    /\ worker[l] = "waiting"
    /\ queue[l] # <<>>
    /\ worker' = [worker EXCEPT ![l] = "applying"]
    /\ current' = [current EXCEPT ![l] = Head(queue[l])]
    /\ queue' = [queue EXCEPT ![l] = Tail(@)]
    /\ attempt' = [attempt EXCEPT ![l] = 0]
    /\ backoff_ms' = [backoff_ms EXCEPT ![l] = first_backoff_ms]
    /\ UNCHANGED <<hostVars, sent, settled, accepted>>

\* The worker is done with the current mutation, for better or worse.
Settle(l) ==
    /\ worker' = [worker EXCEPT ![l] = "waiting"]
    /\ current' = [current EXCEPT ![l] = 0]
    /\ settled' = [settled EXCEPT ![l] = Append(@, current[l])]
    /\ UNCHANGED backoff_ms

apply_ok(l) ==
    /\ worker[l] = "applying"
    /\ "Ok" \in setting.results
    /\ Settle(l)
    /\ accepted' = Append(accepted, current[l])
    /\ UNCHANGED <<hostVars, queue, attempt, sent>>

apply_permanent(l) ==
    /\ worker[l] = "applying"
    /\ "Permanent" \in setting.results
    /\ Settle(l)
    /\ UNCHANGED <<hostVars, queue, attempt, sent, accepted>>

\* A mutant: the mutation goes back to the end of the channel.
apply_transient_requeue(l) ==
    /\ worker[l] = "applying"
    /\ "Transient" \in setting.results
    /\ worker' = [worker EXCEPT ![l] = "waiting"]
    /\ current' = [current EXCEPT ![l] = 0]
    /\ queue' = [queue EXCEPT ![l] = Append(@, current[l])]
    /\ UNCHANGED <<hostVars, attempt, backoff_ms, sent, settled, accepted>>

\* A mutant: a budget of zero is a budget.
apply_transient_zero(l) ==
    LET n == Least(attempt[l] + 1, U32Max) IN
    /\ worker[l] = "applying"
    /\ "Transient" \in setting.results
    /\ attempt' = [attempt EXCEPT ![l] = n]
    /\ \/ n >= setting.max_attempts /\ Settle(l)
       \/ /\ n < setting.max_attempts
          /\ worker' = [worker EXCEPT ![l] = "backoff"]
          /\ UNCHANGED <<current, backoff_ms, settled>>
    /\ UNCHANGED <<hostVars, queue, sent, accepted>>

apply_transient(l) ==
    LET n == Least(attempt[l] + 1, U32Max) IN
    /\ worker[l] = "applying"
    /\ "Transient" \in setting.results
    /\ attempt' = [attempt EXCEPT ![l] = n]
    /\ \/ setting.max_attempts > 0 /\ n >= setting.max_attempts /\ Settle(l)
       \/ /\ setting.max_attempts = 0 \/ n < setting.max_attempts
          /\ worker' = [worker EXCEPT ![l] = "backoff"]
          /\ UNCHANGED <<current, backoff_ms, settled>>
    /\ UNCHANGED <<hostVars, queue, sent, accepted>>

\* A mutant: the count of attempts does not survive the sleep.
wake_afresh(l) ==
    /\ worker[l] = "backoff"
    /\ worker' = [worker EXCEPT ![l] = "applying"]
    /\ attempt' = [attempt EXCEPT ![l] = 0]
    /\ backoff_ms' = [backoff_ms EXCEPT ![l] = Least(Least(2 * @, U64Max), setting.max_backoff_ms)]
    /\ UNCHANGED <<hostVars, queue, current, sent, settled, accepted>>

\* A mutant: the doubling is not saturated.
wake_wide(l) ==
    /\ worker[l] = "backoff"
    /\ worker' = [worker EXCEPT ![l] = "applying"]
    /\ backoff_ms' = [backoff_ms EXCEPT ![l] = 2 * @]
    /\ UNCHANGED <<hostVars, queue, current, attempt, sent, settled, accepted>>

\* The sleep is over; the next one is twice as long, up to the cap.
wake(l) ==
    /\ worker[l] = "backoff"
    /\ worker' = [worker EXCEPT ![l] = "applying"]
    /\ backoff_ms' = [backoff_ms EXCEPT ![l] = Least(Least(2 * @, U64Max), setting.max_backoff_ms)]
    /\ UNCHANGED <<hostVars, queue, current, attempt, sent, settled, accepted>>

\* A mutant: the worker stops as soon as the sender is gone.
flush_early(l) ==
    /\ worker[l] = "waiting"
    /\ ~SenderAlive(l)
    /\ worker' = [worker EXCEPT ![l] = "flushed"]
    /\ UNCHANGED <<hostVars, queue, retryVars, sent, settled, accepted>>

\* recv reports the end of the channel only when it is empty and has no sender.
flush(l) ==
    /\ worker[l] = "waiting"
    /\ queue[l] = <<>>
    /\ ~SenderAlive(l)
    /\ worker' = [worker EXCEPT ![l] = "flushed"]
    /\ UNCHANGED <<hostVars, queue, retryVars, sent, settled, accepted>>

WorkerStep(l) ==
    \/ connect(l)
    \/ recv(l)
    \/ apply_ok(l)
    \/ apply_permanent(l)
    \/ apply_transient(l)
    \/ wake(l)
    \/ flush(l)

HostStep ==
    \/ open
    \/ commit
    \/ with_mutation_log
    \/ spawn_controller_worker
    \/ take_buffer
    \/ StartReplay
    \/ ReplayOne
    \/ EndReplay
    \/ DropEngine

Next == HostStep \/ Crash \/ \E l \in Life : WorkerStep(l)

\* The worker's thread is scheduled, connect and apply return, sleeps end.
FairWorker == \A l \in Life : WF_vars(WorkerStep(l))

Spec == Init /\ [][Next]_vars /\ FairWorker

-----------------------------------------------------------------------------
(* What delivery depends on beyond the code of the crate.                      *)

\* A controller that is asked often enough says Ok once.
FairController == \A l \in Life : SF_vars(apply_ok(l))

\* The host opens the store again, wires a controller and replays to it.
FairHost == /\ WF_vars(open)
            /\ SF_vars(spawn_controller_worker)
            /\ WF_vars(StartReplay)
            /\ WF_vars(ReplayOne)
            /\ WF_vars(EndReplay)

-----------------------------------------------------------------------------
(* Properties.                                                                 *)

TypeOK ==
    /\ setting \in Settings
    /\ committed \in 0 .. MaxSeq
    /\ life \in 0 .. MaxLives
    /\ engine \in {"closed", "open", "replay"}
    /\ wired \in {"none", "buffer", "worker"}
    /\ walk \in 0 .. committed
    /\ caughtUp \in BOOLEAN
    /\ buffer \in Seq(Seqs)
    /\ worker \in [Life -> Running \cup {"none", "refused", "flushed", "dead"}]
    /\ queue \in [Life -> Seq(Seqs)]
    /\ current \in [Life -> 0 .. MaxSeq]
    /\ attempt \in [Life -> 0 .. U32Max]
    /\ backoff_ms \in [Life -> 0 .. U64Max]
    /\ sent \in [Life -> Seq(Seqs)]
    /\ settled \in [Life -> Seq(Seqs)]
    /\ accepted \in Seq(Seqs)

Occurs(m, s) == \E i \in 1 .. Len(s) : s[i] = m

InHand(l) == IF current[l] = 0 THEN <<>> ELSE <<current[l]>>

\* Between record and apply nothing is lost, doubled or reordered, however often
\* a mutation is retried: what a running worker was sent is what it is done
\* with, what it has in hand, and what still queues behind it.
FifoPerWorker ==
    \A l \in Life : worker[l] \in Running =>
        sent[l] = settled[l] \o InHand(l) \o queue[l]

\* flush comes after everything: a worker that reached the end of its channel
\* has settled every mutation it was sent, and nothing can be sent to it any more.
FlushComesLast ==
    \A l \in Life : worker[l] = "flushed" => settled[l] = sent[l] /\ ~SenderAlive(l)

\* After a replay to a worker that is there, that worker has been sent every
\* mutation of the durable log: those committed before it was wired, those of
\* earlier lives and those whose worker died (replay_unconfirmed, record).
ReplayCatchesUp ==
    (caughtUp /\ worker[life] \in Running) =>
        \A m \in 1 .. committed : Occurs(m, sent[life])

\* "Called once per committed mutation, in local_seq order, on the worker thread"
\* (controller.rs, Controller::apply): a worker settles its mutations in strictly
\* increasing order, commits and replays together.
OnceInSeqOrder ==
    \A l \in Life : \A i, j \in 1 .. Len(settled[l]) : i < j => settled[l][i] < settled[l][j]

\* With a retry budget, a worker whose engine was dropped drains its channel,
\* flushes and ends, even if every apply fails (retry_apply, the recv loop).
ShutdownCompletes ==
    setting.max_attempts > 0 =>
        \A l \in Life :
            (worker[l] \in Running /\ ~SenderAlive(l)) ~> worker[l] \notin Running

\* Nothing makes the worker give a mutation up.
Persistent ==
    setting.max_attempts = 0 /\ ~setting.connectFails /\ "Permanent" \notin setting.results

\* With unlimited retries and a controller that is not down for ever, every
\* mutation that was ever committed reaches the controller, also when the
\* process dies with it in the channel, provided the host replays after it
\* opened the store again.
EventuallyAccepted ==
    Persistent /\ FairController /\ FairHost =>
        \A m \in Seqs : (committed >= m) ~> Occurs(m, accepted)
=============================================================================
