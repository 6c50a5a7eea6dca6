--------------------------- MODULE TaskScheduler ---------------------------
(***************************************************************************)
(* The task system of cpp-reference: a queue of tasks, the worker threads  *)
(* that register with them, and the callers of scheduleTaskAndWaitOrError: *)
(* the client of a query, for the query's dependencies and its root, and a *)
(* worker whose task schedules a nested one (GDS), for which a new thread  *)
(* is launched.                                                            *)
(*                                                                         *)
(* A step is one critical section of taskSchedulerMtx or of a task's       *)
(* taskMtx.  The steps of a critical section that lets nobody in are one.  *)
(***************************************************************************)
EXTENDS Integers, Sequences, SequencesExt, FiniteSets

CONSTANTS
  Workers, Clients, Tasks,
  Pools,        \* the sets of workers that the constructor may start
  Plan,         \* client -> its tasks, dependencies first, the root last
  Nested,       \* task -> the task that its run() schedules, or NoTask
  MaxThreads,   \* task -> Task::maxNumThreads
  Timed,        \* the clients with a timeout
  Endless,      \* the tasks whose run() may go on until the query is interrupted
  Faulty,       \* the clients whose queries meet exceptions without an interrupt,
                \* interrupts by the client and spurious wake-ups;
  MaxEvents,    \* the bound on these
  NoTask

ASSUME TaskSchedulerAssumption ==
  /\ NoTask \notin Tasks
  /\ Pools \subseteq SUBSET Workers /\ {} \notin Pools
  /\ Plan \in [Clients -> Seq(Tasks)]
  /\ Nested \in [Tasks -> Tasks \cup {NoTask}]
  /\ MaxThreads \in [Tasks -> Nat \ {0}]
  /\ Timed \subseteq Clients /\ Faulty \subseteq Clients /\ Endless \subseteq Tasks
  /\ MaxEvents \in Nat

VARIABLES
  task,         \* Task: threads registered and finished, exception, initialized
  sched,        \* where scheduleTaskAndWaitOrError(task) is
  launched,     \* the thread launched for the task
  queue,        \* taskQueue
  worker,       \* each worker's position and task
  at, result,   \* each client's position in its plan, and what its query returned
  interrupted,
  expired,      \* the time of the query was found to be up
  stop,         \* stopWorkerThreads
  \* history
  finalized,    \* how often finalize() was called
  failed,       \* tasks of which a run() or the finalize() threw
  events

vars == <<task, sched, launched, queue, worker, at, result, interrupted, expired, stop,
          finalized, failed, events>>

\* The tasks scheduled by the run() of another, and the client each task works for.
Launched == Range(Nested) \ {NoTask}
Owner == [t \in Tasks |-> CHOOSE c \in Clients :
                           \E i \in DOMAIN Plan[c] : t \in {Plan[c][i], Nested[Plan[c][i]]}]

\* One of the bounded events may happen to a query of c.
Event(c) == c \in Faulty /\ events < MaxEvents

Init ==
  /\ task = [t \in Tasks |-> [reg |-> 0, fin |-> 0, exc |-> FALSE, init |-> "no"]]
  /\ sched = [t \in Tasks |-> "no"]
  /\ launched = [t \in Tasks |-> "none"]
  /\ queue = <<>>
  /\ \E pool \in Pools :
       worker = [w \in Workers |-> [pc |-> IF w \in pool THEN "idle" ELSE "gone",
                                    task |-> NoTask]]
  /\ at = [c \in Clients |-> 1]
  /\ result = [c \in Clients |-> "none"]
  /\ interrupted = [c \in Clients |-> FALSE]
  /\ expired = [c \in Clients |-> FALSE]
  /\ stop = FALSE
  /\ finalized = [t \in Tasks |-> 0]
  /\ failed = {}
  /\ events = 0

---------------------------------------------------------------------------
(* Task *)

isCompletedNoLock(r) == r.reg > 0 /\ r.fin = r.reg
\* Mutant: a thread may join a task that others have already left.
canRegisterNoLock_late(t, r) == MaxThreads[t] > r.reg

canRegisterNoLock(t, r) == r.fin = 0 /\ MaxThreads[t] > r.reg
isCompletedSuccessfully(r) == isCompletedNoLock(r) /\ ~r.exc

\* registerThread succeeds
Registers(t, r) == ~r.exc /\ canRegisterNoLock(t, r)

\* taskMtx is held while the shared state of the task is initialized.
Free(t) == task[t].init # "busy"

\* deRegisterThreadAndFinalizeTask, on a task that is r; bad: finalize() throws.
\* Mutant: every thread that leaves finalizes the task.
Finalizes_each(r) == ~r.exc

Finalizes(r) == ~r.exc /\ r.fin + 1 = r.reg
Deregistered(r, bad) ==
  [r EXCEPT !.fin = @ + 1, !.exc = @ \/ (Finalizes(r) /\ bad)]

\* cv.notify_all of the task, if it is completed
Notified(t, r) ==
  IF isCompletedNoLock(r) /\ sched[t] \in {"wait", "timedWait"}
  THEN [sched EXCEPT ![t] = "check"]
  ELSE sched

---------------------------------------------------------------------------
(* scheduleTaskAndWaitOrError *)

\* The call begins; for a nested task a thread is registered and launched.
Call(t) ==
  IF t \in Launched
  THEN /\ task' = IF Registers(t, task[t]) THEN [task EXCEPT ![t].reg = @ + 1] ELSE task
       /\ launched' = [launched EXCEPT ![t] = "start"]
       /\ sched' = [sched EXCEPT ![t] = "push"]
  ELSE /\ sched' = [sched EXCEPT ![t] = "push"]
       /\ UNCHANGED <<task, launched>>

pushTaskIntoQueue(t) ==
  /\ sched[t] = "push"
  /\ queue' = Append(queue, t)
  /\ sched' = [sched EXCEPT ![t] = "notify"]
  /\ UNCHANGED <<task, launched, worker, at, result, interrupted, expired, stop, finalized,
                 failed, events>>

\* The workers that wait will look at the queue again.
Woken == [w \in Workers |-> IF worker[w].pc = "wait" THEN [worker[w] EXCEPT !.pc = "idle"]
                                                     ELSE worker[w]]

notify(t) ==
  /\ sched[t] = "notify"
  /\ worker' = Woken
  /\ sched' = [sched EXCEPT ![t] = "check"]
  /\ UNCHANGED <<task, launched, queue, at, result, interrupted, expired, stop, finalized,
                 failed, events>>

\* Mutant: a query whose time is up is not interrupted.
waitTurn_patient(t) ==
  LET c == Owner[t]
  IN  /\ sched[t] = "check" /\ Free(t)
      /\ sched' = [sched EXCEPT ![t] = IF isCompletedNoLock(task[t]) THEN "join" ELSE "wait"]
      /\ interrupted' = [interrupted EXCEPT ![c] =
                           @ \/ (~isCompletedNoLock(task[t]) /\ task[t].exc)]
      /\ UNCHANGED <<task, launched, queue, worker, at, result, expired, stop, finalized,
                     failed, events>>

\* One turn of the waiting loop, up to the wait that gives taskMtx back.  late: the time of
\* the query is found to be up.
waitTurn(t) ==
  LET c == Owner[t]
  IN  /\ sched[t] = "check" /\ Free(t)
      /\ IF isCompletedNoLock(task[t])
         THEN /\ sched' = [sched EXCEPT ![t] = "join"]
              /\ UNCHANGED <<interrupted, expired>>
         ELSE \E late \in BOOLEAN :
              /\ late => c \in Timed
              /\ expired[c] => late
              /\ expired' = [expired EXCEPT ![c] = late]
              /\ sched' = [sched EXCEPT ![t] =
                             IF c \in Timed /\ ~late THEN "timedWait" ELSE "wait"]
              /\ interrupted' = [interrupted EXCEPT ![c] =
                                   @ \/ IF c \in Timed THEN late ELSE task[t].exc]
      /\ UNCHANGED <<task, launched, queue, worker, at, result, stop, finalized, failed,
                     events>>

\* wait_for times out.
timeout(t) ==
  /\ sched[t] = "timedWait"
  /\ sched' = [sched EXCEPT ![t] = "check"]
  /\ expired' = [expired EXCEPT ![Owner[t]] = TRUE]
  /\ UNCHANGED <<task, launched, queue, worker, at, result, interrupted, stop, finalized,
                 failed, events>>

spuriousWake(t) ==
  /\ sched[t] \in {"wait", "timedWait"} /\ Event(Owner[t])
  /\ events' = events + 1
  /\ sched' = [sched EXCEPT ![t] = "check"]
  /\ UNCHANGED <<task, launched, queue, worker, at, result, interrupted, expired, stop,
                 finalized, failed>>

\* The launched thread is joined; an erroring task is removed from the queue.
joinAndReturn(t) ==
  /\ sched[t] = "join" /\ launched[t] \in {"none", "ended"}
  /\ sched' = [sched EXCEPT ![t] = IF task[t].exc THEN "error" ELSE "done"]
  /\ queue' = IF task[t].exc THEN SelectSeq(queue, LAMBDA s : s # t) ELSE queue
  /\ UNCHANGED <<task, launched, worker, at, result, interrupted, expired, stop, finalized,
                 failed, events>>

WaitOrError(t) ==
  pushTaskIntoQueue(t) \/ notify(t) \/ waitTurn(t) \/ timeout(t) \/ joinAndReturn(t)

---------------------------------------------------------------------------
(* The client: QueryProcessor::execute *)

Current(c) == Plan[c][at[c]]

clientCalls(c) ==
  /\ result[c] = "none" /\ sched[Current(c)] = "no"
  /\ Call(Current(c))
  /\ UNCHANGED <<queue, worker, at, result, interrupted, expired, stop, finalized, failed,
                 events>>

\* Mutant: the exception of a dependency is not thrown on.
clientReturns_onward(c) ==
  /\ result[c] = "none" /\ sched[Current(c)] \in {"done", "error"}
  /\ IF at[c] < Len(Plan[c])
     THEN at' = [at EXCEPT ![c] = @ + 1] /\ UNCHANGED result
     ELSE result' = [result EXCEPT ![c] = sched[Current(c)]] /\ UNCHANGED at
  /\ UNCHANGED <<task, sched, launched, queue, worker, interrupted, expired, stop, finalized,
                 failed, events>>

\* A task is done; the next one follows, unless it was the last or terminate() of this
\* dependency says that nothing should follow.
clientReturns(c) ==
  /\ result[c] = "none" /\ sched[Current(c)] \in {"done", "error"}
  /\ \/ /\ sched[Current(c)] = "done" /\ at[c] < Len(Plan[c])
        /\ at' = [at EXCEPT ![c] = @ + 1]
        /\ UNCHANGED result
     \/ /\ result' = [result EXCEPT ![c] = sched[Current(c)]]
        /\ UNCHANGED at
  /\ UNCHANGED <<task, sched, launched, queue, worker, interrupted, expired, stop, finalized,
                 failed, events>>

\* Connection::interrupt
interrupt(c) ==
  /\ result[c] = "none" /\ ~interrupted[c] /\ Event(c)
  /\ events' = events + 1
  /\ interrupted' = [interrupted EXCEPT ![c] = TRUE]
  /\ UNCHANGED <<task, sched, launched, queue, worker, at, result, expired, stop, finalized,
                 failed>>

---------------------------------------------------------------------------
(* What a thread does with a task: run() *)

\* run() of t may throw.
MayThrow(t) == interrupted[Owner[t]] \/ Event(Owner[t])
Threw(t) == events' = IF interrupted[Owner[t]] THEN events ELSE events + 1

Become(w, pc) == worker' = [worker EXCEPT ![w].pc = pc]

\* ProcessorTask::run takes taskMtx and initializes the shared state, once.
runInit(w) ==
  LET t == worker[w].task
  IN  /\ worker[w].pc = "run" /\ Free(t)
      /\ IF task[t].init = "no"
         THEN Become(w, "init") /\ task' = [task EXCEPT ![t].init = "busy"]
         ELSE Become(w, "exec") /\ UNCHANGED task
      /\ UNCHANGED <<sched, launched, queue, at, result, interrupted, expired, stop, finalized,
                     failed, events>>

initEnds(w) ==
  LET t == worker[w].task
  IN  /\ worker[w].pc = "init"
      /\ \/ /\ Become(w, "exec")
            /\ task' = [task EXCEPT ![t].init = "done"]
            /\ UNCHANGED <<failed, events>>
         \/ /\ MayThrow(t) /\ Threw(t)
            /\ Become(w, "bad")
            /\ task' = [task EXCEPT ![t].init = "no"]
            /\ failed' = failed \cup {t}
      /\ UNCHANGED <<sched, launched, queue, at, result, interrupted, expired, stop, finalized>>

\* run() schedules its nested task,
runNested(w) ==
  LET n == Nested[worker[w].task]
  IN  /\ worker[w].pc = "exec" /\ n # NoTask
      /\ sched[n] = "no"
      /\ Call(n)
      /\ Become(w, "nested")
      /\ UNCHANGED <<queue, at, result, interrupted, expired, stop, finalized, failed, events>>

\* goes on when that is done, or throws the exception of the nested task,
nestedReturns(w) ==
  LET t == worker[w].task
  IN  /\ worker[w].pc = "nested" /\ sched[Nested[t]] \in {"done", "error"}
      /\ IF sched[Nested[t]] = "done"
         THEN Become(w, "exec") /\ UNCHANGED failed
         ELSE Become(w, "bad") /\ failed' = failed \cup {t}
      /\ UNCHANGED <<task, sched, launched, queue, at, result, interrupted, expired, stop,
                     finalized, events>>

\* returns,
runReturns(w) ==
  LET t == worker[w].task
  IN  /\ worker[w].pc = "exec"
      /\ Nested[t] # NoTask => sched[Nested[t]] = "done"
      /\ Become(w, "ok")
      /\ UNCHANGED <<task, sched, launched, queue, at, result, interrupted, expired, stop,
                     finalized, failed, events>>

\* or throws.
runThrows(w) ==
  LET t == worker[w].task
  IN  /\ worker[w].pc = "exec"
      /\ MayThrow(t) /\ Threw(t)
      /\ Become(w, "bad")
      /\ failed' = failed \cup {t}
      /\ UNCHANGED <<task, sched, launched, queue, at, result, interrupted, expired, stop,
                     finalized>>

Run(w) ==
  \/ runInit(w) \/ initEnds(w) \/ runNested(w) \/ nestedReturns(w) \/ runThrows(w)
  \/ runReturns(w)

\* runTask of the launched thread: run(), setException, deregister
launchedReturns(t) ==
  /\ launched[t] = "start"
  /\ launched' = [launched EXCEPT ![t] = "ran"]
  /\ UNCHANGED <<task, sched, queue, worker, at, result, interrupted, expired, stop, finalized,
                 failed, events>>

launchedThrows(t) ==
  /\ launched[t] = "start"
  /\ MayThrow(t) /\ Threw(t)
  /\ launched' = [launched EXCEPT ![t] = "bad"]
  /\ failed' = failed \cup {t}
  /\ UNCHANGED <<task, sched, queue, worker, at, result, interrupted, expired, stop, finalized>>

launchedFails(t) ==
  /\ launched[t] = "bad" /\ Free(t)
  /\ task' = [task EXCEPT ![t].exc = TRUE]
  /\ launched' = [launched EXCEPT ![t] = "ran"]
  /\ UNCHANGED <<sched, queue, worker, at, result, interrupted, expired, stop, finalized,
                 failed, events>>

\* finalize() is called on a task that is r when its last thread leaves; bad: it throws.
Finalize(t, r, bad) ==
  /\ bad => Finalizes(r) /\ Event(Owner[t])
  /\ events' = IF bad THEN events + 1 ELSE events
  /\ failed' = IF bad THEN failed \cup {t} ELSE failed
  /\ finalized' = [finalized EXCEPT ![t] = IF Finalizes(r) THEN @ + 1 ELSE @]

launchedEnds(t) ==
  /\ launched[t] = "ran" /\ Free(t)
  /\ \E bad \in BOOLEAN :
       /\ Finalize(t, task[t], bad)
       /\ task' = [task EXCEPT ![t] = Deregistered(@, bad)]
       /\ sched' = Notified(t, task'[t])
  /\ launched' = [launched EXCEPT ![t] = "ended"]
  /\ UNCHANGED <<queue, worker, at, result, interrupted, expired, stop>>

LaunchedStep(t) ==
  launchedReturns(t) \/ launchedThrows(t) \/ launchedFails(t) \/ launchedEnds(t)

---------------------------------------------------------------------------
(* runWorkerThread *)

\* getTaskAndRegister with the tasks in state tk: the worker registers with the first task
\* that accepts it.  The tasks completed successfully before it leave the queue.
Accepting(tk) == {i \in DOMAIN queue : Registers(queue[i], tk[queue[i]])}
First(tk) == CHOOSE i \in Accepting(tk) : \A j \in Accepting(tk) : i <= j
Unfinished(q, tk) == SelectSeq(q, LAMBDA t : ~isCompletedSuccessfully(tk[t]))

getTaskAndRegister(w, tk) ==
  IF Accepting(tk) = {}
  THEN /\ \A i \in DOMAIN queue : Free(queue[i])
       /\ queue' = Unfinished(queue, tk)
       /\ task' = tk
       /\ worker' = [worker EXCEPT ![w] = [pc |-> IF stop THEN "gone" ELSE "wait",
                                           task |-> NoTask]]
  ELSE LET i == First(tk)
           t == queue[i]
       IN  /\ \A j \in 1 .. i : Free(queue[j])
           /\ queue' = Unfinished(SubSeq(queue, 1, i - 1), tk) \o SubSeq(queue, i, Len(queue))
           /\ task' = [tk EXCEPT ![t].reg = @ + 1]
           /\ worker' = [worker EXCEPT ![w] =
                           [pc |-> IF stop THEN "gone" ELSE IF t \in Launched THEN "exec" ELSE "run",
                            task |-> t]]

\* A worker without a task looks for one, or waits to be notified.
workerLooks(w) ==
  /\ worker[w].pc = "idle"
  /\ getTaskAndRegister(w, task)
  /\ UNCHANGED <<sched, launched, at, result, interrupted, expired, stop, finalized, failed,
                 events>>

\* A worker stores the exception, leaves its task and looks for another, all under
\* taskSchedulerMtx.
workerLeaves(w) ==
  LET t == worker[w].task
      r == [task[t] EXCEPT !.exc = @ \/ worker[w].pc = "bad"]
  IN  /\ worker[w].pc \in {"ok", "bad"} /\ Free(t)
      /\ \E bad \in BOOLEAN :
           LET tk == [task EXCEPT ![t] = Deregistered(r, bad)]
           IN  /\ Finalize(t, r, bad)
               /\ sched' = Notified(t, tk[t])
               /\ getTaskAndRegister(w, tk)
      /\ UNCHANGED <<launched, at, result, interrupted, expired, stop>>

WorkerStep(w) == Run(w) \/ workerLooks(w) \/ workerLeaves(w)

\* ~TaskScheduler, once every query has returned.  It notifies and joins the workers.
destroy ==
  /\ ~stop /\ \A c \in Clients : result[c] # "none"
  /\ stop' = TRUE
  /\ worker' = Woken
  /\ UNCHANGED <<task, sched, launched, queue, at, result, interrupted, expired, finalized,
                 failed, events>>

ClientStep(c) == clientCalls(c) \/ clientReturns(c)

Gone == \A w \in Workers : worker[w].pc = "gone"
Terminated == Gone /\ UNCHANGED vars

Next ==
  \/ \E w \in Workers : WorkerStep(w)
  \/ \E t \in Tasks : WaitOrError(t) \/ spuriousWake(t) \/ LaunchedStep(t)
  \/ \E c \in Clients : ClientStep(c) \/ interrupt(c)
  \/ destroy
  \/ Terminated

\* Every thread is scheduled: a worker (which waits for the task nested in its own), a
\* client, a launched thread.  run() and finalize() return, run() of an endless task only
\* once it is interrupted; waits time out; the destructor is called.  No exception, interrupt
\* or spurious wake-up need ever happen.
Ends(t) == t \notin Endless \/ interrupted[Owner[t]]
WorkerThread(w) ==
  \/ WorkerStep(w) /\ (worker[w].pc = "exec" => Ends(worker[w].task))
  \/ worker[w].pc = "nested" /\ WaitOrError(Nested[worker[w].task])
ClientThread(c) == ClientStep(c) \/ WaitOrError(Current(c))
LaunchedThread(t) == LaunchedStep(t) /\ (launched[t] = "start" => Ends(t))

Fairness ==
  /\ \A w \in Workers : WF_vars(WorkerThread(w))
  /\ \A c \in Clients : WF_vars(ClientThread(c))
  /\ \A t \in Launched : WF_vars(LaunchedThread(t))
  /\ WF_vars(destroy)

Spec == Init /\ [][Next]_vars /\ Fairness

---------------------------------------------------------------------------

TypeOK ==
  /\ task \in [Tasks -> [reg : Nat, fin : Nat, exc : BOOLEAN, init : {"no", "busy", "done"}]]
  /\ \A t \in Tasks : task[t].fin <= task[t].reg /\ task[t].reg <= MaxThreads[t]
  /\ sched \in [Tasks -> {"no", "push", "notify", "check", "wait", "timedWait", "join",
                          "done", "error"}]
  /\ launched \in [Tasks -> {"none", "start", "ran", "bad", "ended"}]
  /\ queue \in Seq(Tasks)
  /\ worker \in [Workers -> [pc : {"idle", "wait", "run", "init", "exec", "nested", "ok", "bad",
                                   "gone"},
                             task : Tasks \cup {NoTask}]]
  /\ \A c \in Clients : at[c] \in DOMAIN Plan[c]
  /\ result \in [Clients -> {"none", "done", "error"}]
  /\ interrupted \in [Clients -> BOOLEAN] /\ expired \in [Clients -> BOOLEAN]
  /\ stop \in BOOLEAN
  /\ finalized \in [Tasks -> Nat] /\ failed \subseteq Tasks
  /\ events \in 0 .. MaxEvents

Returned(t) == sched[t] \in {"done", "error"}
WorksOn(t) == {w \in Workers : worker[w].task = t}

\* When scheduleTaskAndWaitOrError returns, no thread works on the task, and none ever will:
\* it accepts no more threads, though it may still be in the queue.
ReturnsAlone ==
  \A t \in Tasks : Returned(t) =>
    /\ WorksOn(t) = {} /\ launched[t] \in {"none", "ended"}
    /\ ~Registers(t, task[t])
    /\ sched[t] = "error" => t \notin Range(queue)

\* finalize() is called once, after every thread has left the task, if none of them threw;
\* scheduleTaskAndWaitOrError returns normally exactly if it was called and did not throw.
FinalizedOnce ==
  \A t \in Tasks :
    /\ finalized[t] <= 1
    /\ finalized[t] = 1 => WorksOn(t) = {} /\ isCompletedNoLock(task[t])
    /\ sched[t] = "done" => finalized[t] = 1 /\ t \notin failed
    /\ sched[t] = "error" => t \in failed

\* No thread begins a task of a query before its dependencies have completed successfully
\* ("T_i ... without T_i deregistering Task_{j+1} cannot start").
DependenciesFirst ==
  \A c \in Clients : \A i, j \in DOMAIN Plan[c] :
    i < j /\ task[Plan[c][j]].reg > 0 =>
      isCompletedSuccessfully(task[Plan[c][i]]) /\ Plan[c][i] \notin failed

\* Every query returns, though its worker waits for a nested task, one of several threads
\* throws, or its tasks end only when the timeout interrupts them; and then ~TaskScheduler
\* joins every worker, though tasks of finished queries are still in the queue.
ShutsDown == <>Gone
=============================================================================
