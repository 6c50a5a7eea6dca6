----------------------- MODULE BufferManagerTheorems ------------------------
(***************************************************************************)
(* IInv is an invariant, and what follows from it: LockedByOne, NoLostWrite *)
(* and OptimisticReadsCurrent for any number of threads and pages, any pool *)
(* and any bounds.                                                         *)
(***************************************************************************)
EXTENDS BufferManagerPageSteps

(* What the checkpoint does, while no thread uses the pages. *)

\* No page is LOCKED while no thread uses the pages.
LEMMA QuietPages ==
  ASSUME IInv, Quiet
  PROVE  /\ \A t \in Threads, p \in Pages : ~Pins(t, p) /\ ~Evicts(t, p)
         /\ \A p \in Pages : state[p].st # "LOCKED"
<1>1. \A t \in Threads, p \in Pages : ~Pins(t, p) /\ ~Evicts(t, p)
  BY DEF Quiet, Pins, Evicts, Holding, Reserving
<1> QED BY <1>1 DEF IInv, LockedByOne, Quiet

\* A step of the checkpoint leaves the threads alone.
LEMMA QuietStep ==
  ASSUME IInv, Quiet, PageTypes', UNCHANGED <<threads, gone, stuck>>,
         \A p \in Pages : state'[p].st # "LOCKED" /\ PageOK(p)'
  PROVE  IInv'
<1>1. UNCHANGED <<pc, op, arg, loc, seen, gone, stuck>> /\ stuck = {}
  BY DEF threads, Quiet
<1>2. TypeInv'
  BY <1>1 DEF IInv, TypeInv, ThreadTypes
<1>3. ASSUME NEW t \in Threads PROVE PlaceOK(t)'
  <2>1. PlaceOK(t)
    BY DEF IInv
  <2> QED BY <1>1, <2>1 DEF PlaceOK
<1>4. ASSUME NEW t \in Threads PROVE pc'[t] \in {"idle", "held"}
  BY <1>1 DEF Quiet
<1>5. ASSUME NEW t \in Threads, NEW p \in Pages
      PROVE  ~Pins(t, p)' /\ ~Evicts(t, p)' /\ ThreadOK(t, p)' /\ ReadOK(t, p)'
  BY <1>4 DEF Pins, Evicts, ThreadOK, ReadOK, Reads, Holding, Reserving
<1>6. LockedByOne'
  BY <1>1, <1>5 DEF LockedByOne
<1> QED BY <1>2, <1>3, <1>5, <1>6 DEF IInv

\* flushAllDirtyPagesInFrames writes what the frames hold.
LEMMA flushStep ==
  ASSUME IInv, flushAllDirtyPagesInFrames
  PROVE  IInv'
<1>0. PageTypes
  BY DEF IInv, TypeInv
<1>1. /\ Quiet /\ UNCHANGED <<frame, slots, latest, threads, gone, stuck>>
      /\ disk' = [p \in Pages |-> IF state[p].dirty THEN frame[p] ELSE disk[p]]
      /\ state' = [p \in Pages |-> [state[p] EXCEPT !.dirty = FALSE]]
  BY DEF flushAllDirtyPagesInFrames, history
<1>2. ASSUME NEW p \in Pages
      PROVE  /\ state'[p] \in Words /\ disk'[p] \in Int
             /\ state'[p].st # "LOCKED" /\ PageOK(p)'
  <2>1. state[p] \in Words /\ PageOK(p) /\ state[p].st # "LOCKED"
    BY <1>0, <1>1, QuietPages DEF IInv, PageTypes
  <2>2. /\ state'[p] \in Words /\ state'[p].st = state[p].st /\ ~state'[p].dirty
    BY <1>1, <2>1, WordTypes, WordFields
  <2>3. state[p].dirty => state[p].st \in {"UNLOCKED", "MARKED"}
    BY <2>1 DEF Words, PageOK
  <2>4. disk'[p] = latest[p] /\ disk'[p] \in Int
    BY <1>0, <1>1, <2>1, <2>3 DEF PageOK, PageTypes
  <2> QED BY <1>1, <2>1, <2>2, <2>4 DEF PageOK
<1>3. PageTypes'
  BY <1>0, <1>1, <1>2 DEF PageTypes
<1> QED BY <1>1, <1>2, <1>3, QuietStep

\* A shadow page is written to the file and to the frame.
LEMMA updateFrameStep ==
  ASSUME IInv, NEW p \in Pages, updateFrameIfPageIsInFrameWithoutLock(p)
  PROVE  IInv'
<1>0. PageTypes
  BY DEF IInv, TypeInv
<1> DEFINE n == latest[p] + 1
<1>1. /\ Quiet /\ UNCHANGED <<state, slots, threads, gone, stuck>>
      /\ latest' = [latest EXCEPT ![p] = n] /\ disk' = [disk EXCEPT ![p] = n]
      /\ frame' = IF state[p].st = "EVICTED" THEN frame ELSE [frame EXCEPT ![p] = n]
  BY <1>0 DEF updateFrameIfPageIsInFrameWithoutLock, PageTypes
<1>2. n \in Int
  BY <1>0 DEF PageTypes
<1> HIDE DEF n
<1>3. latest' \in [Pages -> Int] /\ disk' \in [Pages -> Int] /\ frame' \in [Pages -> Int]
  BY <1>0, <1>1, <1>2 DEF PageTypes
<1>4. PageTypes'
  BY <1>0, <1>1, <1>3 DEF PageTypes
<1>5. ASSUME NEW q \in Pages PROVE state'[q].st # "LOCKED" /\ PageOK(q)'
  <2>1. PageOK(q) /\ state[q].st # "LOCKED"
    BY <1>1, QuietPages DEF IInv
  <2>2. CASE q # p
    <3>1. frame'[q] = frame[q] /\ disk'[q] = disk[q] /\ latest'[q] = latest[q]
      BY <1>0, <1>1, <2>2 DEF PageTypes
    <3> QED BY <1>1, <2>1, <3>1 DEF PageOK
  <2>3. CASE q = p
    <3>1. disk'[p] = n /\ latest'[p] = n /\ (state[p].st # "EVICTED" => frame'[p] = n)
      BY <1>0, <1>1 DEF PageTypes
    <3> QED BY <1>1, <2>1, <2>3, <3>1 DEF PageOK
  <2> QED BY <2>2, <2>3
<1> QED BY <1>1, <1>4, <1>5, QuietStep

\* removePageFromFrame drops a page.
LEMMA removePageStep ==
  ASSUME IInv, NEW p \in Pages, removePageFromFrame(p)
  PROVE  IInv'
<1>0. PageTypes
  BY DEF IInv, TypeInv
<1>1. /\ Quiet /\ UNCHANGED <<disk, threads, gone, stuck>>
      /\ state' = [state EXCEPT ![p] = Evicted]
      /\ frame' = [frame EXCEPT ![p] = Released] /\ latest' = [latest EXCEPT ![p] = disk[p]]
      /\ slots' = [i \in Slots |-> IF slots[i] # NoPage /\ state'[slots[i]].st = "EVICTED"
                                   THEN NoPage ELSE slots[i]]
  BY DEF removePageFromFrame, resetToEvicted
<1>2. slots' \in [Slots -> Pages \cup {NoPage}]
  BY <1>0, <1>1 DEF PageTypes
<1>3. /\ state' \in [Pages -> Words] /\ state'[p] = Evicted
      /\ \A q \in Pages \ {p} : state'[q] = state[q]
  BY <1>0, <1>1, Sentinels, StateOf
<1>4. /\ frame' \in [Pages -> Int] /\ latest' \in [Pages -> Int] /\ latest'[p] = disk[p]
      /\ \A q \in Pages \ {p} : frame'[q] = frame[q] /\ latest'[q] = latest[q]
  BY <1>0, <1>1 DEF PageTypes, Released
<1>5. PageTypes'
  BY <1>0, <1>1, <1>2, <1>3, <1>4 DEF PageTypes
<1>6. ASSUME NEW q \in Pages PROVE state'[q].st # "LOCKED" /\ PageOK(q)'
  <2>1. PageOK(q) /\ state[q].st # "LOCKED"
    BY <1>1, QuietPages DEF IInv
  <2>2. CASE q # p
    BY <1>1, <1>3, <1>4, <2>1, <2>2 DEF PageOK
  <2>3. CASE q = p
    BY <1>1, <1>3, <1>4, <2>3 DEF PageOK, Evicted
  <2> QED BY <2>2, <2>3
<1> QED BY <1>1, <1>5, <1>6, QuietStep

-----------------------------------------------------------------------------

\* The invariant holds initially.
LEMMA InitIInv == Init => IInv
<1> SUFFICES ASSUME Init PROVE IInv
  OBVIOUS
<1>1. ASSUME NEW t \in Threads
      PROVE  /\ pc[t] = "idle" /\ op[t] = "read" /\ arg[t] = NoPage /\ loc[t] = NoLocals
             /\ seen[t] = NothingSeen /\ gone[t] = FALSE
  BY DEF Init
<1>2. ASSUME NEW p \in Pages
      PROVE  state[p] = Evicted /\ frame[p] = Released /\ disk[p] = 0 /\ latest[p] = 0
  BY DEF Init
<1>3. PageTypes
  BY Sentinels DEF Init, PageTypes, Released
<1>4. ThreadTypes
  BY Sentinels DEF Init, ThreadTypes, Pcs, Operations
<1>5. ASSUME NEW t \in Threads PROVE PlaceOK(t)
  BY <1>1, Sentinels DEF PlaceOK, Reserving
<1>6. ASSUME NEW p \in Pages PROVE PageOK(p) /\ state[p].st # "LOCKED"
  BY <1>2 DEF PageOK, Evicted
<1>7. ASSUME NEW t \in Threads, NEW p \in Pages
      PROVE  ~Pins(t, p) /\ ~Evicts(t, p) /\ ThreadOK(t, p) /\ ReadOK(t, p)
  BY <1>1 DEF Pins, Evicts, ThreadOK, ReadOK, Reads, Holding, Reserving
<1>8. LockedByOne
  BY <1>6, <1>7 DEF LockedByOne, Init
<1> QED BY <1>3, <1>4, <1>5, <1>6, <1>7, <1>8 DEF IInv, TypeInv

\* Every step of a thread preserves it.
LEMMA StepIInv ==
  ASSUME IInv, NEW t \in Threads, Step(t)
  PROVE  IInv'
<1>1. ASSUME NEW o \in Operations, NEW p \in Pages, Begin(t, o, p) PROVE IInv'
  BY <1>1, BeginStep
<1>2. CASE Access(t)
  BY <1>2, pinCachedStep, pinEvictedStep, cachePageIntoFrameStep, insertStep, fileThrowsStep,
     writeStep, unpinStep, readBeginStep, readClearMarkStep, readFrameStep, readVerifyStep,
     mallocBufferStep, freeBufferStep DEF Access
<1>3. CASE Reserve(t)
  BY <1>3, reserveDoneStep, evictPagesStep, evictedStep, reserveFailsStep DEF Reserve
<1>4. CASE Evict(t)
  BY <1>4, nextStep, scanStep, scannedStep, loadCandidateStep, lockCandidateStep,
     unlockUnchangedStep, releaseFrameStep, resetCandidateStep, clearStep, clearThrowsStep
     DEF Evict
<1> QED BY <1>1, <1>2, <1>3, <1>4 DEF Step

\* So does a stuttering step.
LEMMA StutterIInv ==
  ASSUME IInv, UNCHANGED vars
  PROVE  IInv'
<1>1. UNCHANGED <<state, frame, disk, slots, latest, pc, op, arg, loc, seen, gone, stuck>>
  BY DEF vars, memory, threads, history
<1>2. TypeInv'
  BY <1>1 DEF IInv, TypeInv, PageTypes, ThreadTypes
<1>3. ASSUME NEW t \in Threads, NEW p \in Pages
      PROVE  /\ Pins(t, p)' <=> Pins(t, p)
             /\ Evicts(t, p)' <=> Evicts(t, p)
             /\ Resets(t, p)' <=> Resets(t, p)
  BY <1>1 DEF Pins, Evicts, Resets
<1>4. LockedByOne'
  BY <1>1, <1>3 DEF IInv, LockedByOne
<1>5. (\A t \in Threads : PlaceOK(t)') /\ (\A p \in Pages : PageOK(p)')
  BY <1>1 DEF IInv, PlaceOK, PageOK
<1>6. ASSUME NEW t \in Threads, NEW p \in Pages PROVE ThreadOK(t, p)' /\ ReadOK(t, p)'
  <2>1. ThreadOK(t, p) /\ ReadOK(t, p)
    BY DEF IInv
  <2>2. Unsettled(p)' <=> Unsettled(p)
    BY <1>1, <1>3 DEF Unsettled
  <2>3. ThreadOK(t, p)'
    BY <1>1, <2>1 DEF ThreadOK
  <2>4. ReadOK(t, p)'
    BY <1>1, <1>3, <2>1, <2>2 DEF ReadOK, Reads
  <2> QED BY <2>3, <2>4
<1> QED BY <1>2, <1>4, <1>5, <1>6 DEF IInv

\* So does every step.
LEMMA NextIInv == IInv /\ [Next]_vars => IInv'
<1> SUFFICES ASSUME IInv, [Next]_vars PROVE IInv'
  OBVIOUS
<1>1. CASE \E t \in Threads : Step(t)
  BY <1>1, StepIInv
<1>2. CASE Exclusive
  BY <1>2, flushStep, updateFrameStep, removePageStep DEF Exclusive
<1>3. CASE UNCHANGED vars
  BY <1>3, StutterIInv
<1> QED BY <1>1, <1>2, <1>3 DEF Next

\* The inductive invariant holds in every state the buffer manager can reach.
THEOREM PagesInvariance == Spec => []IInv
BY InitIInv, NextIInv, PTL DEF Spec

\* A page is LOCKED exactly while one thread pins or evicts it, or an exception left it so:
\* pin, tryEvictPage and unpin never release a lock that another thread holds.
THEOREM LocksExclusive == Spec => []LockedByOne
<1>1. IInv => LockedByOne
  BY DEF IInv
<1> QED BY <1>1, PagesInvariance, PTL

\* A cached page has the latest content in its frame, and in the file unless it is dirty;
\* an evicted page has it in the file: tryEvictPage and cachePageIntoFrame lose no write.
THEOREM WritesKept == Spec => []NoLostWrite
<1>1. IInv => NoLostWrite
  BY DEF IInv, PageOK, NoLostWrite
<1> QED BY <1>1, PagesInvariance, PTL

\* What optimisticRead accepts is the content of the page, unless the page was evicted
\* while it was read.
THEOREM ReadsCurrent == Spec => []OptimisticReadsCurrent
<1>1. IInv => OptimisticReadsCurrent
  <2> SUFFICES ASSUME IInv, NEW t \in Threads, pc[t] = "verify", Accepts(t), ~gone[t]
               PROVE  seen[t].got = latest[arg[t]]
    BY DEF OptimisticReadsCurrent
  <2>1. PICK p \in Pages : p = arg[t]
    BY DEF IInv, PlaceOK
  <2>2. Reads(t, p) /\ ReadOK(t, p)
    BY <2>1 DEF Reads, IInv
  <2>3. state[p] = seen[t].word
    BY <2>1 DEF Accepts
  <2>4. state[p].st # "LOCKED"
    BY <2>2, <2>3 DEF ReadOK
  <2>5. ~Unsettled(p)
    BY <2>4, FreePage
  <2> QED BY <2>1, <2>2, <2>3, <2>5 DEF ReadOK
<1> QED BY <1>1, PagesInvariance, PTL
=============================================================================
