--------------------------- MODULE BufferManager ---------------------------
(***************************************************************************)
(* The buffer manager of cpp-reference: threads pin, write, unpin and read *)
(* optimistically the pages of a file, and evict other pages when the pool *)
(* is full.  There are no locks; a page has one atomic word (its state, a  *)
(* version and a dirty bit), a slot of the eviction queue is atomic, and   *)
(* so is usedMemory.                                                       *)
(*                                                                         *)
(* A step does at most one operation that another thread can observe.  The *)
(* load and the successful compare-and-swap after it are one step: the     *)
(* swap succeeds only if the word has not changed.  Memory is counted in   *)
(* pages, the content of a page is the number of its writes.  The pages    *)
(* belong to a disk file; the spiller is off; the build is the one with    *)
(* mmap (not BM_MALLOC).                                                   *)
(***************************************************************************)
EXTENDS Integers, FiniteSets, FiniteSetsExt, TLC

CONSTANTS
  Threads, Pages,
  PoolSize,     \* bufferPoolSize, in pages
  Spare,        \* the eviction queue's capacity beyond PoolSize (1 to 64 in the code)
  Retries,      \* how often reserve tries again (2 in the code)
  MaxWrites,    \* bound: no write begins on a page with so many writes
  MaxVersion,   \* bound: nor on one with this version
  MaxFaults,    \* bound: failing reads and writes of the file
  NoPage

ASSUME BufferManagerAssumption ==
  /\ NoPage \notin Pages
  /\ {PoolSize, Spare, Retries, MaxWrites, MaxVersion, MaxFaults} \subseteq Nat
  /\ Spare > 0

VARIABLES
  state,        \* PageState::stateAndVersion of each page
  frame,        \* the content of its frame; Released once it was given back
  disk,         \* the content of the page in the file
  slots,        \* the eviction queue
  used,         \* usedMemory
  pc, op, arg,  \* each thread's position, its operation and its page
  loc,          \* the locals of reserve, evictPages and tryEvictPage
  seen,         \* optimisticRead: the word it loaded, and what it read since
  \* history
  latest,       \* the content each page should have
  gone,         \* the page was evicted during the optimistic read
  lost,         \* memory whose reservation an exception left behind
  stuck,        \* pages that an exception left LOCKED
  raced,        \* two threads evicted through one slot before either cleared it
  faults

memory == <<state, frame, disk, slots, used>>
threads == <<pc, op, arg, loc, seen>>
history == <<latest, gone, lost, stuck, raced, faults>>
vars == <<memory, threads, history>>

Released == -1
Blank == -2     \* a frame that DONT_READ_PAGE left as it was
Slots == 1 .. PoolSize + Spare
Operations == {"write", "new", "wrote", "read", "malloc"}
Pcs == {"idle", "spin", "reserve", "scan", "load", "lock", "check", "reset",
        "clear", "cache", "insert", "pinned", "copy", "verify", "held"}

NoLocals == [claimed |-> 0, failed |-> 0, passes |-> 0, slot |-> 0,
             found |-> {}, cand |-> NoPage, freed |-> 0]

\* PageState
Evicted == [st |-> "EVICTED", ver |-> 0, dirty |-> FALSE]
NothingSeen == [word |-> Evicted, got |-> Released]
WithState(word, st) == [word EXCEPT !.st = st]
\* A mutant: the version is not incremented
unlock_sameVersion(word) == [word EXCEPT !.st = "UNLOCKED"]

unlock(word) == [word EXCEPT !.st = "UNLOCKED", !.ver = @ + 1]
resetToEvicted(p) == state' = [state EXCEPT ![p] = Evicted]

Init ==
  /\ state = [p \in Pages |-> Evicted]
  /\ frame = [p \in Pages |-> Released]
  /\ disk = [p \in Pages |-> 0]
  /\ slots = [i \in Slots |-> NoPage]
  /\ used = 0
  /\ pc = [t \in Threads |-> "idle"]
  /\ op = [t \in Threads |-> "read"]
  /\ arg = [t \in Threads |-> NoPage]
  /\ loc = [t \in Threads |-> NoLocals]
  /\ seen = [t \in Threads |-> NothingSeen]
  /\ latest = [p \in Pages |-> 0]
  /\ gone = [t \in Threads |-> FALSE]
  /\ lost = 0
  /\ stuck = {}
  /\ raced = FALSE
  /\ faults = 0

Goto(t, next) == pc' = [pc EXCEPT ![t] = next]

\* The operation of a thread ends, by returning or by an exception.
Return(t) ==
  /\ pc' = [pc EXCEPT ![t] = "idle"]
  /\ op' = [op EXCEPT ![t] = "read"]
  /\ arg' = [arg EXCEPT ![t] = NoPage]
  /\ loc' = [loc EXCEPT ![t] = NoLocals]
  /\ seen' = [seen EXCEPT ![t] = NothingSeen]
  /\ gone' = [gone EXCEPT ![t] = FALSE]

---------------------------------------------------------------------------
(* pin, optimisticRead and mallocBuffer *)

\* A thread calls pin to change the page ("write"), pin with DONT_READ_PAGE to
\* fill it ("new"), or optimisticRead.
Begin(t, o, p) ==
  /\ pc[t] = "idle"
  /\ o \in {"write", "new", "read"}
  /\ o # "read" => state[p].ver < MaxVersion /\ latest[p] < MaxWrites
  /\ Goto(t, "spin")
  /\ op' = [op EXCEPT ![t] = o]
  /\ arg' = [arg EXCEPT ![t] = p]
  /\ UNCHANGED <<memory, loc, seen, history>>

\* pin of a page that is cached: it is locked and its frame returned.
pinCached(t) ==
  LET p == arg[t]
  IN  /\ pc[t] = "spin" /\ op[t] # "read"
      /\ state[p].st \in {"UNLOCKED", "MARKED"}
      /\ state' = [state EXCEPT ![p] = WithState(@, "LOCKED")]
      /\ Goto(t, "pinned")
      /\ UNCHANGED <<frame, disk, slots, used, op, arg, loc, seen, history>>

\* pin of an evicted page, also from optimisticRead: it is locked, and claimAFrame
\* begins to reserve memory for it.
pinEvicted(t) ==
  LET p == arg[t]
  IN  /\ pc[t] = "spin"
      /\ state[p].st = "EVICTED"
      /\ state' = [state EXCEPT ![p] = WithState(@, "LOCKED")]
      /\ used' = used + 1
      /\ Goto(t, "reserve")
      /\ UNCHANGED <<frame, disk, slots, op, arg, loc, seen, history>>

\* MemoryManager::mallocBuffer: memory that belongs to no page.
mallocBuffer(t) ==
  /\ pc[t] = "idle"
  /\ used' = used + 1
  /\ Goto(t, "reserve")
  /\ op' = [op EXCEPT ![t] = "malloc"]
  /\ UNCHANGED <<state, frame, disk, slots, arg, loc, seen, history>>

\* ~MemoryBuffer
freeBuffer(t) ==
  /\ pc[t] = "held"
  /\ used' = used - 1
  /\ Return(t)
  /\ UNCHANGED <<state, frame, disk, slots, latest, lost, stuck, raced, faults>>

\* The caller writes to the pinned page and sets it dirty.
write(t) ==
  LET p == arg[t]
  IN  /\ pc[t] = "pinned" /\ op[t] \in {"write", "new"}
      /\ frame' = [frame EXCEPT ![p] = latest[p] + 1]
      /\ latest' = [latest EXCEPT ![p] = @ + 1]
      /\ state' = [state EXCEPT ![p].dirty = TRUE]
      /\ op' = [op EXCEPT ![t] = "wrote"]
      /\ UNCHANGED <<disk, slots, used, pc, arg, loc, seen, gone, lost, stuck, raced, faults>>

unpin(t) ==
  LET p == arg[t]
  IN  /\ pc[t] = "pinned" /\ op[t] # "new"
      /\ state' = [state EXCEPT ![p] = unlock(@)]
      /\ IF op[t] = "read"
         THEN /\ Goto(t, "spin")
              /\ UNCHANGED <<op, arg, loc, seen, gone>>
         ELSE Return(t)
      /\ UNCHANGED <<frame, disk, slots, used, latest, lost, stuck, raced, faults>>


\* optimisticRead loads the word of an UNLOCKED page,
readBegin(t) ==
  LET p == arg[t]
  IN  /\ pc[t] = "spin" /\ op[t] = "read"
      /\ state[p].st = "UNLOCKED"
      /\ seen' = [seen EXCEPT ![t] = [word |-> state[p], got |-> Released]]
      /\ gone' = [gone EXCEPT ![t] = FALSE]
      /\ Goto(t, "copy")
      /\ UNCHANGED <<memory, op, arg, loc, latest, lost, stuck, raced, faults>>

\* or makes a MARKED page UNLOCKED and tries again.
readClearMark(t) ==
  LET p == arg[t]
  IN  /\ pc[t] = "spin" /\ op[t] = "read"
      /\ state[p].st = "MARKED"
      /\ state' = [state EXCEPT ![p] = WithState(@, "UNLOCKED")]
      /\ UNCHANGED <<frame, disk, slots, used, threads, history>>

\* The callback reads the frame, whatever happens to the page meanwhile.
readFrame(t) ==
  /\ pc[t] = "copy"
  /\ seen' = [seen EXCEPT ![t].got = frame[arg[t]]]
  /\ Goto(t, "verify")
  /\ UNCHANGED <<memory, op, arg, loc, history>>

\* What was read counts if the word is still the one loaded before.
Accepts(t) == state[arg[t]] = seen[t].word

readVerify(t) ==
  /\ pc[t] = "verify"
  /\ IF Accepts(t)
     THEN Return(t)
     ELSE /\ Goto(t, "spin")
          /\ seen' = [seen EXCEPT ![t] = NothingSeen]
          /\ gone' = [gone EXCEPT ![t] = FALSE]
          /\ UNCHANGED <<op, arg, loc>>
  /\ UNCHANGED <<memory, latest, lost, stuck, raced, faults>>

---------------------------------------------------------------------------
(* reserve *)

\* A mutant: the pool is one page larger
needMoreMemory_lax(t) == 1 > loc[t].claimed /\ used > PoolSize + 1 - loc[t].claimed

needMoreMemory(t) == 1 > loc[t].claimed /\ used > PoolSize - loc[t].claimed

\* The reservation stands: what the evictions claimed beyond it is given back.
reserveDone(t) ==
  /\ pc[t] = "reserve"
  /\ ~needMoreMemory(t)
  /\ used' = used - loc[t].claimed
  /\ loc' = [loc EXCEPT ![t] = NoLocals]
  /\ Goto(t, IF op[t] = "malloc" THEN "held" ELSE "cache")
  /\ UNCHANGED <<state, frame, disk, slots, op, arg, seen, history>>

\* evictPages begins.
evictPages(t) ==
  /\ pc[t] = "reserve"
  /\ needMoreMemory(t)
  /\ Goto(t, "scan")
  /\ UNCHANGED <<memory, op, arg, loc, seen, history>>

\* evictPages returns; reserve adds what was claimed, tries again or gives up.
evicted(t) ==
  /\ pc[t] = "load" /\ loc[t].found = {}
  /\ IF loc[t].freed = 0 /\ needMoreMemory(t)
     THEN /\ loc[t].failed < Retries
          /\ loc' = [loc EXCEPT ![t].failed = @ + 1]
     ELSE loc' = [loc EXCEPT ![t].claimed = @ + loc[t].freed, ![t].freed = 0]
  /\ Goto(t, "reserve")
  /\ UNCHANGED <<memory, op, arg, seen, history>>

\* reserve returns false; pin resets the page and throws.
reserveFails(t) ==
  /\ pc[t] = "load" /\ loc[t].found = {}
  /\ loc[t].freed = 0 /\ needMoreMemory(t) /\ loc[t].failed >= Retries
  /\ used' = used - (1 + loc[t].claimed)
  /\ IF op[t] = "malloc" THEN UNCHANGED state ELSE resetToEvicted(arg[t])
  /\ Return(t)
  /\ UNCHANGED <<frame, disk, slots, latest, lost, stuck, raced, faults>>

---------------------------------------------------------------------------
(* evictPages; a batch is the whole queue *)

\* The next batch.  The cursor is shared: a batch taken by one thread counts as a
\* try of all that are scanning.
next(t) ==
  /\ pc[t] = "scan" /\ loc[t].slot = 0
  /\ loc[t].found = {} /\ loc[t].passes < 2
  /\ loc' = [u \in Threads |->
               [loc[u] EXCEPT !.passes = IF pc[u] = "scan" /\ @ < 2 THEN @ + 1 ELSE @,
                              !.slot = IF u = t THEN 1 ELSE @]]
  /\ UNCHANGED <<memory, pc, op, arg, seen, history>>

\* A candidate that is MARKED is collected, one that is UNLOCKED is marked.
scan(t) ==
  LET i == loc[t].slot
      p == slots[i]
      is(st) == p # NoPage /\ state[p].st = st
  IN  /\ pc[t] = "scan" /\ i # 0
      /\ loc' = [loc EXCEPT ![t].slot = IF i = PoolSize + Spare THEN 0 ELSE i + 1,
                            ![t].found = IF is("MARKED") THEN @ \cup {i} ELSE @]
      /\ state' = IF is("UNLOCKED")
                  THEN [state EXCEPT ![p] = WithState(@, "MARKED")]
                  ELSE state
      /\ UNCHANGED <<frame, disk, slots, used, pc, op, arg, seen, history>>

scanned(t) ==
  /\ pc[t] = "scan" /\ loc[t].slot = 0
  /\ loc[t].found # {} \/ loc[t].passes >= 2
  /\ Goto(t, "load")
  /\ loc' = [loc EXCEPT ![t].passes = 0]
  /\ UNCHANGED <<memory, op, arg, seen, history>>

(* tryEvictPage *)

Slot(t) == CHOOSE i \in loc[t].found : \A j \in loc[t].found : i <= j

\* It returns, to be called with the next candidate.
NextCandidate(t, freed) ==
  /\ Goto(t, "load")
  /\ loc' = [loc EXCEPT ![t].found = @ \ {Slot(t)}, ![t].cand = NoPage,
                        ![t].freed = @ + freed]

loadCandidate(t) ==
  LET p == slots[Slot(t)]
  IN  /\ pc[t] = "load" /\ loc[t].found # {}
      /\ IF p = NoPage
         THEN NextCandidate(t, 0)
         ELSE /\ Goto(t, "lock")
              /\ loc' = [loc EXCEPT ![t].cand = p]
      /\ UNCHANGED <<memory, op, arg, seen, history>>

\* A mutant: the page may have been pinned since it was marked
lockCandidate_unchecked(t) ==
  LET p == loc[t].cand
  IN  /\ pc[t] = "lock"
      /\ IF state[p].st # "EVICTED"
         THEN /\ state' = [state EXCEPT ![p] = WithState(@, "LOCKED")]
              /\ Goto(t, "check")
              /\ UNCHANGED loc
         ELSE NextCandidate(t, 0) /\ UNCHANGED state
      /\ UNCHANGED <<frame, disk, slots, used, op, arg, seen, history>>

lockCandidate(t) ==
  LET p == loc[t].cand
  IN  /\ pc[t] = "lock"
      /\ IF state[p].st = "MARKED"
         THEN /\ state' = [state EXCEPT ![p] = WithState(@, "LOCKED")]
              /\ Goto(t, "check")
              /\ UNCHANGED loc
         ELSE NextCandidate(t, 0) /\ UNCHANGED state
      /\ UNCHANGED <<frame, disk, slots, used, op, arg, seen, history>>

\* An exception leaves pages LOCKED and memory reserved for ever.
Abandon(t, pages, mem) ==
  /\ stuck' = stuck \cup (pages \ {NoPage})
  /\ lost' = lost + mem
  /\ Return(t)

\* The slot changed before the page was locked: the page is unlocked.
unlockUnchanged(t) ==
  LET p == loc[t].cand
  IN  /\ pc[t] = "check"
      /\ slots[Slot(t)] # p
      /\ state' = [state EXCEPT ![p] = WithState(@, "UNLOCKED")]
      /\ NextCandidate(t, 0)
      /\ UNCHANGED <<frame, disk, slots, used, op, arg, seen, history>>

\* A mutant: the page is not flushed
releaseFrame_unflushed(t) ==
  LET p == loc[t].cand
  IN  /\ pc[t] = "check"
      /\ slots[Slot(t)] = p
      /\ frame' = [frame EXCEPT ![p] = Released]
      /\ state' = [state EXCEPT ![p].dirty = FALSE]
      /\ Goto(t, "reset")
      /\ UNCHANGED <<disk, slots, used, op, arg, loc, seen, history>>

\* A mutant: the candidate is not checked again
releaseFrame_unchecked(t) ==
  LET p == loc[t].cand
  IN  /\ pc[t] = "check"
      /\ disk' = IF state[p].dirty THEN [disk EXCEPT ![p] = frame[p]] ELSE disk
      /\ frame' = [frame EXCEPT ![p] = Released]
      /\ state' = [state EXCEPT ![p].dirty = FALSE]
      /\ raced' = (raced \/ \E u \in Threads \ {t} : pc[u] = "clear" /\ Slot(u) = Slot(t))
      /\ Goto(t, "reset")
      /\ UNCHANGED <<slots, used, op, arg, loc, seen, latest, gone, lost, stuck, faults>>

\* The page is flushed if it is dirty, and its frame released.
releaseFrame(t) ==
  LET p == loc[t].cand
  IN  /\ pc[t] = "check"
      /\ slots[Slot(t)] = p
      /\ disk' = IF state[p].dirty THEN [disk EXCEPT ![p] = frame[p]] ELSE disk
      /\ frame' = [frame EXCEPT ![p] = Released]
      /\ state' = [state EXCEPT ![p].dirty = FALSE]
      /\ raced' = (raced \/ \E u \in Threads \ {t} : pc[u] = "clear" /\ Slot(u) = Slot(t))
      /\ Goto(t, "reset")
      /\ UNCHANGED <<slots, used, op, arg, loc, seen, latest, gone, lost, stuck, faults>>

resetCandidate(t) ==
  LET p == loc[t].cand
  IN  /\ pc[t] = "reset"
      /\ resetToEvicted(p)
      /\ gone' = [u \in Threads |-> gone[u] \/ (pc[u] \in {"copy", "verify"} /\ arg[u] = p)]
      /\ Goto(t, "clear")
      /\ UNCHANGED <<frame, disk, slots, used, op, arg, loc, seen, latest, lost, stuck,
                     raced, faults>>

clear(t) ==
  /\ pc[t] = "clear"
  /\ slots[Slot(t)] # NoPage
  /\ slots' = [slots EXCEPT ![Slot(t)] = NoPage]
  /\ NextCandidate(t, 1)
  /\ UNCHANGED <<state, frame, disk, used, op, arg, seen, history>>

\* The slot is empty already: KU_UNREACHABLE throws, out of pin as well.
clearThrows(t) ==
  /\ pc[t] = "clear"
  /\ slots[Slot(t)] = NoPage
  /\ Abandon(t, {arg[t]}, 2 + loc[t].claimed + loc[t].freed)
  /\ UNCHANGED <<memory, latest, raced, faults>>

---------------------------------------------------------------------------
(* claimAFrame once the memory is reserved, and the rest of pin *)

cachePageIntoFrame(t) ==
  LET p == arg[t]
  IN  /\ pc[t] = "cache"
      /\ state' = [state EXCEPT ![p].dirty = FALSE]
      /\ frame' = [frame EXCEPT ![p] = IF op[t] = "new" THEN Blank ELSE disk[p]]
      /\ Goto(t, "insert")
      /\ UNCHANGED <<disk, slots, used, op, arg, loc, seen, history>>

\* EvictionQueue::insert: the cursor stands anywhere, so any empty slot may be taken.
\* If there is none, pin throws.
insert(t) ==
  /\ pc[t] = "insert"
  /\ IF \E i \in Slots : slots[i] = NoPage
     THEN /\ \E i \in Slots : slots[i] = NoPage /\ slots' = [slots EXCEPT ![i] = arg[t]]
          /\ Goto(t, "pinned")
          /\ UNCHANGED <<op, arg, loc, seen, gone, stuck, lost>>
     ELSE Abandon(t, {arg[t]}, 0) /\ UNCHANGED slots
  /\ UNCHANGED <<state, frame, disk, used, latest, raced, faults>>

\* Reading the page into its frame throws, or flushing a page that is to be evicted:
\* nothing unlocks the page, and the memory stays reserved.
fileThrows(t) ==
  /\ faults < MaxFaults
  /\ \/ pc[t] = "cache" /\ op[t] # "new"
     \/ pc[t] = "check" /\ slots[Slot(t)] = loc[t].cand /\ state[loc[t].cand].dirty
  /\ faults' = faults + 1
  /\ Abandon(t, {arg[t], loc[t].cand}, 1 + loc[t].claimed + loc[t].freed)
  /\ UNCHANGED <<memory, latest, raced>>

---------------------------------------------------------------------------
(* What the checkpoint does, while no other thread uses the pages *)

\* A page that an exception left LOCKED stops the checkpoints of the model.
Quiet == stuck = {} /\ \A t \in Threads : pc[t] \in {"idle", "held"}

flushAllDirtyPagesInFrames ==
  /\ Quiet
  /\ \E p \in Pages : state[p].dirty
  /\ disk' = [p \in Pages |-> IF state[p].dirty THEN frame[p] ELSE disk[p]]
  /\ state' = [p \in Pages |-> [state[p] EXCEPT !.dirty = FALSE]]
  /\ UNCHANGED <<frame, slots, used, threads, history>>

\* A shadow page is applied: the page is written to the file, and to its frame.
updateFrameIfPageIsInFrameWithoutLock(p) ==
  /\ Quiet
  /\ latest[p] < MaxWrites
  /\ latest' = [latest EXCEPT ![p] = @ + 1]
  /\ disk' = [disk EXCEPT ![p] = latest'[p]]
  /\ frame' = IF state[p].st = "EVICTED" THEN frame ELSE [frame EXCEPT ![p] = latest'[p]]
  /\ UNCHANGED <<state, slots, used, threads, gone, lost, stuck, raced, faults>>

\* A freed page is dropped without a flush, and its candidate removed.
removePageFromFrame(p) ==
  /\ Quiet
  /\ state[p].st \notin {"EVICTED", "LOCKED"}
  /\ frame' = [frame EXCEPT ![p] = Released]
  /\ used' = used - 1
  /\ resetToEvicted(p)
  /\ slots' = [i \in Slots |->
                 IF slots[i] # NoPage /\ state'[slots[i]].st = "EVICTED" THEN NoPage ELSE slots[i]]
  /\ latest' = [latest EXCEPT ![p] = disk[p]]
  /\ UNCHANGED <<disk, threads, gone, lost, stuck, raced, faults>>

Reserve(t) ==
  reserveDone(t) \/ evictPages(t) \/ evicted(t) \/ reserveFails(t)

Evict(t) ==
  next(t) \/ scan(t) \/ scanned(t) \/ loadCandidate(t) \/ lockCandidate(t)
  \/ unlockUnchanged(t) \/ releaseFrame(t) \/ resetCandidate(t) \/ clear(t) \/ clearThrows(t)

Access(t) ==
  pinCached(t) \/ pinEvicted(t) \/ cachePageIntoFrame(t) \/ insert(t) \/ fileThrows(t)
  \/ write(t) \/ unpin(t)
  \/ readBegin(t) \/ readClearMark(t) \/ readFrame(t) \/ readVerify(t)
  \/ mallocBuffer(t) \/ freeBuffer(t)

Step(t) ==
  \/ \E o \in Operations, p \in Pages : Begin(t, o, p)
  \/ Access(t)
  \/ Reserve(t)
  \/ Evict(t)

Exclusive ==
  \/ flushAllDirtyPagesInFrames
  \/ \E p \in Pages : updateFrameIfPageIsInFrameWithoutLock(p) \/ removePageFromFrame(p)

Next == (\E t \in Threads : Step(t)) \/ Exclusive

Spec == Init /\ [][Next]_vars

---------------------------------------------------------------------------

Words == [st : {"UNLOCKED", "LOCKED", "MARKED", "EVICTED"}, ver : Nat, dirty : BOOLEAN]

TypeOK ==
  /\ state \in [Pages -> Words]
  /\ frame \in [Pages -> Nat \cup {Released, Blank}]
  /\ disk \in [Pages -> Nat]
  /\ slots \in [Slots -> Pages \cup {NoPage}]
  /\ used \in Nat
  /\ pc \in [Threads -> Pcs]
  /\ op \in [Threads -> Operations]
  /\ arg \in [Threads -> Pages \cup {NoPage}]
  /\ loc \in [Threads -> [claimed : Nat, failed : 0 .. Retries, passes : 0 .. 2,
                          slot : Slots \cup {0}, found : SUBSET Slots,
                          cand : Pages \cup {NoPage}, freed : Nat]]
  /\ seen \in [Threads -> [word : Words, got : Nat \cup {Released, Blank}]]
  /\ latest \in [Pages -> Nat]
  /\ gone \in [Threads -> BOOLEAN]
  /\ lost \in Nat /\ stuck \subseteq Pages /\ raced \in BOOLEAN /\ faults \in 0 .. MaxFaults

Reserving == {"reserve", "scan", "load", "lock", "check", "reset", "clear"}
Holding == Reserving \cup {"cache", "insert", "pinned"}

\* t locked p to pin it, or to evict it.
Pins(t, p) == arg[t] = p /\ pc[t] \in Holding
Evicts(t, p) == loc[t].cand = p /\ pc[t] \in {"check", "reset"}

\* A page is LOCKED exactly while one thread pins or evicts it: unlock, which no longer
\* asserts it (Ref #2289), never releases another thread's lock.
LockedByOne ==
  \A p \in Pages :
    /\ state[p].st = "LOCKED" <=> p \in stuck \/ \E t \in Threads : Pins(t, p) \/ Evicts(t, p)
    /\ \A t, u \in Threads : Pins(t, p) /\ Pins(u, p) => t = u
    /\ \A t, u \in Threads : Evicts(t, p) /\ Evicts(u, p) => t = u
    /\ \A t, u \in Threads : ~(Pins(t, p) /\ Evicts(u, p))
    /\ \A t \in Threads : p \in stuck => ~Pins(t, p) /\ ~Evicts(t, p)

\* No write is lost: a cached page has the latest content in its frame, and in the file
\* too unless it is dirty; an evicted page has it in the file (tryEvictPage flushes before
\* it releases the frame, cachePageIntoFrame reads what was flushed).
NoLostWrite ==
  \A p \in Pages :
    /\ state[p].st \in {"UNLOCKED", "MARKED"} => frame[p] = latest[p]
    /\ state[p].st # "LOCKED" /\ ~state[p].dirty => disk[p] = latest[p]

\* What optimisticRead accepts is the content of the page, unless the page was evicted
\* while it was read: resetToEvicted sets the version back to 0.
OptimisticReadsCurrent ==
  \A t \in Threads :
    pc[t] = "verify" /\ Accepts(t) /\ ~gone[t] => seen[t].got = latest[arg[t]]

Resident == {p \in Pages : frame[p] # Released}
Claims(t) ==
  loc[t].claimed + loc[t].freed + (IF pc[t] \in {"reset", "clear"} THEN 1 ELSE 0)

\* The frames in memory and the buffers of the memory manager never exceed the pool, even
\* while reserve lets usedMemory do so ("we should never actually exceed the buffer pool
\* size"); and usedMemory is what they take, what is being reserved and what was claimed.
MemoryWithinPool ==
  LET held == {t \in Threads : pc[t] = "held"}
      reserving == {t \in Threads : pc[t] \in Reserving \cup {"cache"}}
  IN  /\ Cardinality(Resident) + Cardinality(held) <= PoolSize
      /\ used = Cardinality(Resident) + Cardinality(held) + Cardinality(reserving)
                + MapThenSumSet(Claims, Threads) + lost

\* A page that can be evicted is in the eviction queue ("One candidate should be stored
\* for each page currently in memory").
OneCandidatePerPage ==
  \A p \in Pages : state[p].st \in {"UNLOCKED", "MARKED"} => \E i \in Slots : slots[i] = p

\* Until two evictions meet in one slot, every page that can be evicted is in the queue,
\* there is room for a page when pin inserts it ("Eviction queue is full! This should be
\* impossible.") and EvictionQueue::clear finds its candidate (KU_UNREACHABLE).
QueueComplete ==
  ~raced => /\ OneCandidatePerPage
            /\ \A t \in Threads : /\ pc[t] = "insert" => \E i \in Slots : slots[i] = NoPage
                                  /\ pc[t] = "clear" => slots[Slot(t)] = loc[t].cand

\* The run does not go on behind an exception that left a page LOCKED or memory reserved,
\* nor once the threads that met in one slot have left it.
Unharmed == stuck = {} /\ lost = 0 /\ (raced => \E t \in Threads : pc[t] = "clear")

Symmetry == Permutations(Pages) \cup Permutations(Threads)
=============================================================================
