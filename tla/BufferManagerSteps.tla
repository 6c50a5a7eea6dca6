------------------------- MODULE BufferManagerSteps -------------------------
(***************************************************************************)
(* The actions of BufferManager that change no page preserve IInv.         *)
(***************************************************************************)
EXTENDS BufferManagerProofs

\* The values of Return and resetToEvicted have their types.
LEMMA Sentinels ==
  /\ NoLocals \in Locals /\ NoLocals.cand = NoPage
  /\ Evicted \in Words
  /\ NothingSeen \in [word : Words, got : Int]
<1>1. Evicted \in Words
  BY DEF Evicted, Words
<1> QED BY <1>1 DEF NoLocals, Locals, NothingSeen, Released

\* What PageState's operations make of a word is a word.
LEMMA WordTypes ==
  ASSUME NEW w \in Words
  PROVE  /\ \A st \in {"UNLOCKED", "LOCKED", "MARKED"} : WithState(w, st) \in Words
         /\ unlock(w) \in Words
         /\ \A b \in BOOLEAN : [w EXCEPT !.dirty = b] \in Words
<1>1. \A st \in {"UNLOCKED", "LOCKED", "MARKED"} : WithState(w, st) \in Words
  BY DEF Words, WithState
<1>2. unlock(w) \in Words
  <2> DEFINE n == w.ver + 1
  <2>1. n \in Nat
    BY DEF Words
  <2>2. unlock(w) = [w EXCEPT !.st = "UNLOCKED", !.ver = n]
    BY DEF unlock
  <2> HIDE DEF n
  <2>3. [w EXCEPT !.st = "UNLOCKED", !.ver = n] \in Words
    BY <2>1 DEF Words
  <2> QED BY <2>2, <2>3
<1>3. \A b \in BOOLEAN : [w EXCEPT !.dirty = b] \in Words
  BY DEF Words
<1> QED BY <1>1, <1>2, <1>3

\* What PageState's operations change in a word.
LEMMA WordFields ==
  ASSUME NEW w \in Words
  PROVE  /\ \A st : WithState(w, st).st = st
         /\ \A st : WithState(w, st).ver = w.ver /\ WithState(w, st).dirty = w.dirty
         /\ unlock(w).st = "UNLOCKED" /\ unlock(w).ver > w.ver /\ unlock(w).dirty = w.dirty
         /\ \A b : LET v == [w EXCEPT !.dirty = b]
                   IN  v.st = w.st /\ v.ver = w.ver /\ v.dirty = b
BY DEF Words, WithState, unlock

\* A page that is not LOCKED is nobody's; one that t has locked is t's alone.
LEMMA FreePage ==
  ASSUME IInv, NEW p \in Pages, state[p].st # "LOCKED"
  PROVE  ~Unsettled(p) /\ \A u \in Threads : ~Pins(u, p) /\ ~Evicts(u, p)
BY DEF IInv, LockedByOne, Unsettled, Resets, Evicts

\* A page that t has locked is t's alone.
LEMMA OwnPage ==
  ASSUME IInv, NEW t \in Threads, NEW p \in Pages, Pins(t, p) \/ Evicts(t, p)
  PROVE  /\ state[p].st = "LOCKED" /\ p \notin stuck
         /\ ~(Pins(t, p) /\ Evicts(t, p))
         /\ \A u \in Threads \ {t} : ~Pins(u, p) /\ ~Evicts(u, p)
BY DEF IInv, LockedByOne

\* Readers of a page are the only ones to know of it, or it is pinned.
LEMMA ReadersPage ==
  ASSUME IInv, NEW t \in Threads, NEW r \in Threads \ {t}, NEW p \in Pages,
         OthersSame(t), Reads(r, p)'
  PROVE  /\ state[p].st # "EVICTED"
         /\ \A u \in Threads : Pins(u, p) => pc[u] = "pinned"
<1>1. Reads(r, p)
  BY DEF OthersSame, Reads
<1> QED BY <1>1 DEF IInv, ReadOK

\* The operation ends.
LEMMA Returning ==
  ASSUME ThreadTypes, NEW t \in Threads, Return(t)
  PROVE  /\ ThreadTypes' /\ OthersSame(t) /\ PlaceOK(t)'
         /\ pc'[t] = "idle" /\ loc'[t].cand = NoPage
         /\ \A q \in Pages : /\ ~Pins(t, q)' /\ ~Evicts(t, q)' /\ ~Resets(t, q)'
                             /\ ThreadOK(t, q)' /\ ReadOK(t, q)'
<1>1. pc' \in [Threads -> Pcs] /\ op' \in [Threads -> Operations]
  BY DEF ThreadTypes, Return, Pcs, Operations
<1>2. arg' \in [Threads -> Pages \cup {NoPage}] /\ gone' \in [Threads -> BOOLEAN]
  BY DEF ThreadTypes, Return
<1>3. loc' \in [Threads -> Locals]
  BY Sentinels DEF ThreadTypes, Return
<1>4. seen' \in [Threads -> [word : Words, got : Int]]
  BY Sentinels DEF ThreadTypes, Return
<1>5. pc'[t] = "idle" /\ loc'[t].cand = NoPage /\ arg'[t] = NoPage
  BY Sentinels DEF ThreadTypes, Return
<1>6. OthersSame(t)
  BY DEF ThreadTypes, Return, OthersSame
<1>7. PlaceOK(t)'
  BY <1>5 DEF PlaceOK, Reserving
<1>8. ASSUME NEW q \in Pages
      PROVE  /\ ~Pins(t, q)' /\ ~Evicts(t, q)' /\ ~Resets(t, q)'
             /\ ThreadOK(t, q)' /\ ReadOK(t, q)'
  BY <1>5 DEF Pins, Evicts, Resets, ThreadOK, ReadOK, Reads, Holding, Reserving
<1> QED BY <1>1, <1>2, <1>3, <1>4, <1>5, <1>6, <1>7, <1>8 DEF ThreadTypes

\* The thread goes on, with the same locals or with new ones.
LEMMA Moving ==
  ASSUME ThreadTypes, NEW t \in Threads, NEW x \in Pcs, Goto(t, x),
         UNCHANGED <<op, arg, loc, seen, gone>>
  PROVE  /\ ThreadTypes' /\ OthersSame(t) /\ pc'[t] = x
BY DEF ThreadTypes, Goto, OthersSame

\* The thread goes on with new locals.
LEMMA MovingWith ==
  ASSUME ThreadTypes, NEW t \in Threads, NEW x \in Pcs, Goto(t, x), NEW l \in Locals,
         loc' = [loc EXCEPT ![t] = l], UNCHANGED <<op, arg, seen, gone>>
  PROVE  /\ ThreadTypes' /\ OthersSame(t) /\ pc'[t] = x /\ loc'[t] = l
<1>1. ThreadTypes'
  BY DEF ThreadTypes, Goto
<1>2. OthersSame(t) /\ pc'[t] = x /\ loc'[t] = l
  BY DEF ThreadTypes, Goto, OthersSame
<1> QED BY <1>1, <1>2

\* tryEvictPage returns, and t goes on with the next candidate.
LEMMA NextCandidateMoves ==
  ASSUME ThreadTypes, NEW t \in Threads, NEW n \in Int, NextCandidate(t, n),
         UNCHANGED <<op, arg, seen, gone>>
  PROVE  /\ ThreadTypes' /\ OthersSame(t) /\ pc'[t] = "load" /\ loc'[t].cand = NoPage
<1> DEFINE l == [loc[t] EXCEPT !.found = @ \ {Slot(t)}, !.cand = NoPage, !.freed = @ + n]
<1>1. loc[t] \in Locals
  BY DEF ThreadTypes
<1>2. l \in Locals /\ l.cand = NoPage
  <2>1. loc[t].found \ {Slot(t)} \in SUBSET Slots /\ loc[t].freed + n \in Int
    BY <1>1 DEF Locals
  <2> QED BY <1>1, <2>1 DEF Locals
<1>3. loc' = [loc EXCEPT ![t] = l]
  BY <1>1 DEF NextCandidate, ThreadTypes, Locals
<1>4. Goto(t, "load") /\ "load" \in Pcs
  BY DEF NextCandidate, Pcs
<1> HIDE DEF l
<1> QED BY <1>2, <1>3, <1>4, MovingWith

-----------------------------------------------------------------------------
(* Steps that touch no page. *)

\* pin or optimisticRead is called.
LEMMA BeginStep ==
  ASSUME IInv, NEW t \in Threads, NEW o \in Operations, NEW p \in Pages, Begin(t, o, p)
  PROVE  IInv'
<1>0. PageTypes /\ ThreadTypes /\ PlaceOK(t)
  BY DEF IInv, TypeInv
<1>1. /\ pc[t] = "idle" /\ o # "malloc"
      /\ pc' = [pc EXCEPT ![t] = "spin"] /\ op' = [op EXCEPT ![t] = o]
      /\ arg' = [arg EXCEPT ![t] = p]
      /\ UNCHANGED <<state, frame, disk, slots, latest, loc, seen, gone, stuck>>
  BY DEF Begin, Goto, memory, history
<1>2. pc'[t] = "spin" /\ arg'[t] = p /\ op'[t] = o
  BY <1>0, <1>1 DEF ThreadTypes
<1>3. TypeInv'
  BY <1>0, <1>1 DEF TypeInv, PageTypes, ThreadTypes, Pcs
<1>4. OthersSame(t)
  BY <1>0, <1>1 DEF ThreadTypes, OthersSame
<1>5. PlaceOK(t)'
  BY <1>0, <1>1, <1>2 DEF PlaceOK, Reserving
<1>6. ASSUME NEW q \in Pages
      PROVE  PageSame(q) /\ HoldSame(t, q) /\ ThreadOK(t, q)' /\ ReadOK(t, q)'
  BY <1>1, <1>2 DEF PageSame, HoldSame, ThreadOK, ReadOK, Reads, Pins, Evicts, Resets,
                    Holding, Reserving
<1> QED BY <1>1, <1>3, <1>4, <1>5, <1>6, InnerStep

\* mallocBuffer begins to reserve memory.
LEMMA mallocBufferStep ==
  ASSUME IInv, NEW t \in Threads, mallocBuffer(t)
  PROVE  IInv'
<1>0. PageTypes /\ ThreadTypes /\ PlaceOK(t)
  BY DEF IInv, TypeInv
<1>1. /\ pc[t] = "idle"
      /\ pc' = [pc EXCEPT ![t] = "reserve"] /\ op' = [op EXCEPT ![t] = "malloc"]
      /\ UNCHANGED <<state, frame, disk, slots, latest, arg, loc, seen, gone, stuck>>
  BY DEF mallocBuffer, Goto, history
<1>2. pc'[t] = "reserve" /\ arg'[t] = NoPage /\ op'[t] = "malloc" /\ loc'[t].cand = NoPage
  BY <1>0, <1>1 DEF ThreadTypes, PlaceOK
<1>3. TypeInv'
  BY <1>0, <1>1 DEF TypeInv, PageTypes, ThreadTypes, Pcs, Operations
<1>4. OthersSame(t)
  BY <1>0, <1>1 DEF ThreadTypes, OthersSame
<1>5. PlaceOK(t)'
  BY <1>2, BufferManagerAssumption DEF PlaceOK, Reserving
<1>6. ASSUME NEW q \in Pages
      PROVE  PageSame(q) /\ HoldSame(t, q) /\ ThreadOK(t, q)' /\ ReadOK(t, q)'
  <2>1. arg'[t] # q /\ loc'[t].cand # q
    BY <1>2, BufferManagerAssumption
  <2> QED BY <1>1, <1>2, <2>1 DEF PageSame, HoldSame, ThreadOK, ReadOK, Reads, Pins, Evicts,
                                  Resets, Holding, Reserving
<1> QED BY <1>1, <1>3, <1>4, <1>5, <1>6, InnerStep

\* A buffer is freed.
LEMMA freeBufferStep ==
  ASSUME IInv, NEW t \in Threads, freeBuffer(t)
  PROVE  IInv'
<1>0. PageTypes /\ ThreadTypes
  BY DEF IInv, TypeInv
<1>1. /\ pc[t] = "held" /\ Return(t)
      /\ UNCHANGED <<state, frame, disk, slots, latest, stuck>>
  BY DEF freeBuffer
<1>2. TypeInv'
  BY <1>0, <1>1, Returning DEF TypeInv, PageTypes
<1>3. ASSUME NEW q \in Pages PROVE PageSame(q) /\ HoldSame(t, q)
  BY <1>0, <1>1, Returning DEF PageSame, HoldSame, Pins, Evicts, Resets, Holding, Reserving
<1> QED BY <1>0, <1>1, <1>2, <1>3, Returning, InnerStep

\* optimisticRead loads the word: nobody has locked an UNLOCKED page.
LEMMA readBeginStep ==
  ASSUME IInv, NEW t \in Threads, readBegin(t)
  PROVE  IInv'
<1>0. PageTypes /\ ThreadTypes /\ PlaceOK(t)
  BY DEF IInv, TypeInv
<1>1. /\ pc[t] = "spin" /\ arg[t] \in Pages /\ state[arg[t]].st = "UNLOCKED"
      /\ pc' = [pc EXCEPT ![t] = "copy"]
      /\ seen' = [seen EXCEPT ![t] = [word |-> state[arg[t]], got |-> Released]]
      /\ gone' = [gone EXCEPT ![t] = FALSE]
      /\ UNCHANGED <<state, frame, disk, slots, latest, op, arg, loc, stuck>>
  BY <1>0 DEF readBegin, Goto, memory, PlaceOK
<1>2. pc'[t] = "copy" /\ seen'[t].word = state[arg[t]]
  BY <1>0, <1>1 DEF ThreadTypes
<1>3. TypeInv'
  <2>1. [word |-> state[arg[t]], got |-> Released] \in [word : Words, got : Int]
    BY <1>0, <1>1 DEF PageTypes, Released
  <2> QED BY <1>0, <1>1, <2>1 DEF TypeInv, PageTypes, ThreadTypes, Pcs
<1>4. OthersSame(t)
  BY <1>0, <1>1 DEF ThreadTypes, OthersSame
<1>5. PlaceOK(t)'
  BY <1>0, <1>1, <1>2 DEF PlaceOK, Reserving
<1>6. ASSUME NEW q \in Pages PROVE PageSame(q) /\ HoldSame(t, q) /\ ThreadOK(t, q)'
  BY <1>1, <1>2 DEF PageSame, HoldSame, ThreadOK, Pins, Evicts, Resets, Holding, Reserving
<1>7. ASSUME NEW q \in Pages PROVE ReadOK(t, q)'
  <2> SUFFICES ASSUME q = arg[t] PROVE ReadOK(t, q)'
    BY <1>1 DEF ReadOK, Reads
  <2>1. \A u \in Threads : ~Pins(u, q)
    BY <1>1, FreePage
  <2>2. \A u \in Threads : ~Pins(u, q)'
    BY <1>2, <1>4, <2>1 DEF OthersSame, Pins, Holding, Reserving
  <2>3. state'[q].ver >= seen'[t].word.ver
    BY <1>0, <1>1, <1>2 DEF PageTypes, Words
  <2> QED BY <1>1, <1>2, <2>2, <2>3 DEF ReadOK
<1> QED BY <1>1, <1>3, <1>4, <1>5, <1>6, <1>7, InnerStep

\* While a page is read that was not evicted, its frame holds its content, unless it is
\* unsettled.
LEMMA readFrameStep ==
  ASSUME IInv, NEW t \in Threads, readFrame(t)
  PROVE  IInv'
<1>0. PageTypes /\ ThreadTypes /\ PlaceOK(t)
  BY DEF IInv, TypeInv
<1>1. /\ pc[t] = "copy" /\ arg[t] \in Pages
      /\ pc' = [pc EXCEPT ![t] = "verify"]
      /\ seen' = [seen EXCEPT ![t].got = frame[arg[t]]]
      /\ UNCHANGED <<state, frame, disk, slots, latest, op, arg, loc, gone, stuck>>
  BY <1>0 DEF readFrame, Goto, memory, history, PlaceOK
<1>2. pc'[t] = "verify" /\ seen'[t].word = seen[t].word /\ seen'[t].got = frame[arg[t]]
  BY <1>0, <1>1 DEF ThreadTypes
<1>3. TypeInv'
  <2>1. frame[arg[t]] \in Int
    BY <1>0, <1>1 DEF PageTypes
  <2>2. seen' \in [Threads -> [word : Words, got : Int]]
    BY <1>0, <1>1, <2>1 DEF ThreadTypes
  <2> QED BY <1>0, <1>1, <2>2 DEF TypeInv, PageTypes, ThreadTypes, Pcs
<1>4. OthersSame(t)
  BY <1>0, <1>1 DEF ThreadTypes, OthersSame
<1>5. PlaceOK(t)'
  BY <1>0, <1>1, <1>2 DEF PlaceOK, Reserving
<1>6. ASSUME NEW q \in Pages PROVE PageSame(q) /\ HoldSame(t, q) /\ ThreadOK(t, q)'
  BY <1>1, <1>2 DEF PageSame, HoldSame, ThreadOK, Pins, Evicts, Resets, Holding, Reserving
<1>7. ASSUME NEW q \in Pages PROVE ReadOK(t, q)'
  <2> SUFFICES ASSUME Reads(t, q)' PROVE ReadOK(t, q)'
    BY DEF ReadOK
  <2>1. arg[t] = q /\ Reads(t, q)
    BY <1>1 DEF Reads
  <2>2. /\ seen[t].word.st = "UNLOCKED" /\ state[q].st # "EVICTED"
        /\ \A u \in Threads : Pins(u, q) => pc[u] = "pinned"
        /\ state[q].ver >= seen[t].word.ver
    BY <2>1 DEF IInv, ReadOK
  <2>3. \A u \in Threads : /\ Pins(u, q)' <=> Pins(u, q)
                           /\ Resets(u, q)' <=> Resets(u, q)
    BY <1>1, <1>2, <1>4 DEF OthersSame, Pins, Resets, Holding, Reserving
  <2>4. Unsettled(q)' <=> Unsettled(q)
    BY <1>1, <2>3 DEF Unsettled
  <2>5. ~Unsettled(q) => frame[q] = latest[q]
    <3>1. CASE state[q].st # "LOCKED"
      <4>1. state[q].st \in {"UNLOCKED", "MARKED"}
        BY <1>0, <2>2, <3>1 DEF PageTypes, Words
      <4> QED BY <4>1 DEF IInv, PageOK
    <3>2. CASE state[q].st = "LOCKED" /\ ~Unsettled(q)
      <4>1. PICK u \in Threads : Evicts(u, q)
        BY <3>2 DEF IInv, LockedByOne, Unsettled
      <4>2. loc[u].cand = q /\ pc[u] = "check"
        BY <3>2, <4>1 DEF Evicts, Unsettled, Resets
      <4> QED BY <4>2 DEF IInv, ThreadOK
    <3> QED BY <3>1, <3>2
  <2>6. \A u \in Threads : Pins(u, q)' => pc'[u] = "pinned"
    BY <1>1, <1>4, <2>2, <2>3 DEF OthersSame, Pins, Holding, Reserving
  <2> QED BY <1>1, <1>2, <2>1, <2>2, <2>4, <2>5, <2>6 DEF ReadOK
<1> QED BY <1>1, <1>3, <1>4, <1>5, <1>6, <1>7, InnerStep

\* optimisticRead compares the words, and returns or tries again.
LEMMA readVerifyStep ==
  ASSUME IInv, NEW t \in Threads, readVerify(t)
  PROVE  IInv'
<1>0. PageTypes /\ ThreadTypes /\ PlaceOK(t)
  BY DEF IInv, TypeInv
<1>1. pc[t] = "verify" /\ UNCHANGED <<state, frame, disk, slots, latest, stuck>>
  BY DEF readVerify, memory
<1>2. CASE Accepts(t)
  <2>1. Return(t)
    BY <1>2 DEF readVerify
  <2>2. TypeInv'
    BY <1>0, <1>1, <2>1, Returning DEF TypeInv, PageTypes
  <2>3. ASSUME NEW q \in Pages PROVE PageSame(q) /\ HoldSame(t, q)
    BY <1>0, <1>1, <2>1, Returning DEF PageSame, HoldSame, Pins, Evicts, Resets, Holding,
                                       Reserving
  <2> QED BY <1>0, <1>1, <2>1, <2>2, <2>3, Returning, InnerStep
<1>3. CASE ~Accepts(t)
  <2>1. /\ pc' = [pc EXCEPT ![t] = "spin"] /\ seen' = [seen EXCEPT ![t] = NothingSeen]
        /\ gone' = [gone EXCEPT ![t] = FALSE] /\ UNCHANGED <<op, arg, loc>>
    BY <1>3 DEF readVerify, Goto
  <2>2. pc'[t] = "spin"
    BY <1>0, <2>1 DEF ThreadTypes
  <2>3. TypeInv'
    BY <1>0, <1>1, <2>1, Sentinels DEF TypeInv, PageTypes, ThreadTypes, Pcs
  <2>4. OthersSame(t)
    BY <1>0, <2>1 DEF ThreadTypes, OthersSame
  <2>5. PlaceOK(t)'
    BY <1>0, <1>1, <2>1, <2>2 DEF PlaceOK, Reserving
  <2>6. ASSUME NEW q \in Pages
        PROVE  PageSame(q) /\ HoldSame(t, q) /\ ThreadOK(t, q)' /\ ReadOK(t, q)'
    BY <1>1, <2>1, <2>2 DEF PageSame, HoldSame, ThreadOK, ReadOK, Reads, Pins, Evicts, Resets,
                            Holding, Reserving
  <2> QED BY <1>1, <2>3, <2>4, <2>5, <2>6, InnerStep
<1> QED BY <1>2, <1>3

\* reserve succeeds.
LEMMA reserveDoneStep ==
  ASSUME IInv, NEW t \in Threads, reserveDone(t)
  PROVE  IInv'
<1>0. PageTypes /\ ThreadTypes /\ PlaceOK(t)
  BY DEF IInv, TypeInv
<1> DEFINE x == IF op[t] = "malloc" THEN "held" ELSE "cache"
<1>1. /\ pc[t] = "reserve" /\ loc[t].cand = NoPage /\ Goto(t, x)
      /\ loc' = [loc EXCEPT ![t] = NoLocals]
      /\ UNCHANGED <<state, frame, disk, slots, latest, op, arg, seen, gone, stuck>>
  BY <1>0 DEF reserveDone, history, PlaceOK
<1>2. /\ x \in Pcs /\ x \in {"held", "cache"}
      /\ x = "held" => arg[t] = NoPage
      /\ x = "cache" => arg[t] \in Pages /\ op[t] # "malloc"
  BY <1>0, <1>1, BufferManagerAssumption DEF Pcs, PlaceOK, Reserving, ThreadTypes
<1> HIDE DEF x
<1>3. ThreadTypes' /\ OthersSame(t) /\ pc'[t] = x /\ loc'[t].cand = NoPage
  BY <1>0, <1>1, <1>2, Sentinels, MovingWith
<1>4. TypeInv'
  BY <1>0, <1>1, <1>3 DEF TypeInv, PageTypes
<1>5. PlaceOK(t)'
  BY <1>1, <1>2, <1>3 DEF PlaceOK, Reserving
<1>6. ASSUME NEW q \in Pages
      PROVE  PageSame(q) /\ HoldSame(t, q) /\ ThreadOK(t, q)' /\ ReadOK(t, q)'
  <2>1. ThreadOK(t, q) /\ q # NoPage
    BY BufferManagerAssumption DEF IInv
  <2>2. PageSame(q) /\ HoldSame(t, q)
    BY <1>1, <1>2, <1>3, <2>1 DEF PageSame, HoldSame, Pins, Evicts, Resets, Holding, Reserving
  <2>3. ThreadOK(t, q)'
    BY <1>1, <1>2, <1>3, <2>1 DEF ThreadOK, Reserving
  <2>4. ReadOK(t, q)'
    BY <1>2, <1>3 DEF ReadOK, Reads
  <2> QED BY <2>2, <2>3, <2>4
<1> QED BY <1>1, <1>3, <1>4, <1>5, <1>6, InnerStep

\* Moving between the places of reserve and evictPages where t has not locked a candidate.
LEMMA ReservingStep ==
  ASSUME IInv, NEW t \in Threads, TypeInv', OthersSame(t),
         pc[t] \in {"reserve", "scan", "load", "lock", "clear"},
         pc'[t] \in {"reserve", "scan", "load", "lock"},
         op'[t] = op[t], arg'[t] = arg[t],
         loc'[t].cand # NoPage <=> pc'[t] = "lock",
         UNCHANGED <<state, frame, disk, latest, stuck>>
  PROVE  IInv'
<1>0. PlaceOK(t)
  BY DEF IInv
<1>1. PlaceOK(t)'
  BY <1>0 DEF PlaceOK, Reserving
<1>2. ASSUME NEW q \in Pages
      PROVE  PageSame(q) /\ HoldSame(t, q) /\ ThreadOK(t, q)' /\ ReadOK(t, q)'
  <2>1. ThreadOK(t, q)
    BY DEF IInv
  <2>2. PageSame(q) /\ HoldSame(t, q)
    BY DEF PageSame, HoldSame, Pins, Evicts, Resets, Holding, Reserving
  <2>3. ThreadOK(t, q)'
    BY <2>1 DEF ThreadOK, Reserving
  <2>4. ReadOK(t, q)'
    BY DEF ReadOK, Reads
  <2> QED BY <2>2, <2>3, <2>4
<1> QED BY <1>1, <1>2, InnerStep

\* reserve calls evictPages.
LEMMA evictPagesStep ==
  ASSUME IInv, NEW t \in Threads, evictPages(t)
  PROVE  IInv'
<1>0. PageTypes /\ ThreadTypes /\ PlaceOK(t)
  BY DEF IInv, TypeInv
<1>1. /\ pc[t] = "reserve" /\ loc[t].cand = NoPage /\ Goto(t, "scan") /\ "scan" \in Pcs
      /\ UNCHANGED <<state, frame, disk, slots, latest, op, arg, loc, seen, gone, stuck>>
  BY <1>0 DEF evictPages, memory, history, PlaceOK, Pcs
<1>2. ThreadTypes' /\ OthersSame(t) /\ pc'[t] = "scan"
  BY <1>0, <1>1, Moving
<1>3. TypeInv'
  BY <1>0, <1>1, <1>2 DEF TypeInv, PageTypes
<1> QED BY <1>1, <1>2, <1>3, ReservingStep

\* evictPages returns to reserve.
LEMMA evictedStep ==
  ASSUME IInv, NEW t \in Threads, evicted(t)
  PROVE  IInv'
<1>0. PageTypes /\ ThreadTypes /\ PlaceOK(t)
  BY DEF IInv, TypeInv
<1>1. /\ pc[t] = "load" /\ loc[t].cand = NoPage /\ Goto(t, "reserve") /\ "reserve" \in Pcs
      /\ UNCHANGED <<state, frame, disk, slots, latest, op, arg, seen, gone, stuck>>
  BY <1>0 DEF evicted, memory, history, PlaceOK, Pcs
<1>2. loc[t] \in Locals
  BY <1>0 DEF ThreadTypes
<1>3. \E l \in Locals : l.cand = NoPage /\ loc' = [loc EXCEPT ![t] = l]
  <2>1. CASE loc' = [loc EXCEPT ![t].failed = @ + 1]
    <3>1. [loc[t] EXCEPT !.failed = @ + 1] \in Locals
      BY <1>2 DEF Locals
    <3>2. [loc[t] EXCEPT !.failed = @ + 1].cand = NoPage
      BY <1>1, <1>2 DEF Locals
    <3> QED BY <2>1, <3>1, <3>2
  <2>2. CASE loc' = [loc EXCEPT ![t].claimed = @ + loc[t].freed, ![t].freed = 0]
    <3> DEFINE n == loc[t].claimed + loc[t].freed
               z == 0
               l == [loc[t] EXCEPT !.claimed = n, !.freed = z]
    <3>1. n \in Int /\ z \in Int
      BY <1>2 DEF Locals
    <3>2. loc' = [loc EXCEPT ![t] = l]
      BY <1>0, <2>2 DEF ThreadTypes, Locals
    <3> HIDE DEF n, z
    <3>3. l \in Locals /\ l.cand = NoPage
      BY <1>1, <1>2, <3>1 DEF Locals
    <3> QED BY <3>2, <3>3
  <2> QED BY <2>1, <2>2 DEF evicted
<1>4. ThreadTypes' /\ OthersSame(t) /\ pc'[t] = "reserve" /\ loc'[t].cand = NoPage
  BY <1>0, <1>1, <1>3, MovingWith
<1>5. TypeInv'
  BY <1>0, <1>1, <1>4 DEF TypeInv, PageTypes
<1> QED BY <1>1, <1>4, <1>5, ReservingStep

\* evictPages takes a batch; the tries of other threads are counted, nothing else.
LEMMA nextStep ==
  ASSUME IInv, NEW t \in Threads, next(t)
  PROVE  IInv'
<1>0. PageTypes /\ ThreadTypes /\ PlaceOK(t)
  BY DEF IInv, TypeInv
<1>1. /\ pc[t] = "scan" /\ loc[t].cand = NoPage
      /\ UNCHANGED <<state, frame, disk, slots, latest, pc, op, arg, seen, gone, stuck>>
      /\ loc' = [u \in Threads |->
                   [loc[u] EXCEPT !.passes = IF pc[u] = "scan" /\ @ < 2 THEN @ + 1 ELSE @,
                                  !.slot = IF u = t THEN 1 ELSE @]]
  BY <1>0 DEF next, memory, history, PlaceOK
<1>2. ASSUME NEW u \in Threads PROVE loc'[u] \in Locals /\ loc'[u].cand = loc[u].cand
  <2>1. loc[u] \in Locals
    BY <1>0 DEF ThreadTypes
  <2> DEFINE a == IF pc[u] = "scan" /\ loc[u].passes < 2 THEN loc[u].passes + 1
                                                         ELSE loc[u].passes
             b == IF u = t THEN 1 ELSE loc[u].slot
  <2>2. a \in Int /\ b \in Slots \cup {0}
    BY <2>1, BufferManagerAssumption DEF Locals, Slots
  <2>3. loc'[u] = [loc[u] EXCEPT !.passes = a, !.slot = b]
    BY <1>1
  <2> HIDE DEF a, b
  <2> QED BY <2>1, <2>2, <2>3 DEF Locals
<1>3. loc' \in [Threads -> Locals]
  <2>1. DOMAIN loc' = Threads /\ loc' = [u \in Threads |-> loc'[u]]
    BY <1>1
  <2> QED BY <1>2, <2>1
<1>4. TypeInv'
  BY <1>0, <1>1, <1>3 DEF TypeInv, PageTypes, ThreadTypes
<1>5. OthersSame(t)
  BY <1>1, <1>2 DEF OthersSame
<1>6. loc'[t].cand = NoPage
  BY <1>1, <1>2
<1> QED BY <1>1, <1>4, <1>5, <1>6, ReservingStep

\* evictPages has collected its candidates.
LEMMA scannedStep ==
  ASSUME IInv, NEW t \in Threads, scanned(t)
  PROVE  IInv'
<1>0. PageTypes /\ ThreadTypes /\ PlaceOK(t)
  BY DEF IInv, TypeInv
<1> DEFINE l == [loc[t] EXCEPT !.passes = 0]
<1>1. /\ pc[t] = "scan" /\ loc[t].cand = NoPage /\ Goto(t, "load") /\ "load" \in Pcs
      /\ loc' = [loc EXCEPT ![t] = l]
      /\ UNCHANGED <<state, frame, disk, slots, latest, op, arg, seen, gone, stuck>>
  BY <1>0 DEF scanned, memory, history, PlaceOK, Pcs
<1>2. l \in Locals /\ l.cand = NoPage
  <2>1. loc[t] \in Locals
    BY <1>0 DEF ThreadTypes
  <2> QED BY <1>1, <2>1 DEF Locals
<1> HIDE DEF l
<1>3. ThreadTypes' /\ OthersSame(t) /\ pc'[t] = "load" /\ loc'[t].cand = NoPage
  BY <1>0, <1>1, <1>2, MovingWith
<1>4. TypeInv'
  BY <1>0, <1>1, <1>3 DEF TypeInv, PageTypes
<1> QED BY <1>1, <1>3, <1>4, ReservingStep

\* tryEvictPage loads the candidate of its slot.
LEMMA loadCandidateStep ==
  ASSUME IInv, NEW t \in Threads, loadCandidate(t)
  PROVE  IInv'
<1>0. PageTypes /\ ThreadTypes /\ PlaceOK(t) /\ TypeInv
  BY DEF IInv, TypeInv
<1>1. /\ pc[t] = "load" /\ loc[t].cand = NoPage
      /\ UNCHANGED <<state, frame, disk, slots, latest, op, arg, seen, gone, stuck>>
  BY <1>0 DEF loadCandidate, memory, history, PlaceOK
<1>2. CASE NextCandidate(t, 0)
  <2>1. ThreadTypes' /\ OthersSame(t) /\ pc'[t] = "load" /\ loc'[t].cand = NoPage
    BY <1>0, <1>1, <1>2, NextCandidateMoves
  <2>2. TypeInv'
    BY <1>0, <1>1, <2>1 DEF TypeInv, PageTypes
  <2> QED BY <1>1, <2>1, <2>2, ReservingStep
<1>3. CASE ~NextCandidate(t, 0)
  <2>1. Slot(t) \in Slots
    BY <1>0, SlotFound DEF loadCandidate
  <2> DEFINE p == slots[Slot(t)]
             l == [loc[t] EXCEPT !.cand = p]
  <2>2. /\ p # NoPage /\ Goto(t, "lock") /\ "lock" \in Pcs
        /\ loc' = [loc EXCEPT ![t] = l]
    BY <1>3 DEF loadCandidate, Pcs
  <2>3. p \in Pages
    BY <1>0, <2>1, <2>2 DEF PageTypes
  <2> HIDE DEF p
  <2>4. l \in Locals /\ l.cand # NoPage
    <3>1. loc[t] \in Locals
      BY <1>0 DEF ThreadTypes
    <3> QED BY <2>2, <2>3, <3>1 DEF Locals
  <2> HIDE DEF l
  <2>5. ThreadTypes' /\ OthersSame(t) /\ pc'[t] = "lock" /\ loc'[t] = l
    BY <1>0, <1>1, <2>2, <2>4, MovingWith
  <2>6. TypeInv'
    BY <1>0, <1>1, <2>5 DEF TypeInv, PageTypes
  <2> QED BY <1>1, <2>4, <2>5, <2>6, ReservingStep
<1> QED BY <1>2, <1>3

\* EvictionQueue::clear empties the slot.
LEMMA clearStep ==
  ASSUME IInv, NEW t \in Threads, clear(t)
  PROVE  IInv'
<1>0. PageTypes /\ ThreadTypes /\ PlaceOK(t)
  BY DEF IInv, TypeInv
<1>1. /\ pc[t] = "clear" /\ NextCandidate(t, 1) /\ 1 \in Int
      /\ slots' = [slots EXCEPT ![Slot(t)] = NoPage]
      /\ UNCHANGED <<state, frame, disk, latest, op, arg, seen, gone, stuck>>
  BY DEF clear, history
<1>2. ThreadTypes' /\ OthersSame(t) /\ pc'[t] = "load" /\ loc'[t].cand = NoPage
  BY <1>0, <1>1, NextCandidateMoves
<1>3. TypeInv'
  BY <1>0, <1>1, <1>2 DEF TypeInv, PageTypes
<1> QED BY <1>1, <1>2, <1>3, ReservingStep

\* An exception leaves the pages that t has locked LOCKED.
LEMMA AbandonStep ==
  ASSUME IInv, NEW t \in Threads, NEW S \in SUBSET (Pages \cup {NoPage}), NEW m,
         Abandon(t, S, m), pc[t] # "reset",
         UNCHANGED <<state, frame, disk, slots, latest>>,
         \A q \in Pages : q \in S <=> Pins(t, q) \/ Evicts(t, q)
  PROVE  IInv'
<1>0. PageTypes /\ ThreadTypes
  BY DEF IInv, TypeInv
<1>1. Return(t) /\ stuck' = stuck \cup (S \ {NoPage})
  BY DEF Abandon
<1>2. TypeInv'
  BY <1>0, <1>1, Returning DEF TypeInv, PageTypes
<1>3. \A q \in Pages : q \in stuck' <=> q \in stuck \/ Pins(t, q) \/ Evicts(t, q)
  BY <1>1, BufferManagerAssumption
<1>4. \A q \in Pages : PageSame(q)
  BY DEF PageSame
<1> QED BY <1>0, <1>1, <1>2, <1>3, <1>4, Returning, ThreadAbandons

\* EvictionQueue::insert takes a slot for the page or throws.
LEMMA insertStep ==
  ASSUME IInv, NEW t \in Threads, insert(t)
  PROVE  IInv'
<1>0. PageTypes /\ ThreadTypes /\ PlaceOK(t)
  BY DEF IInv, TypeInv
<1>1. pc[t] = "insert" /\ UNCHANGED <<state, frame, disk, latest>>
  BY DEF insert
<1>2. CASE \E i \in Slots : slots[i] = NoPage
  <2>1. PICK i \in Slots : slots' = [slots EXCEPT ![i] = arg[t]]
    BY <1>2 DEF insert
  <2>2. Goto(t, "pinned") /\ "pinned" \in Pcs /\ UNCHANGED <<op, arg, loc, seen, gone, stuck>>
    BY <1>2 DEF insert, Pcs
  <2>3. ThreadTypes' /\ OthersSame(t) /\ pc'[t] = "pinned"
    BY <1>0, <2>2, Moving
  <2>4. slots' \in [Slots -> Pages \cup {NoPage}]
    BY <1>0, <2>1 DEF PageTypes, ThreadTypes
  <2>5. TypeInv'
    BY <1>0, <1>1, <2>2, <2>3, <2>4 DEF TypeInv, PageTypes
  <2>6. PlaceOK(t)'
    BY <1>0, <1>1, <2>2, <2>3 DEF PlaceOK, Reserving
  <2>7. ASSUME NEW q \in Pages
        PROVE  PageSame(q) /\ HoldSame(t, q) /\ ThreadOK(t, q)' /\ ReadOK(t, q)'
    <3>1. ThreadOK(t, q)
      BY DEF IInv
    <3>2. PageSame(q) /\ HoldSame(t, q)
      BY <1>1, <2>2, <2>3 DEF PageSame, HoldSame, Pins, Evicts, Resets, Holding, Reserving
    <3>3. ThreadOK(t, q)' /\ ReadOK(t, q)'
      BY <1>1, <2>2, <2>3, <3>1 DEF ThreadOK, ReadOK, Reads, Reserving
    <3> QED BY <3>2, <3>3
  <2> QED BY <2>2, <2>3, <2>5, <2>6, <2>7, InnerStep
<1>3. CASE ~\E i \in Slots : slots[i] = NoPage
  <2>1. Abandon(t, {arg[t]}, 0) /\ UNCHANGED slots
    BY <1>3 DEF insert
  <2>2. {arg[t]} \in SUBSET (Pages \cup {NoPage})
    BY <1>0 DEF ThreadTypes
  <2>3. \A q \in Pages : q \in {arg[t]} <=> Pins(t, q) \/ Evicts(t, q)
    BY <1>1 DEF Pins, Evicts, Holding
  <2> QED BY <1>1, <2>1, <2>2, <2>3, AbandonStep
<1> QED BY <1>2, <1>3

\* EvictionQueue::clear throws.
LEMMA clearThrowsStep ==
  ASSUME IInv, NEW t \in Threads, clearThrows(t)
  PROVE  IInv'
<1>1. /\ pc[t] = "clear" /\ Abandon(t, {arg[t]}, 2 + loc[t].claimed + loc[t].freed)
      /\ UNCHANGED <<state, frame, disk, slots, latest>>
  BY DEF clearThrows, memory
<1>2. {arg[t]} \in SUBSET (Pages \cup {NoPage})
  BY DEF IInv, TypeInv, ThreadTypes
<1>3. \A q \in Pages : q \in {arg[t]} <=> Pins(t, q) \/ Evicts(t, q)
  BY <1>1 DEF Pins, Evicts, Holding, Reserving
<1> QED BY <1>1, <1>2, <1>3, AbandonStep

\* Reading or flushing a page throws.
LEMMA fileThrowsStep ==
  ASSUME IInv, NEW t \in Threads, fileThrows(t)
  PROVE  IInv'
<1>0. ThreadTypes /\ PlaceOK(t)
  BY DEF IInv, TypeInv
<1>1. /\ pc[t] \in {"cache", "check"}
      /\ Abandon(t, {arg[t], loc[t].cand}, 1 + loc[t].claimed + loc[t].freed)
      /\ UNCHANGED <<state, frame, disk, slots, latest>>
  BY DEF fileThrows, memory
<1>2. {arg[t], loc[t].cand} \in SUBSET (Pages \cup {NoPage})
  BY <1>0 DEF ThreadTypes, Locals
<1>3. ASSUME NEW q \in Pages
      PROVE  q \in {arg[t], loc[t].cand} <=> Pins(t, q) \/ Evicts(t, q)
  <2>1. q # NoPage
    BY BufferManagerAssumption
  <2> QED BY <1>0, <1>1, <2>1 DEF PlaceOK, Pins, Evicts, Holding, Reserving
<1> QED BY <1>1, <1>2, <1>3, AbandonStep
=============================================================================
