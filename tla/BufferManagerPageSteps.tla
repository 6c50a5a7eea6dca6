----------------------- MODULE BufferManagerPageSteps -----------------------
(***************************************************************************)
(* The actions of BufferManager that change one page preserve IInv: those  *)
(* on the page that a thread pins or reads, and on the page it evicts.     *)
(***************************************************************************)
EXTENDS BufferManagerSteps

(* Steps on the page that a thread pins or reads. *)

\* Only the word of p changes.
LEMMA StateOf ==
  ASSUME PageTypes, NEW p \in Pages, NEW w \in Words, state' = [state EXCEPT ![p] = w]
  PROVE  /\ state' \in [Pages -> Words] /\ state'[p] = w
         /\ \A q \in Pages \ {p} : state'[q] = state[q]
BY DEF PageTypes

\* pin locks a cached page: its frame has the content, a reader will see a new version.
LEMMA pinCachedStep ==
  ASSUME IInv, NEW t \in Threads, pinCached(t)
  PROVE  IInv'
<1>0. PageTypes /\ ThreadTypes /\ PlaceOK(t)
  BY DEF IInv, TypeInv
<1>1. PICK p \in Pages : p = arg[t]
  BY <1>0 DEF PlaceOK, pinCached
<1>2. /\ pc[t] = "spin" /\ state[p].st \in {"UNLOCKED", "MARKED"}
      /\ state' = [state EXCEPT ![p] = WithState(state[p], "LOCKED")]
      /\ Goto(t, "pinned") /\ "pinned" \in Pcs
      /\ UNCHANGED <<frame, disk, slots, latest, op, arg, loc, seen, gone, stuck>>
  BY <1>1 DEF pinCached, history, Pcs
<1>3. ThreadTypes' /\ OthersSame(t) /\ pc'[t] = "pinned"
  BY <1>0, <1>2, Moving
<1>4. /\ state' \in [Pages -> Words] /\ state'[p] = WithState(state[p], "LOCKED")
      /\ \A q \in Pages \ {p} : state'[q] = state[q]
  <2>1. WithState(state[p], "LOCKED") \in Words
    BY <1>0, WordTypes DEF PageTypes
  <2> QED BY <1>0, <1>2, <2>1, StateOf
<1>5. /\ state'[p].st = "LOCKED" /\ state'[p].ver = state[p].ver
      /\ state'[p].dirty = state[p].dirty
  BY <1>0, <1>4, WordFields DEF PageTypes
<1>6. TypeInv'
  BY <1>0, <1>2, <1>3, <1>4 DEF TypeInv, PageTypes
<1>7. PlaceOK(t)'
  BY <1>0, <1>2, <1>3 DEF PlaceOK, Reserving
<1>8. ASSUME NEW q \in Pages \ {p} PROVE PageSame(q) /\ HoldSame(t, q)
  BY <1>1, <1>2, <1>3, <1>4 DEF PageSame, HoldSame, Pins, Evicts, Resets, Holding, Reserving
<1>9. Pins(t, p)' /\ ~Evicts(t, p)' /\ Unsettled(p)' /\ PageOK(p)'
  <2>1. Pins(t, p)' /\ ~Evicts(t, p)'
    BY <1>1, <1>2, <1>3 DEF Pins, Evicts, Holding
  <2> QED BY <1>5, <2>1 DEF PageOK, Unsettled
<1>10. ReaderSafe(p)
  <2>1. \A u \in Threads \ {t} : ~Pins(u, p)'
    BY <1>2, <1>3, FreePage DEF OthersSame, Pins
  <2> QED BY <1>3, <1>5, <1>9, <2>1 DEF ReaderSafe
<1>11. ASSUME NEW q \in Pages PROVE ThreadOK(t, q)' /\ ReadOK(t, q)'
  <2>1. PageOK(p)
    BY DEF IInv
  <2> QED BY <1>1, <1>2, <1>3, <1>5, <2>1 DEF PageOK, ThreadOK, ReadOK, Reads, Reserving
<1>12. Pins(t, p) \/ Evicts(t, p) \/ state[p].st # "LOCKED"
  BY <1>2
<1> QED BY <1>2, <1>3, <1>5, <1>6, <1>7, <1>8, <1>9, <1>10, <1>11, <1>12, PageStep

\* pin locks an evicted page: its content is in the file, and nobody reads it.
LEMMA pinEvictedStep ==
  ASSUME IInv, NEW t \in Threads, pinEvicted(t)
  PROVE  IInv'
<1>0. PageTypes /\ ThreadTypes /\ PlaceOK(t)
  BY DEF IInv, TypeInv
<1>1. PICK p \in Pages : p = arg[t]
  BY <1>0 DEF PlaceOK, pinEvicted
<1>2. /\ pc[t] = "spin" /\ state[p].st = "EVICTED"
      /\ state' = [state EXCEPT ![p] = WithState(state[p], "LOCKED")]
      /\ Goto(t, "reserve") /\ "reserve" \in Pcs
      /\ UNCHANGED <<frame, disk, slots, latest, op, arg, loc, seen, gone, stuck>>
  BY <1>1 DEF pinEvicted, history, Pcs
<1>3. ThreadTypes' /\ OthersSame(t) /\ pc'[t] = "reserve"
  BY <1>0, <1>2, Moving
<1>4. /\ state' \in [Pages -> Words] /\ state'[p] = WithState(state[p], "LOCKED")
      /\ \A q \in Pages \ {p} : state'[q] = state[q]
  <2>1. WithState(state[p], "LOCKED") \in Words
    BY <1>0, WordTypes DEF PageTypes
  <2> QED BY <1>0, <1>2, <2>1, StateOf
<1>5. state'[p].st = "LOCKED"
  BY <1>0, <1>4, WordFields DEF PageTypes
<1>6. TypeInv'
  BY <1>0, <1>2, <1>3, <1>4 DEF TypeInv, PageTypes
<1>7. PlaceOK(t)'
  BY <1>0, <1>1, <1>2, <1>3 DEF PlaceOK, Reserving
<1>8. ASSUME NEW q \in Pages \ {p} PROVE PageSame(q) /\ HoldSame(t, q)
  BY <1>1, <1>2, <1>3, <1>4 DEF PageSame, HoldSame, Pins, Evicts, Resets, Holding, Reserving
<1>9. Pins(t, p)' /\ ~Evicts(t, p)' /\ PageOK(p)'
  <2>1. Pins(t, p)' /\ ~Evicts(t, p)'
    BY <1>1, <1>2, <1>3 DEF Pins, Evicts, Holding, Reserving
  <2> QED BY <1>5, <2>1 DEF PageOK
<1>10. \A r \in Threads \ {t} : ~Reads(r, p)'
  BY <1>2, <1>3, ReadersPage
<1>11. ASSUME NEW q \in Pages PROVE ThreadOK(t, q)' /\ ReadOK(t, q)'
  <2>1. disk[p] = latest[p]
    BY <1>2 DEF IInv, PageOK
  <2> QED BY <1>1, <1>2, <1>3, <2>1 DEF ThreadOK, ReadOK, Reads, Reserving
<1>12. Pins(t, p) \/ Evicts(t, p) \/ state[p].st # "LOCKED"
  BY <1>2
<1> QED BY <1>2, <1>3, <1>5, <1>6, <1>7, <1>8, <1>9, <1>10, <1>11, <1>12, PageStep

\* The pinned page is written: frame and content change together, the page is unsettled.
LEMMA writeStep ==
  ASSUME IInv, NEW t \in Threads, write(t)
  PROVE  IInv'
<1>0. PageTypes /\ ThreadTypes /\ PlaceOK(t)
  BY DEF IInv, TypeInv
<1>1. PICK p \in Pages : p = arg[t]
  BY <1>0 DEF PlaceOK, write
<1> DEFINE n == latest[p] + 1
<1>2. /\ pc[t] = "pinned"
      /\ frame' = [frame EXCEPT ![p] = n] /\ latest' = [latest EXCEPT ![p] = n]
      /\ state' = [state EXCEPT ![p] = [state[p] EXCEPT !.dirty = TRUE]]
      /\ op' = [op EXCEPT ![t] = "wrote"]
      /\ UNCHANGED <<disk, slots, pc, arg, loc, seen, gone, stuck>>
  BY <1>1 DEF write
<1>3. n \in Int
  BY <1>0 DEF PageTypes
<1> HIDE DEF n
<1>4. /\ state' \in [Pages -> Words] /\ state'[p] = [state[p] EXCEPT !.dirty = TRUE]
      /\ \A q \in Pages \ {p} : state'[q] = state[q]
  <2>1. [state[p] EXCEPT !.dirty = TRUE] \in Words
    BY <1>0, WordTypes DEF PageTypes
  <2> QED BY <1>0, <1>2, <2>1, StateOf
<1>5. /\ state'[p].st = state[p].st /\ state'[p].ver = state[p].ver
      /\ state'[p].dirty
  BY <1>0, <1>4, WordFields DEF PageTypes
<1>6. /\ frame' \in [Pages -> Int] /\ latest' \in [Pages -> Int] /\ frame'[p] = latest'[p]
      /\ \A q \in Pages \ {p} : frame'[q] = frame[q] /\ latest'[q] = latest[q]
  BY <1>0, <1>2, <1>3 DEF PageTypes
<1>7. op' \in [Threads -> Operations] /\ op'[t] = "wrote" /\ OthersSame(t)
  BY <1>0, <1>2 DEF ThreadTypes, Operations, OthersSame
<1>8. TypeInv'
  BY <1>0, <1>2, <1>4, <1>6, <1>7 DEF TypeInv, PageTypes, ThreadTypes
<1>9. PlaceOK(t)'
  BY <1>0, <1>2, <1>7 DEF PlaceOK, Reserving
<1>10. Pins(t, p) /\ state[p].st = "LOCKED" /\ \A u \in Threads \ {t} : ~Pins(u, p)
  <2>1. Pins(t, p)
    BY <1>1, <1>2 DEF Pins, Holding
  <2> QED BY <2>1, OwnPage
<1>11. ASSUME NEW q \in Pages \ {p} PROVE PageSame(q) /\ HoldSame(t, q)
  BY <1>2, <1>4, <1>6 DEF PageSame, HoldSame, Pins, Evicts, Resets
<1>12. Pins(t, p)' /\ ~Evicts(t, p)' /\ Unsettled(p)' /\ PageOK(p)'
  <2>1. Pins(t, p)' /\ ~Evicts(t, p)'
    BY <1>2, <1>10 DEF Pins, Evicts
  <2> QED BY <1>5, <1>10, <2>1 DEF PageOK, Unsettled
<1>13. ReaderSafe(p)
  <2>1. \A u \in Threads \ {t} : ~Pins(u, p)'
    BY <1>2, <1>10 DEF Pins
  <2> QED BY <1>2, <1>5, <1>10, <1>12, <2>1 DEF ReaderSafe
<1>14. ASSUME NEW q \in Pages PROVE ThreadOK(t, q)' /\ ReadOK(t, q)'
  BY <1>1, <1>2, <1>5, <1>6 DEF ThreadOK, ReadOK, Reads, Reserving
<1>15. state'[p].st = "LOCKED"
  BY <1>5, <1>10
<1> QED BY <1>2, <1>7, <1>8, <1>9, <1>10, <1>11, <1>12, <1>13, <1>14, <1>15, PageStep

\* unpin: the page is settled again, under a new version.
LEMMA unpinStep ==
  ASSUME IInv, NEW t \in Threads, unpin(t)
  PROVE  IInv'
<1>0. PageTypes /\ ThreadTypes /\ PlaceOK(t)
  BY DEF IInv, TypeInv
<1>1. PICK p \in Pages : p = arg[t]
  BY <1>0 DEF PlaceOK, unpin
<1>2. /\ pc[t] = "pinned" /\ op[t] # "new"
      /\ state' = [state EXCEPT ![p] = unlock(state[p])]
      /\ UNCHANGED <<frame, disk, slots, latest, stuck>>
  BY <1>1 DEF unpin
<1>3. /\ state' \in [Pages -> Words] /\ state'[p] = unlock(state[p])
      /\ \A q \in Pages \ {p} : state'[q] = state[q]
  <2>1. unlock(state[p]) \in Words
    BY <1>0, WordTypes DEF PageTypes
  <2> QED BY <1>0, <1>2, <2>1, StateOf
<1>4. /\ state'[p].st = "UNLOCKED" /\ state'[p].ver > state[p].ver
      /\ state'[p].dirty = state[p].dirty
  BY <1>0, <1>3, WordFields DEF PageTypes
<1>5. /\ ThreadTypes' /\ OthersSame(t) /\ PlaceOK(t)'
      /\ \A q \in Pages : /\ ~Pins(t, q)' /\ ~Evicts(t, q)' /\ ~Resets(t, q)'
                          /\ ThreadOK(t, q)' /\ ReadOK(t, q)'
  <2>1. CASE op[t] = "read"
    <3>1. Goto(t, "spin") /\ "spin" \in Pcs /\ UNCHANGED <<op, arg, loc, seen, gone>>
      BY <2>1 DEF unpin, Pcs
    <3>2. ThreadTypes' /\ OthersSame(t) /\ pc'[t] = "spin"
      BY <1>0, <3>1, Moving
    <3>3. PlaceOK(t)'
      BY <1>0, <1>2, <3>1, <3>2 DEF PlaceOK, Reserving
    <3>4. ASSUME NEW q \in Pages
          PROVE  /\ ~Pins(t, q)' /\ ~Evicts(t, q)' /\ ~Resets(t, q)'
                 /\ ThreadOK(t, q)' /\ ReadOK(t, q)'
      BY <3>2 DEF Pins, Evicts, Resets, ThreadOK, ReadOK, Reads, Holding, Reserving
    <3> QED BY <3>2, <3>3, <3>4
  <2>2. CASE op[t] # "read"
    BY <1>0, <2>2, Returning DEF unpin
  <2> QED BY <2>1, <2>2
<1>6. TypeInv'
  BY <1>0, <1>2, <1>3, <1>5 DEF TypeInv, PageTypes
<1>7. ASSUME NEW q \in Pages \ {p} PROVE PageSame(q) /\ HoldSame(t, q)
  <2>1. ~Pins(t, q) /\ ~Evicts(t, q) /\ ~Resets(t, q)
    BY <1>1, <1>2 DEF Pins, Evicts, Resets
  <2> QED BY <1>2, <1>3, <1>5, <2>1 DEF PageSame, HoldSame
<1>8. Pins(t, p) /\ \A u \in Threads \ {t} : ~Pins(u, p)
  <2>1. Pins(t, p)
    BY <1>1, <1>2 DEF Pins, Holding
  <2> QED BY <2>1, OwnPage
<1>9. PageOK(p)'
  <2>1. ThreadOK(t, p)
    BY DEF IInv
  <2> QED BY <1>1, <1>2, <1>4, <2>1 DEF PageOK, ThreadOK
<1>10. ReaderSafe(p)
  <2>1. \A u \in Threads : ~Pins(u, p)'
    BY <1>5, <1>8 DEF OthersSame, Pins
  <2> QED BY <1>4, <2>1 DEF ReaderSafe
<1>11. ~(Pins(t, p)' /\ Evicts(t, p)') /\ (state'[p].st = "LOCKED" <=> Pins(t, p)' \/ Evicts(t, p)')
  BY <1>4, <1>5
<1> QED BY <1>2, <1>5, <1>6, <1>7, <1>8, <1>9, <1>10, <1>11, PageStep

\* optimisticRead makes a MARKED page UNLOCKED.
LEMMA readClearMarkStep ==
  ASSUME IInv, NEW t \in Threads, readClearMark(t)
  PROVE  IInv'
<1>0. PageTypes /\ ThreadTypes /\ PlaceOK(t)
  BY DEF IInv, TypeInv
<1>1. PICK p \in Pages : p = arg[t]
  BY <1>0 DEF PlaceOK, readClearMark
<1>2. /\ pc[t] = "spin" /\ state[p].st = "MARKED"
      /\ state' = [state EXCEPT ![p] = WithState(state[p], "UNLOCKED")]
      /\ UNCHANGED <<frame, disk, slots, latest, pc, op, arg, loc, seen, gone, stuck>>
  BY <1>1 DEF readClearMark, threads, history
<1>3. /\ state' \in [Pages -> Words] /\ state'[p] = WithState(state[p], "UNLOCKED")
      /\ \A q \in Pages \ {p} : state'[q] = state[q]
  <2>1. WithState(state[p], "UNLOCKED") \in Words
    BY <1>0, WordTypes DEF PageTypes
  <2> QED BY <1>0, <1>2, <2>1, StateOf
<1>4. /\ state'[p].st = "UNLOCKED" /\ state'[p].ver = state[p].ver
      /\ state'[p].dirty = state[p].dirty
  BY <1>0, <1>3, WordFields DEF PageTypes
<1>5. TypeInv' /\ OthersSame(t)
  BY <1>0, <1>2, <1>3 DEF TypeInv, PageTypes, ThreadTypes, OthersSame
<1>6. PlaceOK(t)'
  BY <1>0, <1>2 DEF PlaceOK
<1>7. ASSUME NEW q \in Pages \ {p} PROVE PageSame(q) /\ HoldSame(t, q)
  BY <1>2, <1>3 DEF PageSame, HoldSame, Pins, Evicts, Resets
<1>8. ~Unsettled(p) /\ \A u \in Threads : ~Pins(u, p)' /\ ~Evicts(u, p)'
  BY <1>2, FreePage DEF Pins, Evicts
<1>9. PageOK(p)'
  <2>1. PageOK(p)
    BY DEF IInv
  <2> QED BY <1>2, <1>4, <2>1 DEF PageOK
<1>10. ReaderSafe(p)
  BY <1>2, <1>4, <1>8 DEF ReaderSafe
<1>11. ASSUME NEW q \in Pages PROVE ThreadOK(t, q)' /\ ReadOK(t, q)'
  BY <1>2 DEF ThreadOK, ReadOK, Reads, Reserving
<1>12. /\ Pins(t, p) \/ Evicts(t, p) \/ state[p].st # "LOCKED"
       /\ ~(Pins(t, p)' /\ Evicts(t, p)')
       /\ state'[p].st = "LOCKED" <=> Pins(t, p)' \/ Evicts(t, p)'
  BY <1>2, <1>4, <1>8
<1> QED BY <1>2, <1>5, <1>6, <1>7, <1>9, <1>10, <1>11, <1>12, PageStep

\* cachePageIntoFrame reads the content from the file, unless DONT_READ_PAGE.
LEMMA cachePageIntoFrameStep ==
  ASSUME IInv, NEW t \in Threads, cachePageIntoFrame(t)
  PROVE  IInv'
<1>0. PageTypes /\ ThreadTypes /\ PlaceOK(t)
  BY DEF IInv, TypeInv
<1>1. PICK p \in Pages : p = arg[t]
  BY <1>0 DEF PlaceOK, cachePageIntoFrame
<1> DEFINE n == IF op[t] = "new" THEN Blank ELSE disk[p]
<1>2. /\ pc[t] = "cache"
      /\ state' = [state EXCEPT ![p] = [state[p] EXCEPT !.dirty = FALSE]]
      /\ frame' = [frame EXCEPT ![p] = n] /\ Goto(t, "insert") /\ "insert" \in Pcs
      /\ UNCHANGED <<disk, slots, latest, op, arg, loc, seen, gone, stuck>>
  BY <1>1 DEF cachePageIntoFrame, history, Pcs
<1>3. n \in Int /\ (op[t] # "new" => n = disk[p])
  BY <1>0 DEF PageTypes, Blank
<1> HIDE DEF n
<1>4. ThreadTypes' /\ OthersSame(t) /\ pc'[t] = "insert"
  BY <1>0, <1>2, Moving
<1>5. /\ state' \in [Pages -> Words] /\ state'[p] = [state[p] EXCEPT !.dirty = FALSE]
      /\ \A q \in Pages \ {p} : state'[q] = state[q]
  <2>1. [state[p] EXCEPT !.dirty = FALSE] \in Words
    BY <1>0, WordTypes DEF PageTypes
  <2> QED BY <1>0, <1>2, <2>1, StateOf
<1>6. state'[p].st = state[p].st
  BY <1>0, <1>5, WordFields DEF PageTypes
<1>7. /\ frame' \in [Pages -> Int] /\ frame'[p] = n
      /\ \A q \in Pages \ {p} : frame'[q] = frame[q]
  BY <1>0, <1>2, <1>3 DEF PageTypes
<1>8. TypeInv'
  BY <1>0, <1>2, <1>4, <1>5, <1>7 DEF TypeInv, PageTypes
<1>9. PlaceOK(t)'
  BY <1>0, <1>2, <1>4 DEF PlaceOK, Reserving
<1>10. Pins(t, p) /\ state[p].st = "LOCKED"
  <2>1. Pins(t, p)
    BY <1>1, <1>2 DEF Pins, Holding
  <2> QED BY <2>1, OwnPage
<1>11. ASSUME NEW q \in Pages \ {p} PROVE PageSame(q) /\ HoldSame(t, q)
  BY <1>1, <1>2, <1>4, <1>5, <1>7 DEF PageSame, HoldSame, Pins, Evicts, Resets
<1>12. Pins(t, p)' /\ ~Evicts(t, p)' /\ PageOK(p)' /\ state'[p].st = "LOCKED"
  <2>1. Pins(t, p)' /\ ~Evicts(t, p)'
    BY <1>1, <1>2, <1>4 DEF Pins, Evicts, Holding
  <2> QED BY <1>6, <1>10, <2>1 DEF PageOK
<1>13. \A r \in Threads \ {t} : ~Reads(r, p)'
  BY <1>2, <1>4, <1>10, ReadersPage
<1>14. ASSUME NEW q \in Pages PROVE ThreadOK(t, q)' /\ ReadOK(t, q)'
  <2>1. disk[p] = latest[p]
    BY <1>1, <1>2 DEF IInv, ThreadOK
  <2> QED BY <1>1, <1>2, <1>3, <1>4, <1>7, <2>1 DEF ThreadOK, ReadOK, Reads, Reserving
<1> QED BY <1>2, <1>4, <1>8, <1>9, <1>10, <1>11, <1>12, <1>13, <1>14, PageStep

\* reserve fails: the page that was to be pinned is evicted again.
LEMMA reserveFailsStep ==
  ASSUME IInv, NEW t \in Threads, reserveFails(t)
  PROVE  IInv'
<1>0. PageTypes /\ ThreadTypes /\ PlaceOK(t)
  BY DEF IInv, TypeInv
<1>1. pc[t] = "load" /\ Return(t) /\ UNCHANGED <<frame, disk, slots, latest, stuck>>
  BY DEF reserveFails
<1>2. /\ ThreadTypes' /\ OthersSame(t) /\ PlaceOK(t)'
      /\ \A q \in Pages : /\ ~Pins(t, q)' /\ ~Evicts(t, q)' /\ ~Resets(t, q)'
                          /\ ThreadOK(t, q)' /\ ReadOK(t, q)'
  BY <1>0, <1>1, Returning
<1>3. \A q \in Pages : q # arg[t] => HoldSame(t, q)
  BY <1>1, <1>2 DEF HoldSame, Pins, Evicts, Resets
<1>4. CASE op[t] = "malloc"
  <2>1. UNCHANGED state /\ \A q \in Pages : q # arg[t]
    BY <1>0, <1>1, <1>4 DEF reserveFails, PlaceOK, Reserving
  <2>2. TypeInv'
    BY <1>0, <1>1, <1>2, <2>1 DEF TypeInv, PageTypes
  <2>3. \A q \in Pages : PageSame(q)
    BY <1>1, <2>1 DEF PageSame
  <2> QED BY <1>1, <1>2, <1>3, <2>1, <2>2, <2>3, InnerStep
<1>5. CASE op[t] # "malloc"
  <2>1. PICK p \in Pages : p = arg[t]
    BY <1>0, <1>1, <1>5 DEF PlaceOK, Reserving
  <2>2. state' = [state EXCEPT ![p] = Evicted]
    BY <1>5, <2>1 DEF reserveFails, resetToEvicted
  <2>3. /\ state' \in [Pages -> Words] /\ state'[p] = Evicted
        /\ \A q \in Pages \ {p} : state'[q] = state[q]
    BY <1>0, <2>2, Sentinels, StateOf
  <2>4. TypeInv'
    BY <1>0, <1>1, <1>2, <2>3 DEF TypeInv, PageTypes
  <2>5. \A q \in Pages \ {p} : PageSame(q) /\ HoldSame(t, q)
    BY <1>1, <1>3, <2>1, <2>3 DEF PageSame
  <2>6. Pins(t, p)
    BY <1>1, <2>1 DEF Pins, Holding, Reserving
  <2>7. PageOK(p)' /\ state'[p].st # "LOCKED"
    <3>1. disk[p] = latest[p]
      BY <1>1, <2>1 DEF IInv, ThreadOK, Reserving
    <3> QED BY <1>1, <2>3, <3>1 DEF PageOK, Evicted
  <2>8. \A r \in Threads \ {t} : ~Reads(r, p)'
    BY <1>1, <1>2, <2>6, ReadersPage
  <2> QED BY <1>1, <1>2, <2>4, <2>5, <2>6, <2>7, <2>8, PageStep
<1> QED BY <1>4, <1>5

-----------------------------------------------------------------------------
(* Steps on the page that a thread wants to evict. *)

\* A thread that evicts has a candidate.
LEMMA CandidatePage ==
  ASSUME IInv, NEW t \in Threads, pc[t] \in {"lock", "check", "reset", "clear"}
  PROVE  loc[t].cand \in Pages
<1>1. PlaceOK(t) /\ loc[t] \in Locals
  BY DEF IInv, TypeInv, ThreadTypes
<1> QED BY <1>1 DEF PlaceOK, Locals

\* evictPages looks at a slot: it marks an UNLOCKED page, which nobody has locked.
LEMMA scanStep ==
  ASSUME IInv, NEW t \in Threads, scan(t)
  PROVE  IInv'
<1>0. PageTypes /\ ThreadTypes /\ PlaceOK(t) /\ loc[t] \in Locals
  BY DEF IInv, TypeInv, ThreadTypes
<1>1. PICK i \in Slots : i = loc[t].slot
  BY <1>0 DEF scan, Locals
<1>2. /\ pc[t] = "scan" /\ loc[t].cand = NoPage
      /\ UNCHANGED <<frame, disk, slots, latest, pc, op, arg, seen, gone, stuck>>
  BY <1>0 DEF scan, history, PlaceOK
<1> DEFINE a == IF i = PoolSize + Spare THEN 0 ELSE i + 1
           b == IF slots[i] # NoPage /\ state[slots[i]].st = "MARKED"
                THEN loc[t].found \cup {i} ELSE loc[t].found
           l == [loc[t] EXCEPT !.slot = a, !.found = b]
<1>3. a \in Slots \cup {0} /\ b \in SUBSET Slots
  BY <1>0, BufferManagerAssumption DEF Slots, Locals
<1>4. loc' = [loc EXCEPT ![t] = l]
  BY <1>0, <1>1 DEF scan, ThreadTypes, Locals
<1> HIDE DEF a, b
<1>5. l \in Locals /\ l.cand = NoPage
  BY <1>0, <1>2, <1>3 DEF Locals
<1> HIDE DEF l
<1>6. ThreadTypes' /\ OthersSame(t) /\ loc'[t].cand = NoPage
  <2>1. loc' \in [Threads -> Locals] /\ loc'[t] = l
    BY <1>0, <1>4, <1>5 DEF ThreadTypes
  <2>2. OthersSame(t)
    BY <1>0, <1>2, <1>4 DEF ThreadTypes, OthersSame
  <2> QED BY <1>0, <1>2, <1>5, <2>1, <2>2 DEF ThreadTypes
<1>7. CASE state' = state
  <2>1. TypeInv'
    BY <1>0, <1>2, <1>6, <1>7 DEF TypeInv, PageTypes
  <2> QED BY <1>2, <1>6, <1>7, <2>1, ReservingStep
<1>8. CASE state' # state
  <2>1. PICK p \in Pages : p = slots[i]
    BY <1>0, <1>1, <1>8 DEF scan, PageTypes
  <2>2. /\ state[p].st = "UNLOCKED"
        /\ state' = [state EXCEPT ![p] = WithState(state[p], "MARKED")]
    BY <1>1, <1>8, <2>1 DEF scan
  <2>3. /\ state' \in [Pages -> Words] /\ state'[p] = WithState(state[p], "MARKED")
        /\ \A q \in Pages \ {p} : state'[q] = state[q]
    <3>1. WithState(state[p], "MARKED") \in Words
      BY <1>0, WordTypes DEF PageTypes
    <3> QED BY <1>0, <2>2, <3>1, StateOf
  <2>4. /\ state'[p].st = "MARKED" /\ state'[p].ver = state[p].ver
        /\ state'[p].dirty = state[p].dirty
    BY <1>0, <2>3, WordFields DEF PageTypes
  <2>5. TypeInv'
    BY <1>0, <1>2, <1>6, <2>3 DEF TypeInv, PageTypes
  <2>6. PlaceOK(t)'
    BY <1>0, <1>2, <1>6 DEF PlaceOK, Reserving
  <2>7. ASSUME NEW q \in Pages \ {p} PROVE PageSame(q) /\ HoldSame(t, q)
    BY <1>2, <2>3 DEF PageSame, HoldSame, Pins, Evicts, Resets
  <2>8. ~Unsettled(p) /\ \A u \in Threads : ~Pins(u, p)' /\ ~Evicts(u, p)'
    BY <1>2, <1>6, <2>2, FreePage DEF Pins, Evicts, OthersSame
  <2>9. PageOK(p)'
    <3>1. PageOK(p)
      BY DEF IInv
    <3> QED BY <1>2, <2>2, <2>4, <3>1 DEF PageOK
  <2>10. ReaderSafe(p)
    BY <1>2, <2>4, <2>8 DEF ReaderSafe
  <2>11. ASSUME NEW q \in Pages PROVE ThreadOK(t, q)' /\ ReadOK(t, q)'
    <3>1. ThreadOK(t, q)
      BY DEF IInv
    <3> QED BY <1>2, <3>1 DEF ThreadOK, ReadOK, Reads, Reserving
  <2>12. /\ Pins(t, p) \/ Evicts(t, p) \/ state[p].st # "LOCKED"
         /\ ~(Pins(t, p)' /\ Evicts(t, p)')
         /\ state'[p].st = "LOCKED" <=> Pins(t, p)' \/ Evicts(t, p)'
    BY <2>2, <2>4, <2>8
  <2> QED BY <1>2, <1>6, <2>5, <2>6, <2>7, <2>9, <2>10, <2>11, <2>12, PageStep
<1> QED BY <1>7, <1>8

\* tryEvictPage locks a MARKED page, which nobody has locked.
LEMMA lockCandidateStep ==
  ASSUME IInv, NEW t \in Threads, lockCandidate(t)
  PROVE  IInv'
<1>0. PageTypes /\ ThreadTypes /\ PlaceOK(t)
  BY DEF IInv, TypeInv
<1>1. PICK p \in Pages : p = loc[t].cand
  BY CandidatePage DEF lockCandidate
<1>2. /\ pc[t] = "lock"
      /\ UNCHANGED <<frame, disk, slots, latest, op, arg, seen, gone, stuck>>
  BY DEF lockCandidate, history
<1>3. CASE state[p].st # "MARKED"
  <2>1. NextCandidate(t, 0) /\ 0 \in Int /\ UNCHANGED state
    BY <1>1, <1>3 DEF lockCandidate
  <2>2. ThreadTypes' /\ OthersSame(t) /\ pc'[t] = "load" /\ loc'[t].cand = NoPage
    BY <1>0, <1>2, <2>1, NextCandidateMoves
  <2>3. TypeInv'
    BY <1>0, <1>2, <2>1, <2>2 DEF TypeInv, PageTypes
  <2> QED BY <1>2, <2>1, <2>2, <2>3, ReservingStep
<1>4. CASE state[p].st = "MARKED"
  <2>1. /\ state' = [state EXCEPT ![p] = WithState(state[p], "LOCKED")]
        /\ Goto(t, "check") /\ "check" \in Pcs /\ UNCHANGED loc
    BY <1>1, <1>4 DEF lockCandidate, Pcs
  <2>2. ThreadTypes' /\ OthersSame(t) /\ pc'[t] = "check"
    BY <1>0, <1>2, <2>1, Moving
  <2>3. /\ state' \in [Pages -> Words] /\ state'[p] = WithState(state[p], "LOCKED")
        /\ \A q \in Pages \ {p} : state'[q] = state[q]
    <3>1. WithState(state[p], "LOCKED") \in Words
      BY <1>0, WordTypes DEF PageTypes
    <3> QED BY <1>0, <2>1, <3>1, StateOf
  <2>4. /\ state'[p].st = "LOCKED" /\ state'[p].ver = state[p].ver
        /\ state'[p].dirty = state[p].dirty
    BY <1>0, <2>3, WordFields DEF PageTypes
  <2>5. TypeInv'
    BY <1>0, <1>2, <2>2, <2>3 DEF TypeInv, PageTypes
  <2>6. PlaceOK(t)'
    BY <1>0, <1>2, <2>1, <2>2 DEF PlaceOK, Reserving
  <2>7. ASSUME NEW q \in Pages \ {p} PROVE PageSame(q) /\ HoldSame(t, q)
    BY <1>1, <1>2, <2>1, <2>2, <2>3 DEF PageSame, HoldSame, Pins, Evicts, Resets, Holding,
                                        Reserving
  <2>8. ~Unsettled(p) /\ \A u \in Threads : ~Pins(u, p)
    BY <1>4, FreePage
  <2>9. \A u \in Threads : ~Pins(u, p)'
    BY <1>2, <2>2, <2>8 DEF OthersSame, Pins, Holding, Reserving
  <2>10. Evicts(t, p)' /\ PageOK(p)'
    BY <1>1, <2>1, <2>2, <2>4 DEF Evicts, PageOK
  <2>11. ReaderSafe(p)
    BY <1>2, <2>4, <2>8, <2>9 DEF ReaderSafe
  <2>12. ASSUME NEW q \in Pages PROVE ThreadOK(t, q)' /\ ReadOK(t, q)'
    <3>1. ThreadOK(t, q) /\ PageOK(p)
      BY DEF IInv
    <3>2. arg[t] = q => disk[q] = latest[q]
      BY <1>2, <3>1 DEF ThreadOK, Reserving
    <3>3. frame[p] = latest[p] /\ (~state[p].dirty => disk[p] = latest[p])
      BY <1>4, <3>1 DEF PageOK
    <3> QED BY <1>1, <1>2, <2>1, <2>2, <2>4, <3>2, <3>3 DEF ThreadOK, ReadOK, Reads, Reserving
  <2>13. Pins(t, p) \/ Evicts(t, p) \/ state[p].st # "LOCKED"
    BY <1>4
  <2> QED BY <1>2, <2>2, <2>4, <2>5, <2>6, <2>7, <2>9, <2>10, <2>11, <2>12, <2>13, PageStep
<1> QED BY <1>3, <1>4

\* The page that t is evicting: nobody else has locked it.
LEMMA EvictedPage ==
  ASSUME IInv, NEW t \in Threads, pc[t] \in {"check", "reset"},
         NEW p \in Pages, p = loc[t].cand
  PROVE  /\ Evicts(t, p) /\ state[p].st = "LOCKED" /\ p \notin stuck /\ arg[t] # p
         /\ \A u \in Threads : ~Pins(u, p)
         /\ \A u \in Threads \ {t} : ~Resets(u, p)
<1>1. Evicts(t, p)
  BY DEF Evicts
<1>2. /\ state[p].st = "LOCKED" /\ p \notin stuck /\ ~Pins(t, p)
      /\ \A u \in Threads \ {t} : ~Pins(u, p) /\ ~Evicts(u, p)
  BY <1>1, OwnPage
<1> QED BY <1>1, <1>2 DEF Pins, Evicts, Resets, Holding, Reserving

\* tryEvictPage unlocks the page again, with the version it had: it has not changed.
LEMMA unlockUnchangedStep ==
  ASSUME IInv, NEW t \in Threads, unlockUnchanged(t)
  PROVE  IInv'
<1>0. PageTypes /\ ThreadTypes /\ PlaceOK(t)
  BY DEF IInv, TypeInv
<1>1. PICK p \in Pages : p = loc[t].cand
  BY CandidatePage DEF unlockUnchanged
<1>2. /\ pc[t] = "check" /\ state' = [state EXCEPT ![p] = WithState(state[p], "UNLOCKED")]
      /\ NextCandidate(t, 0) /\ 0 \in Int
      /\ UNCHANGED <<frame, disk, slots, latest, op, arg, seen, gone, stuck>>
  BY <1>1 DEF unlockUnchanged, history
<1>3. ThreadTypes' /\ OthersSame(t) /\ pc'[t] = "load" /\ loc'[t].cand = NoPage
  BY <1>0, <1>2, NextCandidateMoves
<1>4. /\ state' \in [Pages -> Words] /\ state'[p] = WithState(state[p], "UNLOCKED")
      /\ \A q \in Pages \ {p} : state'[q] = state[q]
  <2>1. WithState(state[p], "UNLOCKED") \in Words
    BY <1>0, WordTypes DEF PageTypes
  <2> QED BY <1>0, <1>2, <2>1, StateOf
<1>5. /\ state'[p].st = "UNLOCKED" /\ state'[p].ver = state[p].ver
      /\ state'[p].dirty = state[p].dirty
  BY <1>0, <1>4, WordFields DEF PageTypes
<1>6. TypeInv'
  BY <1>0, <1>2, <1>3, <1>4 DEF TypeInv, PageTypes
<1>7. PlaceOK(t)'
  BY <1>0, <1>2, <1>3 DEF PlaceOK, Reserving
<1>8. /\ Evicts(t, p) /\ p \notin stuck /\ arg[t] # p
      /\ \A u \in Threads : ~Pins(u, p)
      /\ \A u \in Threads \ {t} : ~Resets(u, p)
  BY <1>1, <1>2, EvictedPage
<1>9. ASSUME NEW q \in Pages \ {p} PROVE PageSame(q) /\ HoldSame(t, q)
  BY <1>1, <1>2, <1>3, <1>4 DEF PageSame, HoldSame, Pins, Evicts, Resets, Holding, Reserving
<1>10. ~Unsettled(p)
  BY <1>2, <1>8 DEF Unsettled, Resets
<1>11. ~Evicts(t, p)' /\ \A u \in Threads : ~Pins(u, p)'
  BY <1>2, <1>3, <1>8 DEF OthersSame, Pins, Evicts
<1>12. PageOK(p)'
  <2>1. ThreadOK(t, p)
    BY DEF IInv
  <2> QED BY <1>1, <1>2, <1>5, <2>1 DEF PageOK, ThreadOK
<1>13. ReaderSafe(p)
  BY <1>2, <1>5, <1>10, <1>11 DEF ReaderSafe
<1>14. ASSUME NEW q \in Pages PROVE ThreadOK(t, q)' /\ ReadOK(t, q)'
  <2>1. ThreadOK(t, q)
    BY DEF IInv
  <2> QED BY <1>2, <1>3, <2>1 DEF ThreadOK, ReadOK, Reads, Reserving
<1>15. state'[p].st # "LOCKED"
  BY <1>5
<1> QED BY <1>2, <1>3, <1>6, <1>7, <1>8, <1>9, <1>11, <1>12, <1>13, <1>14, <1>15, PageStep

\* tryEvictPage flushes a dirty page before it releases the frame.
LEMMA releaseFrameStep ==
  ASSUME IInv, NEW t \in Threads, releaseFrame(t)
  PROVE  IInv'
<1>0. PageTypes /\ ThreadTypes /\ PlaceOK(t)
  BY DEF IInv, TypeInv
<1>1. PICK p \in Pages : p = loc[t].cand
  BY CandidatePage DEF releaseFrame
<1>2. /\ pc[t] = "check" /\ frame' = [frame EXCEPT ![p] = Released]
      /\ disk' = IF state[p].dirty THEN [disk EXCEPT ![p] = frame[p]] ELSE disk
      /\ state' = [state EXCEPT ![p] = [state[p] EXCEPT !.dirty = FALSE]]
      /\ Goto(t, "reset") /\ "reset" \in Pcs
      /\ UNCHANGED <<slots, latest, op, arg, loc, seen, gone, stuck>>
  BY <1>1 DEF releaseFrame, Pcs
<1>3. ThreadTypes' /\ OthersSame(t) /\ pc'[t] = "reset"
  BY <1>0, <1>2, Moving
<1>4. /\ state' \in [Pages -> Words] /\ state'[p] = [state[p] EXCEPT !.dirty = FALSE]
      /\ \A q \in Pages \ {p} : state'[q] = state[q]
  <2>1. [state[p] EXCEPT !.dirty = FALSE] \in Words
    BY <1>0, WordTypes DEF PageTypes
  <2> QED BY <1>0, <1>2, <2>1, StateOf
<1>5. state'[p].st = state[p].st /\ state'[p].ver = state[p].ver
  BY <1>0, <1>4, WordFields DEF PageTypes
<1>6. /\ frame' \in [Pages -> Int] /\ \A q \in Pages \ {p} : frame'[q] = frame[q]
  BY <1>0, <1>2 DEF PageTypes, Released
<1>7. /\ disk' \in [Pages -> Int] /\ disk'[p] = latest[p]
      /\ \A q \in Pages \ {p} : disk'[q] = disk[q]
  <2>1. frame[p] = latest[p] /\ (~state[p].dirty => disk[p] = latest[p])
    BY <1>1, <1>2 DEF IInv, ThreadOK
  <2>2. CASE state[p].dirty
    BY <1>0, <1>2, <2>1, <2>2 DEF PageTypes
  <2>3. CASE ~state[p].dirty
    BY <1>0, <1>2, <2>1, <2>3 DEF PageTypes
  <2> QED BY <2>2, <2>3
<1>8. TypeInv'
  BY <1>0, <1>2, <1>3, <1>4, <1>6, <1>7 DEF TypeInv, PageTypes
<1>9. PlaceOK(t)'
  BY <1>0, <1>2, <1>3 DEF PlaceOK, Reserving
<1>10. /\ Evicts(t, p) /\ state[p].st = "LOCKED" /\ arg[t] # p
       /\ \A u \in Threads : ~Pins(u, p)
  BY <1>1, <1>2, EvictedPage
<1>11. ASSUME NEW q \in Pages \ {p} PROVE PageSame(q) /\ HoldSame(t, q)
  BY <1>1, <1>2, <1>3, <1>4, <1>6, <1>7 DEF PageSame, HoldSame, Pins, Evicts, Resets, Holding,
                                            Reserving
<1>12. /\ Evicts(t, p)' /\ Unsettled(p)' /\ state'[p].st = "LOCKED" /\ PageOK(p)'
       /\ \A u \in Threads : ~Pins(u, p)'
  <2>1. Evicts(t, p)' /\ Resets(t, p)'
    BY <1>1, <1>2, <1>3 DEF Evicts, Resets
  <2>2. \A u \in Threads : ~Pins(u, p)'
    BY <1>2, <1>3, <1>10 DEF OthersSame, Pins
  <2> QED BY <1>5, <1>10, <2>1, <2>2 DEF Unsettled, PageOK
<1>13. ReaderSafe(p)
  BY <1>5, <1>12 DEF ReaderSafe
<1>14. ASSUME NEW q \in Pages PROVE ThreadOK(t, q)' /\ ReadOK(t, q)'
  <2>1. ThreadOK(t, q)
    BY DEF IInv
  <2>2. arg[t] = q => disk'[q] = latest'[q]
    BY <1>2, <1>7, <1>10, <2>1 DEF ThreadOK, Reserving
  <2> QED BY <1>1, <1>2, <1>3, <1>7, <2>2 DEF ThreadOK, ReadOK, Reads, Reserving
<1> QED BY <1>2, <1>3, <1>8, <1>9, <1>10, <1>11, <1>12, <1>13, <1>14, PageStep

\* Who reads the page does not count as its reader any more (gone).
LEMMA resetCandidateStep ==
  ASSUME IInv, NEW t \in Threads, resetCandidate(t)
  PROVE  IInv'
<1>0. PageTypes /\ ThreadTypes /\ PlaceOK(t)
  BY DEF IInv, TypeInv
<1>1. PICK p \in Pages : p = loc[t].cand
  BY CandidatePage DEF resetCandidate
<1>2. /\ pc[t] = "reset" /\ state' = [state EXCEPT ![p] = Evicted]
      /\ gone' = [u \in Threads |-> gone[u] \/ (pc[u] \in {"copy", "verify"} /\ arg[u] = p)]
      /\ pc' = [pc EXCEPT ![t] = "clear"]
      /\ UNCHANGED <<frame, disk, slots, latest, op, arg, loc, seen, stuck>>
  BY <1>1 DEF resetCandidate, resetToEvicted, Goto
<1>3. pc' \in [Threads -> Pcs] /\ pc'[t] = "clear" /\ gone' \in [Threads -> BOOLEAN]
  BY <1>0, <1>2 DEF ThreadTypes, Pcs
<1>4. OthersSame(t)
  BY <1>0, <1>2 DEF ThreadTypes, OthersSame
<1>5. /\ state' \in [Pages -> Words] /\ state'[p] = Evicted
      /\ \A q \in Pages \ {p} : state'[q] = state[q]
  BY <1>0, <1>2, Sentinels, StateOf
<1>6. TypeInv'
  BY <1>0, <1>2, <1>3, <1>5 DEF TypeInv, PageTypes, ThreadTypes
<1>7. PlaceOK(t)'
  BY <1>0, <1>2, <1>3 DEF PlaceOK, Reserving
<1>8. Evicts(t, p) /\ arg[t] # p
  BY <1>1, <1>2, EvictedPage
<1>9. ASSUME NEW q \in Pages \ {p} PROVE PageSame(q) /\ HoldSame(t, q)
  BY <1>1, <1>2, <1>3, <1>5 DEF PageSame, HoldSame, Pins, Evicts, Resets, Holding, Reserving
<1>10. ~Pins(t, p)' /\ ~Evicts(t, p)'
  BY <1>2, <1>3, <1>8 DEF Pins, Evicts
<1>11. PageOK(p)' /\ state'[p].st # "LOCKED"
  <2>1. disk[p] = latest[p]
    BY <1>1, <1>2 DEF IInv, ThreadOK
  <2> QED BY <1>2, <1>5, <2>1 DEF PageOK, Evicted
<1>12. \A r \in Threads \ {t} : ~Reads(r, p)'
  BY <1>2, <1>4 DEF Reads, OthersSame
<1>13. ASSUME NEW q \in Pages PROVE ThreadOK(t, q)' /\ ReadOK(t, q)'
  <2>1. ThreadOK(t, q)
    BY DEF IInv
  <2> QED BY <1>2, <1>3, <2>1 DEF ThreadOK, ReadOK, Reads, Reserving
<1> QED BY <1>2, <1>4, <1>6, <1>7, <1>8, <1>9, <1>10, <1>11, <1>12, <1>13, PageStep
=============================================================================
