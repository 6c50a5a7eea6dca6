------------------------ MODULE BufferManagerProofs ------------------------
(***************************************************************************)
(* LockedByOne, NoLostWrite and OptimisticReadsCurrent for any number of   *)
(* threads and pages, any pool and any bounds.  The invariant IInv is made *)
(* of facts about one page, one thread, or a thread and a page.  One lemma *)
(* (ThreadStep) shows that a step of a thread which touches only pages     *)
(* that are free, or locked by itself, keeps the facts of all the others;  *)
(* BufferManagerSteps and BufferManagerPageSteps apply it to every action, *)
(* BufferManagerTheorems has the theorems.                                 *)
(***************************************************************************)
EXTENDS BufferManager, WellFoundedInduction, TLAPS

Locals == [claimed : Int, failed : Int, passes : Int, slot : Slots \cup {0},
           found : SUBSET Slots, cand : Pages \cup {NoPage}, freed : Int]

PageTypes ==
  /\ state \in [Pages -> Words]
  /\ frame \in [Pages -> Int] /\ disk \in [Pages -> Int] /\ latest \in [Pages -> Int]
  /\ slots \in [Slots -> Pages \cup {NoPage}]
  /\ stuck \subseteq Pages

ThreadTypes ==
  /\ pc \in [Threads -> Pcs] /\ op \in [Threads -> Operations]
  /\ arg \in [Threads -> Pages \cup {NoPage}]
  /\ loc \in [Threads -> Locals]
  /\ seen \in [Threads -> [word : Words, got : Int]]
  /\ gone \in [Threads -> BOOLEAN]

TypeInv == PageTypes /\ ThreadTypes

\* Where a thread has a page, and where it has a candidate.
PlaceOK(t) ==
  /\ pc[t] \in {"spin", "cache", "insert", "pinned", "copy", "verify"}
       => arg[t] \in Pages /\ op[t] # "malloc"
  /\ pc[t] \in Reserving => (op[t] # "malloc" <=> arg[t] \in Pages)
  /\ pc[t] \in {"idle", "held"} => arg[t] = NoPage
  /\ loc[t].cand # NoPage <=> pc[t] \in {"lock", "check", "reset", "clear"}

\* A page that nobody has locked (the two facts of NoLostWrite).
PageOK(p) ==
  /\ state[p].st \in {"UNLOCKED", "MARKED"} => frame[p] = latest[p]
  /\ state[p].st # "LOCKED" /\ ~state[p].dirty => disk[p] = latest[p]
  /\ state[p].st = "EVICTED" => ~state[p].dirty

\* A page that t has locked: while memory is reserved for it, its content is in the file;
\* once it is cached, in the frame, unless DONT_READ_PAGE left that as it was; while it is
\* evicted, first in the frame and then in the file.
ThreadOK(t, p) ==
  /\ arg[t] = p /\ pc[t] \in Reserving \cup {"cache"} => disk[p] = latest[p]
  /\ arg[t] = p /\ pc[t] \in {"insert", "pinned"} =>
       /\ op[t] # "new" => frame[p] = latest[p]
       /\ ~state[p].dirty => disk[p] = latest[p]
  /\ loc[t].cand = p /\ pc[t] = "check" =>
       /\ frame[p] = latest[p]
       /\ ~state[p].dirty => disk[p] = latest[p]
  /\ loc[t].cand = p /\ pc[t] = "reset" => disk[p] = latest[p]

Resets(t, p) == loc[t].cand = p /\ pc[t] = "reset"

\* The page may be changing, or has lost its frame.
Unsettled(p) == p \in stuck \/ \E u \in Threads : Pins(u, p) \/ Resets(u, p)

Reads(t, p) == pc[t] \in {"copy", "verify"} /\ ~gone[t] /\ arg[t] = p

\* t reads p, which was not evicted since.  A thread that has p locked has found it cached.
\* As long as the version is the one t saw, what t read is the content, unless somebody
\* may be changing the page; who does increments the version before the page is UNLOCKED.
ReadOK(t, p) ==
  Reads(t, p) =>
    /\ seen[t].word.st = "UNLOCKED"
    /\ state[p].st # "EVICTED"
    /\ \A u \in Threads : Pins(u, p) => pc[u] = "pinned"
    /\ state[p].ver >= seen[t].word.ver
    /\ pc[t] = "verify" /\ state[p].ver = seen[t].word.ver /\ ~Unsettled(p)
         => seen[t].got = latest[p]

IInv ==
  /\ TypeInv
  /\ LockedByOne
  /\ \A t \in Threads : PlaceOK(t)
  /\ \A p \in Pages : PageOK(p)
  /\ \A t \in Threads, p \in Pages : ThreadOK(t, p) /\ ReadOK(t, p)

\* Of a step: it changes nothing of the threads other than t, except that their page may
\* be evicted; nothing of page q; nothing of t's hold on q.
OthersSame(t) ==
  \A u \in Threads \ {t} :
    /\ pc'[u] = pc[u] /\ op'[u] = op[u] /\ arg'[u] = arg[u] /\ seen'[u] = seen[u]
    /\ loc'[u].cand = loc[u].cand
    /\ gone[u] => gone'[u]

PageSame(q) ==
  state'[q] = state[q] /\ frame'[q] = frame[q] /\ disk'[q] = disk[q] /\ latest'[q] = latest[q]

HoldSame(t, q) ==
  /\ Pins(t, q)' <=> Pins(t, q)
  /\ Evicts(t, q)' <=> Evicts(t, q)
  /\ Resets(t, q)' <=> Resets(t, q)
  /\ Pins(t, q) /\ pc[t] = "pinned" => pc'[t] = "pinned"

\* What a reader needs of a step that touches its page.
ReaderSafe(p) ==
  /\ state'[p].st # "EVICTED"
  /\ \A u \in Threads : Pins(u, p)' => pc'[u] = "pinned"
  /\ \/ state'[p].ver > state[p].ver
     \/ /\ state'[p].ver = state[p].ver
        /\ Unsettled(p)' \/ (~Unsettled(p) /\ latest'[p] = latest[p])

Less == {ss \in Nat \X Nat : ss[1] < ss[2]}

\* Less is well founded on the naturals.
LEMMA LessWellFounded == IsWellFoundedOn(Less, Nat)
BY NatLessThanWellFounded, Zenon DEF OpToRel, Less

\* A non-empty set of naturals has a smallest member.
LEMMA SmallestSlot ==
  ASSUME NEW S \in SUBSET Nat, S # {}
  PROVE  \E i \in S : \A j \in S : i <= j
<1>1. PICK i \in S : \A j \in S : ~(<<j, i>> \in Less)
  BY LessWellFounded, WFMin, Zenon
<1>2. ASSUME NEW j \in S PROVE i <= j
  <2>1. i \in Nat /\ j \in Nat
    OBVIOUS
  <2>2. ~(j < i)
    BY <1>1, <2>1 DEF Less
  <2> QED BY <2>1, <2>2
<1> QED BY <1>2

\* The slot that tryEvictPage looks at is a slot of the eviction queue.
LEMMA SlotFound ==
  ASSUME TypeInv, NEW t \in Threads, loc[t].found # {}
  PROVE  Slot(t) \in Slots
<1>1. loc[t].found \in SUBSET Slots
  BY DEF TypeInv, ThreadTypes, Locals
<1>2. Slots \subseteq Nat
  BY BufferManagerAssumption DEF Slots
<1>3. \E i \in loc[t].found : \A j \in loc[t].found : i <= j
  BY <1>1, <1>2, SmallestSlot
<1> QED BY <1>1, <1>3, Zenon DEF Slot

\* A step of t leaves the locks of the other threads alone.  It may keep a lock, give it
\* up, leave it behind in stuck, or lock a page that nobody has locked.
LEMMA LocksMove ==
  ASSUME LockedByOne, NEW t \in Threads,
         stuck \subseteq stuck',
         \A u \in Threads \ {t}, q \in Pages : /\ Pins(u, q)' <=> Pins(u, q)
                                               /\ Evicts(u, q)' <=> Evicts(u, q),
         \A q \in Pages : ~(Pins(t, q)' /\ Evicts(t, q)'),
         \A q \in stuck' \ stuck : ~Pins(t, q)' /\ ~Evicts(t, q)',
         \A q \in Pages : Pins(t, q)' \/ Evicts(t, q)' \/ q \in stuck' \ stuck
                          => Pins(t, q) \/ Evicts(t, q) \/ state[q].st # "LOCKED",
         \A q \in Pages : IF Pins(t, q) \/ Evicts(t, q) \/ Pins(t, q)' \/ Evicts(t, q)'
                          THEN state'[q].st = "LOCKED"
                               <=> Pins(t, q)' \/ Evicts(t, q)' \/ q \in stuck'
                          ELSE /\ state'[q].st = "LOCKED" <=> state[q].st = "LOCKED"
                               /\ q \in stuck' <=> q \in stuck
  PROVE  LockedByOne'
<1> SUFFICES ASSUME NEW q \in Pages
             PROVE  /\ state'[q].st = "LOCKED"
                       <=> q \in stuck' \/ \E u \in Threads : Pins(u, q)' \/ Evicts(u, q)'
                    /\ \A u, v \in Threads : Pins(u, q)' /\ Pins(v, q)' => u = v
                    /\ \A u, v \in Threads : Evicts(u, q)' /\ Evicts(v, q)' => u = v
                    /\ \A u, v \in Threads : ~(Pins(u, q)' /\ Evicts(v, q)')
                    /\ \A u \in Threads : q \in stuck' => ~Pins(u, q)' /\ ~Evicts(u, q)'
  BY DEF LockedByOne
<1>1. /\ state[q].st = "LOCKED"
         <=> q \in stuck \/ \E u \in Threads : Pins(u, q) \/ Evicts(u, q)
      /\ \A u, v \in Threads : Pins(u, q) /\ Pins(v, q) => u = v
      /\ \A u, v \in Threads : Evicts(u, q) /\ Evicts(v, q) => u = v
      /\ \A u, v \in Threads : ~(Pins(u, q) /\ Evicts(v, q))
      /\ \A u \in Threads : q \in stuck => ~Pins(u, q) /\ ~Evicts(u, q)
  BY DEF LockedByOne
<1>2. CASE Pins(t, q) \/ Evicts(t, q)
  <2>1. /\ q \notin stuck
        /\ \A u \in Threads \ {t} : ~Pins(u, q) /\ ~Evicts(u, q)
    BY <1>1, <1>2
  <2>2. \A u \in Threads \ {t} : ~Pins(u, q)' /\ ~Evicts(u, q)'
    BY <2>1
  <2> QED BY <1>2, <2>1, <2>2
<1>3. CASE ~Pins(t, q) /\ ~Evicts(t, q)
  <2>1. CASE Pins(t, q)' \/ Evicts(t, q)'
    <3>1. \A u \in Threads \ {t} : ~Pins(u, q)' /\ ~Evicts(u, q)'
      BY <1>1, <1>3, <2>1
    <3>2. q \notin stuck'
      BY <1>1, <1>3, <2>1
    <3> QED BY <2>1, <3>1, <3>2
  <2>2. CASE ~Pins(t, q)' /\ ~Evicts(t, q)'
    <3>1. \A u \in Threads : /\ Pins(u, q)' <=> Pins(u, q)
                             /\ Evicts(u, q)' <=> Evicts(u, q)
      BY <1>3, <2>2
    <3>2. /\ state'[q].st = "LOCKED" <=> state[q].st = "LOCKED"
          /\ q \in stuck' <=> q \in stuck
      BY <1>3, <2>2
    <3> QED BY <1>1, <3>1, <3>2
  <2> QED BY <2>1, <2>2
<1> QED BY <1>2, <1>3

\* A step of t that touches only the pages of P, each of them free or locked by t
\* itself, keeps the facts of all other threads and pages.
LEMMA ThreadStep ==
  ASSUME IInv, TypeInv', NEW t \in Threads, NEW P \in SUBSET Pages,
         OthersSame(t), stuck' = stuck, PlaceOK(t)',
         \A q \in Pages \ P : PageSame(q) /\ HoldSame(t, q),
         \A p \in P : /\ Pins(t, p) \/ Evicts(t, p) \/ state[p].st # "LOCKED"
                      /\ ~(Pins(t, p)' /\ Evicts(t, p)')
                      /\ state'[p].st = "LOCKED" <=> Pins(t, p)' \/ Evicts(t, p)'
                      /\ PageOK(p)'
                      /\ \A r \in Threads \ {t} : Reads(r, p)' => ReaderSafe(p),
         \A q \in Pages : ThreadOK(t, q)' /\ ReadOK(t, q)'
  PROVE  IInv'
<1>0. /\ TypeInv /\ LockedByOne
      /\ \A u \in Threads : PlaceOK(u)
      /\ \A p \in Pages : PageOK(p)
      /\ \A u \in Threads, p \in Pages : ThreadOK(u, p) /\ ReadOK(u, p)
  BY DEF IInv
<1>1. ASSUME NEW u \in Threads \ {t}, NEW q \in Pages
      PROVE  /\ Pins(u, q)' <=> Pins(u, q)
             /\ Evicts(u, q)' <=> Evicts(u, q)
             /\ Resets(u, q)' <=> Resets(u, q)
             /\ Reads(u, q)' => Reads(u, q)
  BY DEF OthersSame, Pins, Evicts, Resets, Reads
<1>2. ASSUME NEW p \in P
      PROVE  p \notin stuck /\ \A u \in Threads \ {t} : ~Pins(u, p) /\ ~Evicts(u, p)
  BY <1>0 DEF LockedByOne
<1>3. LockedByOne'
  <2>1. \A q \in Pages : ~(Pins(t, q)' /\ Evicts(t, q)')
    BY <1>0 DEF LockedByOne, HoldSame
  <2>2. \A q \in Pages : Pins(t, q)' \/ Evicts(t, q)'
                          => Pins(t, q) \/ Evicts(t, q) \/ state[q].st # "LOCKED"
    BY DEF HoldSame
  <2>3. ASSUME NEW q \in Pages
        PROVE  IF Pins(t, q) \/ Evicts(t, q) \/ Pins(t, q)' \/ Evicts(t, q)'
               THEN state'[q].st = "LOCKED" <=> Pins(t, q)' \/ Evicts(t, q)' \/ q \in stuck'
               ELSE /\ state'[q].st = "LOCKED" <=> state[q].st = "LOCKED"
                    /\ q \in stuck' <=> q \in stuck
    <3>1. CASE q \in P
      <4>1. q \notin stuck'
        BY <1>2, <3>1
      <4>2. ~Pins(t, q) /\ ~Evicts(t, q) => state[q].st # "LOCKED"
        BY <3>1
      <4>3. state'[q].st = "LOCKED" <=> Pins(t, q)' \/ Evicts(t, q)'
        BY <3>1
      <4> QED BY <4>1, <4>2, <4>3
    <3>2. CASE q \notin P
      <4>1. HoldSame(t, q) /\ state'[q] = state[q]
        BY <3>2 DEF PageSame
      <4>2. Pins(t, q) \/ Evicts(t, q) => state[q].st = "LOCKED"
        BY <1>0 DEF LockedByOne
      <4> QED BY <4>1, <4>2 DEF HoldSame
    <3> QED BY <3>1, <3>2
  <2> QED BY <1>0, <1>1, <2>1, <2>2, <2>3, LocksMove
<1>4. ASSUME NEW u \in Threads PROVE PlaceOK(u)'
  <2>1. CASE u # t
    BY <1>0, <2>1 DEF OthersSame, PlaceOK
  <2> QED BY <2>1
<1>5. ASSUME NEW p \in Pages PROVE PageOK(p)'
  <2>1. CASE p \notin P
    BY <1>0, <2>1 DEF PageSame, PageOK
  <2> QED BY <2>1
<1>6. ASSUME NEW u \in Threads, NEW p \in Pages PROVE ThreadOK(u, p)'
  <2>1. CASE u # t /\ p \notin P
    BY <1>0, <2>1 DEF OthersSame, PageSame, ThreadOK
  <2>2. CASE u # t /\ p \in P
    <3>1. ~Pins(u, p)' /\ ~Evicts(u, p)'
      BY <1>1, <1>2, <2>2
    <3> QED BY <3>1 DEF ThreadOK, Pins, Evicts, Holding
  <2> QED BY <2>1, <2>2
<1>7. ASSUME NEW r \in Threads, NEW p \in Pages PROVE ReadOK(r, p)'
  <2> SUFFICES ASSUME r # t, Reads(r, p)' PROVE ReadOK(r, p)'
    BY DEF ReadOK
  <2>1. /\ Reads(r, p) /\ pc'[r] = pc[r] /\ seen'[r] = seen[r]
    BY <1>1 DEF OthersSame
  <2>2. ReaderSafe(p)
    <3>1. CASE p \in P
      BY <3>1
    <3>2. CASE p \notin P
      <4>1. PageSame(p) /\ HoldSame(t, p)
        BY <3>2
      <4>2. state[p].st # "EVICTED" /\ \A u \in Threads : Pins(u, p) => pc[u] = "pinned"
        BY <1>0, <2>1 DEF ReadOK
      <4>3. \A u \in Threads : Pins(u, p)' => pc'[u] = "pinned"
        BY <1>1, <4>1, <4>2 DEF HoldSame, OthersSame
      <4>4. \A u \in Threads : (Pins(u, p)' <=> Pins(u, p)) /\ (Resets(u, p)' <=> Resets(u, p))
        BY <1>1, <4>1 DEF HoldSame
      <4>5. Unsettled(p)' <=> Unsettled(p)
        BY <4>4 DEF Unsettled
      <4> QED BY <4>1, <4>2, <4>3, <4>5 DEF PageSame, ReaderSafe
    <3> QED BY <3>1, <3>2
  <2>3. state[p].ver \in Int /\ state'[p].ver \in Int /\ seen[r].word.ver \in Int
    BY <1>0 DEF TypeInv, PageTypes, ThreadTypes, Words
  <2>4. /\ seen[r].word.st = "UNLOCKED" /\ state[p].ver >= seen[r].word.ver
        /\ pc[r] = "verify" /\ state[p].ver = seen[r].word.ver /\ ~Unsettled(p)
             => seen[r].got = latest[p]
    BY <1>0, <2>1 DEF ReadOK
  <2>5. state'[p].ver >= seen'[r].word.ver
    BY <2>1, <2>2, <2>3, <2>4 DEF ReaderSafe
  <2>6. pc'[r] = "verify" /\ state'[p].ver = seen'[r].word.ver /\ ~Unsettled(p)'
          => seen'[r].got = latest'[p]
    BY <2>1, <2>2, <2>3, <2>4 DEF ReaderSafe
  <2> QED BY <2>1, <2>2, <2>4, <2>5, <2>6 DEF ReaderSafe, ReadOK
<1> QED BY <1>3, <1>4, <1>5, <1>6, <1>7 DEF IInv

\* A step of t that touches no page, and one that touches page p.
LEMMA InnerStep ==
  ASSUME IInv, TypeInv', NEW t \in Threads, OthersSame(t), stuck' = stuck, PlaceOK(t)',
         \A q \in Pages : PageSame(q) /\ HoldSame(t, q) /\ ThreadOK(t, q)' /\ ReadOK(t, q)'
  PROVE  IInv'
<1>1. {} \in SUBSET Pages /\ \A q \in Pages \ {} : PageSame(q) /\ HoldSame(t, q)
  OBVIOUS
<1> QED BY <1>1, ThreadStep

\* A step of t that touches page p.
LEMMA PageStep ==
  ASSUME IInv, TypeInv', NEW t \in Threads, NEW p \in Pages,
         OthersSame(t), stuck' = stuck, PlaceOK(t)',
         \A q \in Pages \ {p} : PageSame(q) /\ HoldSame(t, q),
         Pins(t, p) \/ Evicts(t, p) \/ state[p].st # "LOCKED",
         ~(Pins(t, p)' /\ Evicts(t, p)'),
         state'[p].st = "LOCKED" <=> Pins(t, p)' \/ Evicts(t, p)',
         PageOK(p)',
         \A r \in Threads \ {t} : Reads(r, p)' => ReaderSafe(p),
         \A q \in Pages : ThreadOK(t, q)' /\ ReadOK(t, q)'
  PROVE  IInv'
<1>1. {p} \in SUBSET Pages
  OBVIOUS
<1>2. ASSUME NEW x \in {p}
      PROVE  /\ Pins(t, x) \/ Evicts(t, x) \/ state[x].st # "LOCKED"
             /\ ~(Pins(t, x)' /\ Evicts(t, x)')
             /\ state'[x].st = "LOCKED" <=> Pins(t, x)' \/ Evicts(t, x)'
             /\ PageOK(x)'
             /\ \A r \in Threads \ {t} : Reads(r, x)' => ReaderSafe(x)
  <2>1. x = p
    OBVIOUS
  <2> QED BY <2>1, Zenon
<1> QED BY <1>1, <1>2, ThreadStep

\* An exception leaves the pages of t locked, and nobody uses them any more.
LEMMA ThreadAbandons ==
  ASSUME IInv, TypeInv', NEW t \in Threads,
         OthersSame(t), PlaceOK(t)', pc'[t] = "idle", pc[t] # "reset",
         loc'[t].cand = NoPage, \A q \in Pages : PageSame(q),
         \A q \in Pages : q \in stuck' <=> q \in stuck \/ Pins(t, q) \/ Evicts(t, q)
  PROVE  IInv'
<1>0. /\ TypeInv /\ LockedByOne
      /\ \A u \in Threads : PlaceOK(u)
      /\ \A p \in Pages : PageOK(p)
      /\ \A u \in Threads, p \in Pages : ThreadOK(u, p) /\ ReadOK(u, p)
  BY DEF IInv
<1>1. ASSUME NEW u \in Threads \ {t}, NEW q \in Pages
      PROVE  /\ Pins(u, q)' <=> Pins(u, q)
             /\ Evicts(u, q)' <=> Evicts(u, q)
             /\ Resets(u, q)' <=> Resets(u, q)
             /\ Reads(u, q)' => Reads(u, q)
  BY DEF OthersSame, Pins, Evicts, Resets, Reads
<1>2. ASSUME NEW q \in Pages PROVE ~Pins(t, q)' /\ ~Evicts(t, q)' /\ ~Reads(t, q)'
  BY DEF Pins, Evicts, Reads, Holding, Reserving
<1>3. LockedByOne'
  <2>1. stuck \subseteq stuck' /\ stuck' \subseteq Pages
    BY <1>0 DEF TypeInv, PageTypes
  <2>2. \A q \in Pages : state'[q].st = "LOCKED" <=> state[q].st = "LOCKED"
    BY DEF PageSame
  <2>3. \A q \in Pages : Pins(t, q) \/ Evicts(t, q) => state[q].st = "LOCKED"
    BY <1>0 DEF LockedByOne
  <2> QED BY <1>0, <1>1, <1>2, <2>1, <2>2, <2>3, LocksMove
<1>4. ASSUME NEW u \in Threads PROVE PlaceOK(u)'
  <2>1. CASE u # t
    BY <1>0, <2>1 DEF OthersSame, PlaceOK
  <2> QED BY <2>1
<1>5. ASSUME NEW p \in Pages PROVE PageOK(p)'
  BY <1>0 DEF PageSame, PageOK
<1>6. ASSUME NEW u \in Threads, NEW p \in Pages PROVE ThreadOK(u, p)'
  <2>1. CASE u # t
    BY <1>0, <2>1 DEF OthersSame, PageSame, ThreadOK
  <2>2. CASE u = t
    BY <2>2 DEF ThreadOK, Reserving
  <2> QED BY <2>1, <2>2
<1>7. ASSUME NEW r \in Threads, NEW p \in Pages PROVE ReadOK(r, p)'
  <2> SUFFICES ASSUME r # t, Reads(r, p)' PROVE ReadOK(r, p)'
    BY <1>2 DEF ReadOK
  <2>1. Reads(r, p) /\ pc'[r] = pc[r] /\ seen'[r] = seen[r]
    BY <1>1 DEF OthersSame
  <2>2. Unsettled(p) => Unsettled(p)'
    BY <1>1 DEF Unsettled, Resets
  <2>3. \A u \in Threads : Pins(u, p)' => pc'[u] = "pinned"
    BY <1>0, <1>1, <1>2, <2>1 DEF ReadOK, OthersSame
  <2>4. ReadOK(r, p)
    BY <1>0
  <2> QED BY <2>1, <2>2, <2>3, <2>4 DEF PageSame, ReadOK
<1> QED BY <1>3, <1>4, <1>5, <1>6, <1>7 DEF IInv

=============================================================================
