----------------------------- MODULE Checkpoint -----------------------------
(***************************************************************************)
(* Durability in cpp-reference: the write-ahead log, the shadow file, the  *)
(* free space of the data file, the checkpointer and the recovery.         *)
(*                                                                         *)
(* A database state is the set of the transactions it contains.  The data  *)
(* file has a header page 0 that points to a metadata page, which points   *)
(* to a column page.  A checkpoint writes the column page directly and the *)
(* other two through the shadow file.  A log record is a transaction, the  *)
(* file's header or a checkpoint.                                          *)
(*                                                                         *)
(* The checkpoint and the recovery are one step per file operation.  Any   *)
(* operation may throw, the process may die between any two, and the power *)
(* may fail: then each page that was written and not synced is old or new. *)
(* Truncating and removing a file survive a power loss in the order they   *)
(* were issued.  The database is opened with throwOnWalReplayFailure off.  *)
(***************************************************************************)
EXTENDS Integers, Sequences, SequencesExt, FiniteSets, FiniteSetsExt, TLC

CONSTANTS
  MaxTxns,      \* bound: transactions
  MaxPage,      \* bound: the last page of the data file
  MaxFaults,    \* bound: exceptions thrown
  MaxCrashes    \* bound: deaths of the process and power losses

ASSUME CheckpointAssumption ==
  {MaxTxns, MaxPage, MaxFaults, MaxCrashes} \subseteq Nat

VARIABLES
  \* the files, as the operating system has them
  data,         \* the data file: page -> content
  wal,          \* the records in the log
  torn,         \* a part of a record follows them
  shadow,       \* the shadow file: are its pages complete, which pages
  \* and as the disk has them
  dataDur, walDur,
  \* memory
  pc,           \* "open", a step of the checkpoint, "down", a step of the recovery,
                \* or "unclaimed": no claim is made any more (see leave)
  writer,       \* WAL::serializer exists
  buf,          \* the buffer of its BufferedFileWriter
  mem,          \* the committed state; the page of the table; its hasChanges;
                \* hasStorageChanges; has the page manager changed
  fsm,          \* free and uncheckpointed free pages, the number of pages
  hdr, newHdr,  \* the metadata page of the in-memory header and of its new copy
  shadowMap,    \* the shadow pages
  todo,         \* the shadow pages still to be applied
  \* history
  used,         \* transactions tried
  acked,        \* commits acknowledged to a client
  doubt,        \* commits reported as failed, or not reported at all
  faults, crashes

files == <<data, wal, torn, shadow, dataDur, walDur>>
memory == <<writer, buf, mem, fsm, hdr, newHdr, shadowMap, todo>>
history == <<used, acked, doubt, faults, crashes>>
vars == <<files, pc, memory, history>>

PagesOf == 0 .. MaxPage

Content(kind, ref, free, txns) ==
  [kind |-> kind, ref |-> ref, free |-> free, txns |-> txns]

Hole == Content("hole", 0, {}, {})
HeaderPage(m) == Content("header", m, {}, {})
MetaPage(d, free) == Content("meta", d, free, {})
ColumnPage(txns) == Content("column", 0, {}, txns)

NoFile == [complete |-> FALSE, pages |-> <<>>]

Hdr == [type |-> "hdr", t |-> 0, copy |-> FALSE]
Ckpt == [type |-> "ckpt", t |-> 0, copy |-> FALSE]
Commits(t, copy) == [type |-> "commit", t |-> t, copy |-> copy]

NoMem == [txns |-> {}, page |-> 0, dirty |-> FALSE, stored |-> FALSE,
          changed |-> FALSE]

Forget ==
  /\ writer' = FALSE /\ buf' = <<>>
  /\ mem' = NoMem
  /\ fsm' = [free |-> {}, unchk |-> {}, n |-> 0]
  /\ hdr' = 0 /\ newHdr' = 0 /\ shadowMap' = <<>> /\ todo' = {}

FileLen(d) == 1 + Max({p \in PagesOf : p = 0 \/ d[p] # Hole})

-----------------------------------------------------------------------------
(* WALReplayer, as a function of the files.                                *)

has(w, type) == \E i \in DOMAIN w : w[i].type = type

\* Checkpointer::readCheckpoint.
readCheckpoint(d) ==
  LET meta == d[d[0].ref]
      col  == d[meta.ref]
  IN IF d[0].ref = 0
       THEN [ok |-> TRUE, txns |-> {}, page |-> 0, free |-> {}]
       ELSE [ok |-> meta.kind = "meta" /\ (meta.ref = 0 \/ col.kind = "column"),
             txns |-> col.txns, page |-> meta.ref, free |-> meta.free]

\* What replaying the records adds.  A log without its header is not read, and
\* the record of a COPY does nothing.
Replayed(w) ==
  IF w = <<>> \/ w[1] # Hdr THEN {}
  ELSE {w[i].t : i \in {j \in DOMAIN w : w[j].type = "commit" /\ ~w[j].copy}}

Applied(d, pages) == [p \in PagesOf |-> IF p \in DOMAIN pages THEN pages[p] ELSE d[p]]

\* What an open that is not interrupted makes of the files.
Recovered(d, w, sh) ==
  IF has(w, "ckpt")
    THEN LET r == readCheckpoint(Applied(d, sh.pages))
         IN [ok |-> sh.complete /\ r.ok, txns |-> r.txns, twice |-> {}]
    ELSE LET r == readCheckpoint(d)
         IN [ok |-> r.ok, txns |-> r.txns \cup Replayed(w),
             twice |-> r.txns \cap Replayed(w)]

-----------------------------------------------------------------------------

Init ==
  /\ data = [p \in PagesOf |-> IF p = 0 THEN HeaderPage(0) ELSE Hole]
  /\ dataDur = data
  /\ wal = <<>> /\ walDur = <<>> /\ torn = FALSE
  /\ shadow = NoFile
  /\ pc = "open"
  /\ writer = FALSE /\ buf = <<>>
  /\ mem = NoMem
  /\ fsm = [free |-> {}, unchk |-> {}, n |-> 1]
  /\ hdr = 0 /\ newHdr = 0 /\ shadowMap = <<>> /\ todo = {}
  /\ used = 0 /\ acked = {} /\ doubt = {}
  /\ faults = 0 /\ crashes = 0

\* The code is known not to recover from what follows, and the model stops.  Each
\* action that can leave says why.
leave(cond, next) == pc' = IF cond THEN "unclaimed" ELSE next

Throws ==
  /\ faults < MaxFaults
  /\ faults' = faults + 1

-----------------------------------------------------------------------------
(* The log.                                                                *)

\* WAL::initWriter puts a header into an empty file, once per writer.
Buffered(rec) ==
  buf \o (IF ~writer /\ wal = <<>> THEN <<Hdr>> ELSE <<>>) \o <<rec>>

\* Flush and sync; what is left of an earlier failed write is written over.
Logged(rec) ==
  /\ wal' = wal \o Buffered(rec)
  /\ walDur' = wal'
  /\ torn' = FALSE
  /\ writer' = TRUE /\ buf' = <<>>

\* The write fails with the records in the buffer, or the sync does.
LogThrows(rec) ==
  /\ writer' = TRUE
  /\ \/ /\ buf' = Buffered(rec)
        /\ torn' \in {torn, TRUE}
        /\ UNCHANGED <<wal, walDur>>
     \/ /\ wal' = wal \o Buffered(rec) /\ buf' = <<>> /\ torn' = FALSE
        /\ UNCHANGED walDur

\* Bound: a checkpoint needs two pages.
Room == Cardinality(fsm.free) + MaxPage + 1 - fsm.n >= 2

\* A COPY that could not be checkpointed is in memory only.
UnloggedCopy == doubt \cap mem.txns # {}

\* The writer has put its header into a file that was then truncated.
Headerless == writer /\ wal = <<>> /\ ~has(buf, "hdr")

\* A commit that is logged behind a checkpoint record, without the header of the
\* log, or on top of a COPY that is in no file.
Unrecoverable == has(wal \o buf, "ckpt") \/ Headerless \/ UnloggedCopy

\* logCommittedWAL, at the end of a commit.  A COPY forces a checkpoint, and is
\* acknowledged after it.
Commit(copy) ==
  LET t == used + 1
  IN /\ pc = "open" /\ used < MaxTxns /\ (copy => Room)
     /\ Logged(Commits(t, copy))
     /\ mem' = [mem EXCEPT !.txns = @ \cup {t}, !.dirty = TRUE]
     /\ used' = t
     /\ acked' = IF copy THEN acked ELSE acked \cup {t}
     /\ doubt' = IF copy THEN doubt \cup {t} ELSE doubt
     /\ leave(Unrecoverable, IF copy THEN "storage" ELSE "open")
     /\ UNCHANGED <<data, shadow, dataDur, fsm, hdr, newHdr, shadowMap, todo,
                    faults, crashes>>

CommitFails(copy) ==
  LET t == used + 1
  IN /\ pc = "open" /\ used < MaxTxns
     /\ Throws
     /\ LogThrows(Commits(t, copy))
     /\ used' = t /\ doubt' = doubt \cup {t}
     /\ leave(Unrecoverable, "open")
     /\ UNCHANGED <<data, shadow, dataDur, mem, fsm, hdr, newHdr, shadowMap,
                    todo, acked, crashes>>

\* The process dies while it writes: some records reach the file, and perhaps a
\* part of the next one.
LogDies(rec) ==
  \E k \in 0 .. Len(Buffered(rec)) :
    /\ wal' = wal \o SubSeq(Buffered(rec), 1, k)
    /\ torn' \in IF k < Len(Buffered(rec)) THEN BOOLEAN ELSE {FALSE}
    /\ UNCHANGED walDur

Dies ==
  /\ crashes < MaxCrashes
  /\ crashes' = crashes + 1
  /\ Forget

CommitDies(copy) ==
  LET t == used + 1
  IN /\ pc = "open" /\ used < MaxTxns
     /\ Dies
     /\ LogDies(Commits(t, copy))
     /\ used' = t /\ doubt' = doubt \cup {t}
     /\ leave(Unrecoverable, "down")
     /\ UNCHANGED <<data, shadow, dataDur, acked, faults>>

-----------------------------------------------------------------------------
(* The checkpoint, one action per step of Checkpointer::writeCheckpoint.   *)

\* PageManager::allocatePageRange: a free page, else the end of the file.
Alloc(f, p) ==
  IF f.free # {} THEN p \in f.free ELSE p = f.n /\ p <= MaxPage

Allocated(f, p) == [f EXCEPT !.free = @ \ {p}, !.n = IF p = @ THEN @ + 1 ELSE @]

\* A mutant: a freed page can be reused at once.
freePageRange_reusable(f, p) == IF p = 0 THEN f ELSE [f EXCEPT !.free = @ \cup {p}]

\* PageManager::freePageRange.
freePageRange(f, p) == IF p = 0 THEN f ELSE [f EXCEPT !.unchk = @ \cup {p}]

\* CHECKPOINT, an automatic checkpoint, or the one of a closing database.
CheckpointBegin ==
  /\ pc = "open" /\ Room
  /\ pc' = "storage"
  /\ UNCHANGED <<files, memory, history>>

\* A changed table writes its column to a new page and frees the old one.
checkpointStorage ==
  /\ pc = "storage" /\ pc' = "metadata"
  /\ \/ /\ mem.dirty
        /\ \E p \in PagesOf :
             /\ Alloc(fsm, p)
             /\ data' = [data EXCEPT ![p] = ColumnPage(mem.txns)]
             /\ fsm' = freePageRange(Allocated(fsm, p), mem.page)
             /\ mem' = [mem EXCEPT !.page = p, !.dirty = FALSE, !.stored = TRUE,
                                   !.changed = @ \/ p \in fsm.free \/ mem.page # 0]
     \/ /\ ~mem.dirty
        /\ mem' = [mem EXCEPT !.stored = FALSE]
        /\ UNCHANGED <<data, fsm>>
  /\ UNCHANGED <<wal, torn, shadow, dataDur, walDur, writer, buf, hdr, newHdr,
                 shadowMap, todo, history>>

\* The old page is freed first, so that the free list that is written has it;
\* the new one is allocated first, so that the list does not.
serializeCatalogAndMetadata ==
  LET f == freePageRange(fsm, hdr)
  IN /\ pc = "metadata" /\ pc' = "header"
     /\ \/ /\ hdr = 0 \/ mem.stored \/ mem.changed
           /\ \E p \in PagesOf :
                /\ Alloc(f, p)
                /\ fsm' = Allocated(f, p)
                /\ mem' = [mem EXCEPT !.changed = @ \/ p \in f.free \/ hdr # 0]
                /\ shadowMap' = (p :> MetaPage(mem.page, fsm'.free \cup fsm'.unchk))
                                  @@ shadowMap
                /\ newHdr' = p
        \/ /\ ~(hdr = 0 \/ mem.stored \/ mem.changed)
           /\ newHdr' = hdr
           /\ UNCHANGED <<fsm, mem, shadowMap>>
     /\ UNCHANGED <<files, writer, buf, hdr, todo, history>>

writeDatabaseHeader ==
  /\ pc = "header" /\ pc' = "flush"
  /\ shadowMap' = (0 :> HeaderPage(newHdr)) @@ shadowMap
  /\ hdr' = newHdr
  /\ UNCHANGED <<files, writer, buf, mem, fsm, newHdr, todo, history>>

\* ShadowFile::flushAll overwrites what an earlier checkpoint left in the file.
\* No claim is made if that is still needed.
flushAll ==
  \/ /\ pc = "flush"
     /\ shadow' = NoFile
     /\ leave(has(wal \o buf, "ckpt"), "flushing")
     /\ UNCHANGED <<data, wal, torn, dataDur, walDur, memory, history>>
  \/ /\ pc = "flushing" /\ pc' = "log"
     /\ shadow' = [complete |-> TRUE, pages |-> shadowMap]
     /\ UNCHANGED <<data, wal, torn, dataDur, walDur, memory, history>>

\* A mutant: the checkpoint is not logged.
logAndFlushCheckpoint_unlogged ==
  /\ pc = "log" /\ pc' = "apply"
  /\ todo' = DOMAIN shadowMap
  /\ UNCHANGED <<files, writer, buf, mem, fsm, hdr, newHdr, shadowMap, history>>

logAndFlushCheckpoint ==
  /\ pc = "log" /\ pc' = "apply"
  /\ Logged(Ckpt)
  /\ todo' = DOMAIN shadowMap
  /\ UNCHANGED <<data, shadow, dataDur, mem, fsm, hdr, newHdr, shadowMap, history>>

\* ShadowFile::applyShadowPages, page by page, and its sync.
applyShadowPages ==
  /\ pc = "apply"
  /\ \/ \E p \in todo :
          /\ data' = [data EXCEPT ![p] = shadow.pages[p]]
          /\ todo' = todo \ {p}
          /\ UNCHANGED <<pc, dataDur>>
     \/ /\ todo = {} /\ dataDur' = data /\ pc' = "clear"
        /\ UNCHANGED <<data, todo>>
  /\ UNCHANGED <<wal, torn, shadow, walDur, writer, buf, mem, fsm, hdr, newHdr,
                 shadowMap, history>>

\* A mutant: the shadow file is cleared before the log.
clear_shadowFirst ==
  \/ /\ pc = "clear" /\ pc' = "clearShadow"
     /\ shadow' = NoFile /\ shadowMap' = <<>>
     /\ UNCHANGED <<data, wal, torn, dataDur, walDur, writer, buf, mem, fsm, hdr,
                    newHdr, todo, history>>
  \/ /\ pc = "clearShadow" /\ pc' = "finalize"
     /\ wal' = <<>> /\ walDur' = <<>> /\ torn' = FALSE /\ buf' = <<>>
     /\ UNCHANGED <<data, shadow, dataDur, writer, mem, fsm, hdr, newHdr,
                    shadowMap, todo, history>>

\* WAL::clear, then ShadowFile::clear.
clear ==
  \/ /\ pc = "clear" /\ pc' = "clearShadow"
     /\ wal' = <<>> /\ walDur' = <<>> /\ torn' = FALSE /\ buf' = <<>>
     /\ UNCHANGED <<data, shadow, dataDur, writer, mem, fsm, hdr, newHdr,
                    shadowMap, todo, history>>
  \/ /\ pc = "clearShadow" /\ pc' = "finalize"
     /\ shadow' = NoFile /\ shadowMap' = <<>>
     /\ UNCHANGED <<data, wal, torn, dataDur, walDur, writer, buf, mem, fsm, hdr,
                    newHdr, todo, history>>

\* FreeSpaceManager::mergePageRanges drops a free range at the end of the file.
mergePageRanges(f) ==
  LET all == f.free \cup f.unchk
      n   == 1 + Max((0 .. f.n - 1) \ all)
  IN [free |-> {p \in all : p < n}, unchk |-> {}, n |-> n]

finalizeCheckpoint ==
  /\ pc = "finalize" /\ pc' = "reset"
  /\ fsm' = mergePageRanges(fsm)
  /\ mem' = [mem EXCEPT !.changed = FALSE]
  /\ UNCHANGED <<files, writer, buf, hdr, newHdr, shadowMap, todo, history>>

\* WAL::reset and ShadowFile::reset: the files are removed.  The commit that
\* asked for the checkpoint returns.
reset ==
  /\ pc = "reset" /\ pc' = "open"
  /\ writer' = FALSE /\ shadow' = NoFile
  /\ acked' = acked \cup mem.txns /\ doubt' = doubt \ mem.txns
  /\ UNCHANGED <<data, wal, torn, dataDur, walDur, buf, mem, fsm, hdr, newHdr,
                 shadowMap, todo, used, faults, crashes>>

Checkpoint ==
  \/ checkpointStorage \/ serializeCatalogAndMetadata \/ writeDatabaseHeader
  \/ flushAll \/ logAndFlushCheckpoint \/ applyShadowPages
  \/ clear \/ finalizeCheckpoint \/ reset

CheckpointPcs == {"storage", "metadata", "header", "flush", "flushing", "log",
                  "apply", "clear", "clearShadow", "finalize", "reset"}

\* A step throws, and Checkpointer::rollback takes back the freed pages.  A table
\* that throws has taken and perhaps written its page.  The metadata throw after
\* the old page was freed, which counts as a change of the page manager.
CheckpointFails ==
  /\ pc \in CheckpointPcs /\ pc' = "open"
  /\ Throws
  /\ todo' = {}
  /\ \/ /\ pc = "storage" /\ mem.dirty
        /\ \E p \in PagesOf :
             /\ Alloc(fsm, p)
             /\ data' = [data EXCEPT ![p] = ColumnPage(mem.txns)]
             /\ fsm' = Allocated(fsm, p)
             /\ mem' = [mem EXCEPT !.changed = @ \/ p \in fsm.free]
        /\ UNCHANGED <<wal, torn, walDur, writer, buf>>
     \/ /\ pc # "storage"
        /\ fsm' = [fsm EXCEPT !.unchk = {}]
        /\ mem' = [mem EXCEPT !.changed = @ \/ (pc = "metadata" /\ hdr # 0 /\ mem.stored)]
        /\ IF pc = "log" THEN LogThrows(Ckpt)
                         ELSE UNCHANGED <<wal, torn, walDur, writer, buf>>
        /\ UNCHANGED data
  /\ UNCHANGED <<shadow, dataDur, hdr, newHdr, shadowMap, used, acked, doubt,
                 crashes>>

\* The process dies while it logs the checkpoint.
LogCheckpointDies ==
  /\ pc = "log" /\ pc' = "down"
  /\ Dies
  /\ LogDies(Ckpt)
  /\ UNCHANGED <<data, shadow, dataDur, used, acked, doubt, faults>>

-----------------------------------------------------------------------------
(* Faults between two steps.                                               *)

\* The database is closed: the writer's destructor flushes its buffer.
Close ==
  /\ pc = "open"
  /\ Dies
  /\ wal' = wal \o buf /\ torn' = (torn /\ buf = <<>>)
  /\ leave(has(wal, "ckpt") /\ buf # <<>>, "down")
  /\ UNCHANGED <<data, shadow, dataDur, walDur, used, acked, doubt, faults>>

\* The process dies.  No claim is made for a recovery that dies after it removed
\* the shadow file and before it removed the log.
Crash ==
  /\ pc # "unclaimed"
  /\ Dies
  /\ leave(pc = "removeWal", "down")
  /\ UNCHANGED <<files, used, acked, doubt, faults>>

\* The pages the last checkpoint consists of.
Referenced(d) == {0, d[0].ref, d[d[0].ref].ref}

\* The power fails.  No claim is made while the log has a checkpoint record and
\* a page is not synced, nor for the pages a recovery wrote and never synced.
PowerLoss ==
  LET unsynced == {p \in PagesOf : data[p] # dataDur[p]}
  IN /\ pc # "unclaimed"
     /\ Dies
     /\ \E lost \in SUBSET unsynced :
          data' = [p \in PagesOf |-> IF p \in lost THEN dataDur[p] ELSE data[p]]
     /\ dataDur' = data'
     /\ \E k \in Len(walDur) .. Len(wal) :
          /\ wal' = SubSeq(wal, 1, k)
          /\ torn' \in IF torn \/ k < Len(wal) THEN BOOLEAN ELSE {FALSE}
     /\ walDur' = wal'
     /\ leave(\/ pc = "removeWal"
              \/ has(wal, "ckpt") /\ unsynced # {}
              \/ unsynced \cap Referenced(data) # {}, "down")
     /\ UNCHANGED <<shadow, used, acked, doubt, faults>>

-----------------------------------------------------------------------------
(* WALReplayer::replay, one step per file operation.                       *)

\* A mutant: the log goes as soon as its checkpoint record is read.
replay_clearing ==
  /\ pc = "down"
  /\ \/ /\ ~has(wal, "ckpt")
        /\ pc' = "read" /\ shadow' = NoFile /\ walDur' = wal
        /\ UNCHANGED <<wal, torn, todo>>
     \/ /\ has(wal, "ckpt") /\ shadow.complete
        /\ pc' = "replayShadow" /\ todo' = DOMAIN shadow.pages
        /\ wal' = <<>> /\ walDur' = <<>> /\ torn' = FALSE
        /\ UNCHANGED shadow
  /\ UNCHANGED <<data, dataDur, writer, buf, mem, fsm, hdr, newHdr, shadowMap,
                 history>>

\* The log is synced and read.  Without a checkpoint record the shadow file is
\* of no use; with one it must be there.
replay ==
  /\ pc = "down"
  /\ walDur' = wal
  /\ \/ /\ ~has(wal, "ckpt")
        /\ pc' = "read" /\ shadow' = NoFile /\ UNCHANGED todo
     \/ /\ has(wal, "ckpt") /\ shadow.complete
        /\ pc' = "replayShadow" /\ todo' = DOMAIN shadow.pages /\ UNCHANGED shadow
  /\ UNCHANGED <<data, wal, torn, dataDur, writer, buf, mem, fsm, hdr, newHdr,
                 shadowMap, history>>

replayShadowPageRecords ==
  /\ pc = "replayShadow"
  /\ \/ \E p \in todo :
          /\ data' = [data EXCEPT ![p] = shadow.pages[p]]
          /\ todo' = todo \ {p} /\ UNCHANGED pc
     \/ /\ todo = {} /\ pc' = "removeShadow"
        /\ UNCHANGED <<data, todo>>
  /\ UNCHANGED <<wal, torn, shadow, dataDur, walDur, writer, buf, mem, fsm, hdr,
                 newHdr, shadowMap, history>>

\* A mutant: the files stay, and the open starts over.
removeWALAndShadowFiles_kept ==
  /\ pc = "removeShadow" /\ pc' = "down"
  /\ UNCHANGED <<files, memory, history>>

removeWALAndShadowFiles ==
  \/ /\ pc = "removeShadow" /\ pc' = "removeWal"
     /\ shadow' = NoFile
     /\ UNCHANGED <<data, wal, torn, dataDur, walDur, memory, history>>
  \/ /\ pc = "removeWal" /\ pc' = "read"
     /\ wal' = <<>> /\ walDur' = <<>> /\ torn' = FALSE
     /\ UNCHANGED <<data, shadow, dataDur, memory, history>>

\* The checkpoint is read, the log replayed and cut behind its last commit.
\* What the database now contains, its clients see.
readAndReplayLog ==
  LET r == readCheckpoint(data)
  IN /\ pc = "read" /\ r.ok /\ pc' = "open"
     /\ mem' = [NoMem EXCEPT !.txns = r.txns \cup Replayed(wal), !.page = r.page,
                             !.dirty = Replayed(wal) # {}]
     /\ fsm' = [free |-> r.free, unchk |-> {}, n |-> FileLen(data)]
     /\ hdr' = data[0].ref
     /\ wal' = IF wal # <<>> /\ wal[1] = Hdr /\ has(wal, "commit") THEN wal ELSE <<>>
     /\ walDur' = wal' /\ torn' = FALSE
     /\ acked' = mem'.txns /\ doubt' = {}
     /\ UNCHANGED <<data, shadow, dataDur, writer, buf, newHdr, shadowMap, todo,
                    used, faults, crashes>>

Recovery ==
  replay \/ replayShadowPageRecords \/ removeWALAndShadowFiles \/ readAndReplayLog

-----------------------------------------------------------------------------

\* The host is idle, or the model has stopped.
Idle ==
  /\ pc \in {"open", "unclaimed"}
  /\ UNCHANGED vars

Next ==
  \/ \E copy \in BOOLEAN : Commit(copy) \/ CommitFails(copy) \/ CommitDies(copy)
  \/ CheckpointBegin \/ Checkpoint \/ CheckpointFails \/ LogCheckpointDies
  \/ Close \/ Crash \/ PowerLoss
  \/ Recovery
  \/ Idle

\* The thread of a checkpoint and of an open runs.
Spec == Init /\ [][Next]_vars /\ WF_vars(Checkpoint \/ Recovery)

-----------------------------------------------------------------------------

TypeOK ==
  /\ data \in [PagesOf -> [kind : {"hole", "header", "meta", "column"},
                           ref : PagesOf, free : SUBSET PagesOf,
                           txns : SUBSET (1 .. MaxTxns)]]
  /\ pc \in CheckpointPcs \cup {"open", "down", "replayShadow", "removeShadow",
                                "removeWal", "read", "unclaimed"}
  /\ writer \in BOOLEAN /\ (buf # <<>> => writer)
  /\ fsm.free \cap fsm.unchk = {}
  /\ IsPrefix(walDur, wal)

\* What an open makes of the files; between the removal of the shadow file and that
\* of the log, what this open does if it is not cut short (see Crash).
Now == Recovered(data, IF pc = "removeWal" THEN <<>> ELSE wal, shadow)

\* Whatever the step at which the process dies, the next open succeeds, finds every
\* acknowledged commit, and nothing but those and the commits in doubt.
CrashSafe ==
  pc # "unclaimed" =>
    Now.ok /\ acked \subseteq Now.txns /\ Now.txns \subseteq acked \cup doubt

\* No transaction in the log is in the checkpoint it would be replayed on.
ReplayedOnce == pc # "unclaimed" => Now.twice = {}

\* A page the allocator would hand out is part of no state a recovery or the
\* running database may need.
FreePagesUnused ==
  pc \in CheckpointPcs \cup {"open"} =>
    LET live == {mem.page, hdr} \cup Referenced(data)
                  \cup (IF has(wal, "ckpt") THEN Referenced(Applied(data, shadow.pages))
                                            ELSE {})
    IN \A p \in live : p \notin fsm.free /\ p < fsm.n

\* A recovery that is cut short, at any step and any number of times, ends in the
\* state that the first attempt to sync the log would have reached.
RecoveryIdempotent ==
  [][pc \notin CheckpointPcs \cup {"open"} /\ pc' # "unclaimed" /\ wal = walDur
       => Now'.txns = Now.txns]_vars

\* Every checkpoint and every open ends.
Returns == pc # "open" ~> pc \in {"open", "unclaimed"}

\* dryReplay asserts that a checkpoint record is the last one of the log.
CheckpointRecordIsLast == \A i \in DOMAIN wal : wal[i] = Ckpt => i = Len(wal)
=============================================================================
