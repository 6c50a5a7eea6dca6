---------------------------- MODULE Transactions ----------------------------
(***************************************************************************)
(* The transactions of cpp-reference: the transaction manager, the version *)
(* information and update chains of one node table, its primary key index, *)
(* the undo buffer, and what a checkpoint makes of them in memory.         *)
(*                                                                         *)
(* A connection runs one transaction at a time.  A statement is one step.  *)
(* A commit is several steps, under the mutex that serialises the public   *)
(* functions of the manager, and it may fail between them; the rollback of *)
(* a failed commit takes the mutex a second time.  Scans and lookups are   *)
(* operators that the properties evaluate in every state.                  *)
(*                                                                         *)
(* The table has one node group.  `vectors' are its vectors in row order:  *)
(* an in-memory chunk has exactly one, the chunk on disk has several.      *)
(***************************************************************************)
EXTENDS Integers, Sequences, SequencesExt, FiniteSets, FiniteSetsExt, TLC

CONSTANTS
  Conns,        \* connections
  Keys, Vals,   \* primary keys, values of one other column
  VecCap,       \* DEFAULT_VECTOR_CAPACITY = CHUNKED_NODE_GROUP_CAPACITY
  Settings,     \* the values enable_multi_writes may have
  Faults,       \* which parts of a commit may fail
  MaxTxns,      \* bound: transactions begun
  MaxRows,      \* bound: rows of the table and of the local tables
  MaxRowsMulti, \* the same, with several writers
  MaxStmts,     \* bound: undo records and local rows of a transaction
  NoOne, Checkpointing, Dead   \* values of mtx

ASSUME TransactionsAssumption ==
  /\ VecCap \in Nat \ {0} /\ MaxTxns \in Nat /\ MaxRows \in Nat
  /\ MaxRowsMulti \in 0 .. MaxRows
  /\ MaxStmts \in 0 .. VecCap
  /\ Settings \subseteq BOOLEAN
  /\ Faults \subseteq {"append", "index", "log"}
  /\ {NoOne, Checkpointing, Dead} \cap Conns = {}
  /\ Cardinality({NoOne, Checkpointing, Dead}) = 3

VARIABLES
  multi,       \* enable_multi_writes
  lastTransactionID, lastTimestamp,
  mtx,         \* who holds mtxForSerializingPublicFunctionCalls; Dead: the
               \* process is gone
  txn,         \* the transaction of each connection
  vectors,     \* the node group: chunks, versions and updates
  numRows,     \* NodeGroup::numRows
  total,       \* NodeGroupCollection::numTotalRows
  index,       \* the primary key index: local insertions and disk
  committed,   \* history: what a transaction that begins now must see
  view,        \* history: what each transaction must see
  failed,      \* history: a commit has failed
  tainted      \* history: no claim is made any more (see Taint)

vars == <<multi, lastTransactionID, lastTimestamp, mtx, txn, vectors, numRows,
          total, index, committed, view, failed, tainted>>

START == 2^30              \* Transaction::START_TRANSACTION_ID
INVALID == START + (START - 1) \* INVALID_TRANSACTION
Positions == 0 .. VecCap - 1

-----------------------------------------------------------------------------
(* VectorVersionInfo.  A missing array is <<>>.  A vector without version  *)
(* info, which every transaction sees whole, is AlwaysInserted.            *)

NewVersion == [ins |-> "none", del |-> "none", same |-> INVALID,
               inserted |-> <<>>, deleted |-> <<>>]

AlwaysInserted == [NewVersion EXCEPT !.ins = "always"]

AllInvalid == [p \in Positions |-> INVALID]

Stamped(array, ps, ver) ==
  [p \in Positions |-> IF p \in ps THEN ver ELSE array[p]]

append(v, id, p) ==
  IF id = v.same
    THEN [v EXCEPT !.ins = "check"]
  ELSE IF v.same = INVALID /\ v.inserted = <<>>
    THEN [v EXCEPT !.ins = "check", !.same = id]
  ELSE LET old == IF v.inserted = <<>>
                    THEN Stamped(AllInvalid, 0 .. p - 1, v.same)
                    ELSE v.inserted
       IN [v EXCEPT !.ins = "check", !.same = INVALID,
                    !.inserted = Stamped(old, {p}, id)]

DeleteConflict(v, id, p) ==
  v.deleted # <<>> /\ v.deleted[p] \notin {INVALID, id}

delete_(v, id, p) ==
  [v EXCEPT !.ins = IF @ = "none" THEN "always" ELSE @,
            !.del = "check",
            !.deleted = Stamped(IF @ = <<>> THEN AllInvalid ELSE @, {p}, id)]

setInsertCommitTS(v, ts, ps) ==
  IF v.same # INVALID THEN [v EXCEPT !.same = ts]
                      ELSE [v EXCEPT !.inserted = Stamped(@, ps, ts)]

setDeleteCommitTS(v, ts, ps) == [v EXCEPT !.deleted = Stamped(@, ps, ts)]

\* A mutant: whatever is committed is seen.
Sees_committed(t, ver) == ver = t.id \/ ver < START

Sees(t, ver) == ver = t.id \/ ver <= t.start

isInserted(v, t, p) ==
  \/ v.ins = "always"
  \/ /\ v.ins = "check"
     /\ Sees(t, IF v.same # INVALID THEN v.same ELSE v.inserted[p])

isDeleted(v, t, p) == v.del = "check" /\ Sees(t, v.deleted[p])

\* Clearing positions of an array drops it when nothing is left.
Cleared(array, ps) ==
  LET rest == IF array = <<>> THEN AllInvalid ELSE Stamped(array, ps, INVALID)
  IN IF rest = AllInvalid THEN <<>> ELSE rest

rollbackInsertions(v, ps) ==
  LET rest == IF v.same # INVALID THEN v.inserted ELSE Cleared(v.inserted, ps)
  IN [v EXCEPT !.same = INVALID, !.inserted = rest,
               !.ins = IF rest = <<>> THEN "none" ELSE @,
               !.del = IF rest = <<>> THEN "none" ELSE @]

rollbackDeletions(v, ps) ==
  LET rest == Cleared(v.deleted, ps)
  IN [v EXCEPT !.deleted = rest, !.del = IF rest = <<>> THEN "none" ELSE @]

-----------------------------------------------------------------------------
(* UpdateInfo: the chain of a vector, newest node first.                   *)

\* A mutant: only an uncommitted update conflicts.
UpdateConflict_uncommitted(chain, t, p) ==
  \E i \in DOMAIN chain : /\ chain[i].version # t.id
                          /\ chain[i].version >= START
                          /\ p \in DOMAIN chain[i].rows

UpdateConflict(chain, t, p) ==
  \E i \in DOMAIN chain : /\ chain[i].version # t.id
                          /\ chain[i].version > t.start
                          /\ p \in DOMAIN chain[i].rows

update(chain, t, p, x) ==
  IF \E i \in DOMAIN chain : chain[i].version = t.id
    THEN [i \in DOMAIN chain |->
            IF chain[i].version = t.id
              THEN [chain[i] EXCEPT !.rows = (p :> x) @@ @] ELSE chain[i]]
    ELSE <<[version |-> t.id, rows |-> p :> x]>> \o chain

commitUpdate(chain, id, ts) ==
  [i \in DOMAIN chain |->
     IF chain[i].version = id THEN [chain[i] EXCEPT !.version = ts] ELSE chain[i]]

rollbackUpdate(chain, id) == SelectSeq(chain, LAMBDA u : u.version # id)

\* The newest value that t sees, or the one in the column chunk.
lookupValue(v, t, p) ==
  LET hits == {i \in DOMAIN v.upd :
                 Sees(t, v.upd[i].version) /\ p \in DOMAIN v.upd[i].rows}
  IN IF hits = {} THEN v.cols[p + 1].val ELSE v.upd[Min(hits)].rows[p]

-----------------------------------------------------------------------------
(* NodeGroup: rows and chunks.                                             *)

RowsOf(v) == v.start .. v.start + v.n - 1

AllRows(vs) == UNION {RowsOf(vs[i]) : i \in DOMAIN vs}

VectorOf(vs, r) == CHOOSE i \in DOMAIN vs : r \in RowsOf(vs[i])

isVisible(t, r) ==
  \E i \in DOMAIN vectors :
    /\ r \in RowsOf(vectors[i])
    /\ isInserted(vectors[i].ver, t, r - vectors[i].start)
    /\ ~isDeleted(vectors[i].ver, t, r - vectors[i].start)

scan(t) ==
  [r \in {q \in AllRows(vectors) : isVisible(t, q)} |->
     LET v == vectors[VectorOf(vectors, r)]
     IN [key |-> v.cols[r - v.start + 1].key,
         val |-> lookupValue(v, t, r - v.start)]]

EmptyChunk(start) ==
  [start |-> start, n |-> 0, disk |-> FALSE, cols |-> <<>>,
   ver |-> NewVersion, upd |-> <<>>]

\* One row to the last chunk, or to a new one if that is full or on disk.
\* The first chunk of a group starts at row 0.
AppendRow(a, row, id) ==
  LET vs == IF a.vs = <<>> THEN <<EmptyChunk(0)>>
            ELSE IF Last(a.vs).disk \/ Last(a.vs).n = VecCap
              THEN Append(a.vs, EmptyChunk(a.next))
            ELSE a.vs
      v  == Last(vs)
  IN [vs   |-> ReplaceAt(vs, Len(vs),
                 [v EXCEPT !.n = @ + 1, !.cols = Append(@, row),
                           !.ver = append(@, id, v.n)]),
      next |-> a.next + 1,
      at   |-> Append(a.at, v.start + v.n)]

AppendRows(rows, id) ==
  FoldLeft(LAMBDA a, row : AppendRow(a, row, id),
           [vs |-> vectors, next |-> numRows, at |-> <<>>], rows)

\* The positions of the rows in a vector, the vectors that hold one of them, and
\* the vectors with new version info for some.
PositionsIn(v, rows) == {r - v.start : r \in RowsOf(v) \cap rows}

Touched(vs, rows) == {i \in DOMAIN vs : PositionsIn(vs[i], rows) # {}}

Versioned(vs, vers) ==
  [i \in DOMAIN vs |-> IF i \in DOMAIN vers THEN [vs[i] EXCEPT !.ver = vers[i]] ELSE vs[i]]

commitInsert(vs, rows, ts) ==
  Versioned(vs, [i \in Touched(vs, rows) |->
                   setInsertCommitTS(vs[i].ver, ts, PositionsIn(vs[i], rows))])

commitDelete(vs, rows, ts) ==
  Versioned(vs, [i \in Touched(vs, rows) |->
                   setDeleteCommitTS(vs[i].ver, ts, PositionsIn(vs[i], rows))])

rollbackDelete(vs, rows) ==
  Versioned(vs, [i \in Touched(vs, rows) |->
                   rollbackDeletions(vs[i].ver, PositionsIn(vs[i], rows))])

\* The rows the transaction had deleted again before they were appended.
deleteRows(vs, rows, id) ==
  Versioned(vs, [i \in Touched(vs, rows) |->
                   FoldSet(LAMBDA p, v : delete_(v, id, p), vs[i].ver,
                           PositionsIn(vs[i], rows))])

\* ChunkedNodeGroup::rollbackInsert, then NodeGroup::rollbackInsert.  Only a
\* chunk that becomes empty has its column chunks truncated.
CutRows(vs, rows) ==
  LET from    == Min(rows)
      Cut(v)  == LET ps == PositionsIn(v, rows)
                 IN IF ps = {} THEN v
                    ELSE IF v.start >= from THEN EmptyChunk(v.start)
                    ELSE [v EXCEPT !.ver = rollbackInsertions(@, ps),
                                   !.n = from - v.start]
      cut     == [i \in DOMAIN vs |-> Cut(vs[i])]
      nonempty == {i \in DOMAIN cut : cut[i].n # 0}
  IN IF nonempty = {} THEN <<>> ELSE SubSeq(cut, 1, Max(nonempty))

-----------------------------------------------------------------------------
(* PrimaryKeyIndex: the entries of the slot all keys share, in order.      *)

Hits(entries, k) == {i \in DOMAIN entries : entries[i].key = k}

VisibleHits(entries, t, k) ==
  {i \in Hits(entries, k) : isVisible(t, entries[i].off)}

\* lookupInternal: local insertions, then the index on disk.
lookup(t, k) ==
  LET loc == VisibleHits(index.ins, t, k)
      dsk == VisibleHits(index.disk, t, k)
  IN IF loc # {} THEN {index.ins[Min(loc)].off}
     ELSE IF dsk # {} THEN {index.disk[Min(dsk)].off}
     ELSE {}

\* InMemHashIndex::deleteKey: the first entry with the key goes, the last
\* entry of the slot takes its place.
deleteKey(entries, k) ==
  LET i == Min(Hits(entries, k))
  IN IF Hits(entries, k) = {} THEN entries
     ELSE Front(ReplaceAt(entries, i, Last(entries)))

-----------------------------------------------------------------------------
(* The transaction manager.                                                *)

NoTxn == [st |-> "none", write |-> FALSE, id |-> 0, start |-> 0, ts |-> 0,
          undo |-> <<>>, done |-> 0, local |-> <<>>, new |-> <<>>]

Active(c) == txn[c].st = "active"

\* A mutant: the check for another writer is left out.
hasActiveWriteTransactionNoLock_never == FALSE

hasActiveWriteTransactionNoLock ==
  \E c \in Conns : txn[c].st # "none" /\ txn[c].write

hasNoActiveTransactions == \A c \in Conns : txn[c].st = "none"

Init ==
  /\ multi \in Settings
  /\ lastTransactionID = START /\ lastTimestamp = 1
  /\ mtx = NoOne
  /\ txn = [c \in Conns |-> NoTxn]
  /\ vectors = <<>> /\ numRows = 0 /\ total = 0
  /\ index = [ins |-> <<>>, disk |-> <<>>]
  /\ committed = <<>>
  /\ view = [c \in Conns |-> <<>>]
  /\ failed = FALSE /\ tainted = FALSE

table == <<vectors, numRows, total, index>>
clock == <<multi, lastTransactionID, lastTimestamp>>
ghosts == <<committed, failed, tainted>>

beginTransaction(c, write) ==
  /\ mtx = NoOne /\ txn[c].st = "none"
  /\ lastTransactionID < START + MaxTxns
  /\ write => multi \/ ~hasActiveWriteTransactionNoLock
  /\ lastTransactionID' = lastTransactionID + 1
  /\ txn' = [txn EXCEPT ![c] =
       [NoTxn EXCEPT !.st = "active", !.write = write,
                     !.id = lastTransactionID + 1, !.start = lastTimestamp]]
  /\ view' = [view EXCEPT ![c] = committed]
  /\ UNCHANGED <<multi, lastTimestamp, mtx, table, ghosts>>

Goto(c, st) == txn' = [txn EXCEPT ![c].st = st]

\* clearTransactionNoLock.
clearTransaction(c) ==
  /\ txn' = [txn EXCEPT ![c] = NoTxn]
  /\ view' = [view EXCEPT ![c] = <<>>]

Writable(c) ==
  /\ Active(c) /\ txn[c].write
  /\ Len(txn[c].undo) + Len(txn[c].local) < MaxStmts

LocalHas(t, k) == \E i \in DOMAIN t.local : t.local[i].key = k /\ ~t.local[i].gone

\* NodeTable::insert: into the local table, unless the key exists in either.
\* An error of a statement rolls the transaction back.
insert(c, k, x) ==
  /\ Writable(c)
  /\ total + Len(txn[c].local) < IF multi THEN MaxRowsMulti ELSE MaxRows
  /\ IF lookup(txn[c], k) # {} \/ LocalHas(txn[c], k)
       THEN Goto(c, "failed")
       ELSE txn' = [txn EXCEPT ![c].local =
                      Append(@, [key |-> k, val |-> x, gone |-> FALSE])]
  /\ UNCHANGED <<clock, mtx, table, view, ghosts>>

updateLocal(c, i, x) ==
  /\ Writable(c)
  /\ i \in DOMAIN txn[c].local /\ ~txn[c].local[i].gone
  /\ txn' = [txn EXCEPT ![c].local[i].val = x]
  /\ UNCHANGED <<clock, mtx, table, view, ghosts>>

deleteLocal(c, i) ==
  /\ Active(c) /\ txn[c].write
  /\ i \in DOMAIN txn[c].local /\ ~txn[c].local[i].gone
  /\ txn' = [txn EXCEPT ![c].local[i].gone = TRUE]
  /\ UNCHANGED <<clock, mtx, table, view, ghosts>>

\* NodeTable::update of a row of the table, in place.
updateRow(c, r, x) ==
  LET t == txn[c]
      i == VectorOf(vectors, r)
      p == r - vectors[i].start
  IN /\ Writable(c) /\ r \in AllRows(vectors) /\ isVisible(t, r)
     /\ IF UpdateConflict(vectors[i].upd, t, p)
          THEN Goto(c, "failed") /\ UNCHANGED <<vectors, view>>
          ELSE /\ vectors' = [vectors EXCEPT ![i].upd = update(@, t, p, x)]
               /\ txn' = [txn EXCEPT ![c].undo =
                            Append(@, [op |-> "update", vec |-> i, rows |-> {r}])]
               /\ view' = [view EXCEPT ![c] =
                             [q \in DOMAIN @ |->
                                IF q = r THEN [@[q] EXCEPT !.val = x] ELSE @[q]]]
     /\ UNCHANGED <<clock, mtx, numRows, total, index, ghosts>>

deleteRow(c, r) ==
  LET t == txn[c]
      i == VectorOf(vectors, r)
      p == r - vectors[i].start
  IN /\ Writable(c) /\ r \in AllRows(vectors) /\ isVisible(t, r)
     /\ IF DeleteConflict(vectors[i].ver, t.id, p)
          THEN Goto(c, "failed") /\ UNCHANGED <<vectors, view>>
          ELSE /\ vectors' = [vectors EXCEPT ![i].ver = delete_(@, t.id, p)]
               /\ txn' = [txn EXCEPT ![c].undo =
                            Append(@, [op |-> "delete", rows |-> {r}])]
               /\ view' = [view EXCEPT ![c] =
                             [q \in DOMAIN @ \ {r} |-> @[q]]]
     /\ UNCHANGED <<clock, mtx, numRows, total, index, ghosts>>

-----------------------------------------------------------------------------
(* TransactionManager::commit and Transaction::commit.                     *)

\* A failed commit leaves marks that a later insertion runs into.  No claim is
\* made from the first such insertion on, after a commit that failed with its
\* writes stamped but not logged, and after one that failed beside another writer.
Taint(cond) == tainted' = (tainted \/ cond)

Commit(c) ==
  /\ mtx = NoOne /\ Active(c) /\ ~txn[c].write
  /\ clearTransaction(c)
  /\ UNCHANGED <<clock, mtx, table, ghosts>>

\* A write transaction takes the mutex and its commit timestamp.
StartsCommit(c) ==
  /\ mtx = NoOne /\ Active(c) /\ txn[c].write
  /\ lastTimestamp' = lastTimestamp + 1
  /\ UNCHANGED <<multi, lastTransactionID>>

LocalRow(l) == [key |-> l.key, val |-> l.val]

LocalAppended(t) ==
  AppendRows([i \in DOMAIN t.local |-> LocalRow(t.local[i])], t.id)

Gone(t) == {i \in DOMAIN t.local : t.local[i].gone}

InsertRecord(n) == [op |-> "insert", rows |-> numRows .. numRows + n - 1]

\* NodeTable::commit 1 and 2: append the local rows, deleted or not, then mark
\* the deleted ones.  The undo record comes first.
CommitLocal(c) ==
  LET t   == txn[c]
      n   == Len(t.local)
      a   == LocalAppended(t)
      del == {total + i - 1 : i \in Gone(t)}
  IN /\ StartsCommit(c)
     /\ del \subseteq AllRows(a.vs)
     /\ mtx' = c
     /\ vectors' = deleteRows(a.vs, del, t.id)
     /\ numRows' = numRows + n
     /\ total' = total + n
     /\ txn' = [txn EXCEPT
          ![c].st = IF n = 0 THEN "stamp" ELSE "index",
          ![c].ts = lastTimestamp + 1,
          ![c].undo = @ \o (IF n = 0 THEN <<>> ELSE <<InsertRecord(n)>>)
                        \o SetToSeq({[op |-> "delete", rows |-> {r}] : r \in del}),
          ![c].new = [r \in {a.at[i] : i \in DOMAIN t.local \ Gone(t)} |->
                        LocalRow(t.local[CHOOSE i \in 1 .. n : a.at[i] = r])]]
     /\ Taint(failed /\ n > 0)
     /\ UNCHANGED <<index, view, committed, failed>>

\* The append throws, with the chunks before the one that threw appended.  The
\* collection has counted the rows already, the node group never does.
AppendFails(c) ==
  LET t == txn[c]
      n == Len(t.local)
  IN /\ "append" \in Faults /\ n > 0
     /\ StartsCommit(c)
     /\ \E m \in 0 .. n - 1 :
          LET a == AppendRows([i \in 1 .. m |-> LocalRow(t.local[i])], t.id)
          IN /\ m > 0 => Last(a.vs).n = VecCap
             /\ vectors' = a.vs
     /\ total' = total + n
     /\ txn' = [txn EXCEPT ![c].st = "failed",
                           ![c].undo = Append(@, InsertRecord(n))]
     /\ failed' = TRUE
     /\ Taint(failed \/ multi)
     /\ UNCHANGED <<mtx, numRows, index, view, committed>>

\* A mutant: rows deleted before the commit take no offset.
NewEntries_packed(t) ==
  LET first == total - Len(t.local)
      kept  == SetToSortSeq(DOMAIN t.local \ Gone(t), <)
  IN [i \in DOMAIN kept |-> [key |-> t.local[kept[i]].key, off |-> first + i - 1]]

\* The rows whose keys NodeTable::commit 3 puts into the index, with the
\* offsets it computes from the count it had at the start.
NewEntries(t) ==
  LET first == total - Len(t.local)
      kept  == SetToSortSeq(DOMAIN t.local \ Gone(t), <)
  IN [i \in DOMAIN kept |-> [key |-> t.local[kept[i]].key,
                             off |-> first + kept[i] - 1]]

InsertKeys(c) ==
  LET t   == txn[c]
      new == NewEntries(t)
  IN /\ t.st = "index"
     /\ \A i \in DOMAIN new : lookup(t, new[i].key) = {}
     /\ index' = [index EXCEPT !.ins = @ \o new]
     /\ txn' = [txn EXCEPT ![c].st = "stamp", ![c].local = <<>>]
     /\ UNCHANGED <<clock, mtx, vectors, numRows, total, view, ghosts>>

InsertKeysFails(c) ==
  LET t   == txn[c]
      new == NewEntries(t)
  IN /\ t.st = "index"
     /\ \E m \in 1 .. Len(new) :
          /\ "index" \in Faults \/ lookup(t, new[m].key) # {}
          /\ index' = [index EXCEPT !.ins = @ \o SubSeq(new, 1, m - 1)]
     /\ Goto(c, "failed") /\ mtx' = NoOne
     /\ failed' = TRUE
     /\ Taint(failed \/ multi)
     /\ UNCHANGED <<clock, vectors, numRows, total, view, committed>>

\* UndoBuffer::commit stamps the records one after the other, while other
\* connections execute statements.
Stamp(c) ==
  LET t == txn[c]
      u == t.undo[t.done + 1]
  IN /\ t.st = "stamp" /\ t.done < Len(t.undo)
     /\ CASE u.op = "insert" ->
               vectors' = commitInsert(vectors, u.rows, t.ts)
          [] u.op = "delete" ->
               vectors' = commitDelete(vectors, u.rows, t.ts)
          [] u.op = "update" ->
               vectors' = [vectors EXCEPT ![u.vec].upd = commitUpdate(@, t.id, t.ts)]
     /\ txn' = [txn EXCEPT ![c].done = @ + 1]
     /\ UNCHANGED <<clock, mtx, numRows, total, index, view, ghosts>>

RowsWith(t, op) ==
  UNION {u.rows : u \in {t.undo[i] : i \in {j \in DOMAIN t.undo : t.undo[j].op = op}}}

\* What a transaction that begins after the commit of c must see.
AfterCommit(c) ==
  LET t    == txn[c]
      new  == [r \in DOMAIN t.new |->
                 [key |-> t.new[r].key, val |-> t.new[r].val, at |-> t.ts]]
      kept == [r \in DOMAIN committed \ RowsWith(t, "delete") |->
                 IF r \in RowsWith(t, "update")
                   THEN [view[c][r] EXCEPT !.at = t.ts] ELSE committed[r]]
  IN new @@ kept

LogCommit(c) ==
  LET t == txn[c]
  IN /\ t.st = "stamp" /\ t.done = Len(t.undo)
     /\ committed' = AfterCommit(c)
     /\ clearTransaction(c)
     /\ mtx' \in {NoOne, Checkpointing}
     /\ UNCHANGED <<clock, table, failed, tainted>>

LogFails(c) ==
  /\ "log" \in Faults
  /\ txn[c].st = "stamp" /\ txn[c].done = Len(txn[c].undo)
  /\ Goto(c, "failed") /\ mtx' = NoOne
  /\ failed' = TRUE
  /\ Taint(TRUE)
  /\ UNCHANGED <<clock, table, view, committed>>

-----------------------------------------------------------------------------
(* TransactionManager::rollback.                                           *)

Rollback(c) ==
  /\ mtx = NoOne /\ txn[c].st \in {"active", "failed"}
  /\ IF txn[c].undo = <<>>
       THEN clearTransaction(c) /\ UNCHANGED mtx
       ELSE Goto(c, "undo") /\ mtx' = c /\ UNCHANGED view
  /\ UNCHANGED <<clock, table, ghosts>>

\* NodeTable::rollbackPKIndexInsert: discard the key of every row of the range
\* that the transaction itself still sees.
DiscardKeys(t, rows) ==
  FoldLeft(LAMBDA entries, r : deleteKey(entries, scan(t)[r].key),
           index.ins, SetToSortSeq(rows \cap DOMAIN scan(t), <))

\* std::min of two uint64_t, the second one a difference that may wrap.
CountedRows(n, start) ==
  IF numRows < start \/ n <= numRows - start THEN n ELSE numRows - start

UndoInsert(t, u) ==
  /\ index' = [index EXCEPT !.ins = DiscardKeys(t, u.rows)]
  /\ vectors' = CutRows(vectors, u.rows)
  /\ total' = total - CountedRows(Cardinality(u.rows), Min(u.rows))
  /\ numRows' = Min(u.rows)
  /\ Taint(ToSet(index'.ins) # {e \in ToSet(index.ins) : e.off \notin u.rows})

Undo(c) ==
  LET t == txn[c]
      u == Last(t.undo)
  IN /\ t.st = "undo" /\ t.undo # <<>>
     /\ IF Len(t.undo) = 1
          THEN clearTransaction(c) /\ mtx' = NoOne
          ELSE txn' = [txn EXCEPT ![c].undo = Front(@)] /\ UNCHANGED <<mtx, view>>
     /\ \/ u.op = "insert" /\ UndoInsert(t, u)
        \/ /\ u.op = "delete"
           /\ vectors' = rollbackDelete(vectors, u.rows)
           /\ UNCHANGED <<numRows, total, index, tainted>>
        \/ /\ u.op = "update"
           /\ vectors' = [vectors EXCEPT ![u.vec].upd = rollbackUpdate(@, t.id)]
           /\ UNCHANGED <<numRows, total, index, tainted>>
     /\ UNCHANGED <<clock, committed, failed>>

-----------------------------------------------------------------------------
(* TransactionManager::checkpoint, in memory.                              *)

CheckpointTxn == [id |-> 0, start |-> START - 1]     \* DUMMY_CHECKPOINT_TRANSACTION

\* The rows of all chunks in order, with the values a checkpoint writes.
CheckpointRows ==
  FoldLeft(LAMBDA rows, v : rows \o
             [p \in 1 .. v.n |->
                [key |-> v.cols[p].key, val |-> lookupValue(v, CheckpointTxn, p - 1),
                 gone |-> isDeleted(v.ver, CheckpointTxn, p - 1)]],
           <<>>, vectors)

checkpointVersionInfo(rows) ==
  FoldSet(LAMBDA p, v : delete_(v, CheckpointTxn.id, p), AlwaysInserted,
          {p \in 0 .. Len(rows) - 1 : rows[p + 1].gone})

\* One chunk on disk, cut into vectors.
OnDisk(rows, start) ==
  [i \in 1 .. (Len(rows) + VecCap - 1) \div VecCap |->
     LET part == SubSeq(rows, (i - 1) * VecCap + 1, Min({i * VecCap, Len(rows)}))
     IN [start |-> start + (i - 1) * VecCap, n |-> Len(part), disk |-> TRUE,
         cols |-> [p \in DOMAIN part |-> [key |-> part[p].key, val |-> part[p].val]],
         ver |-> checkpointVersionInfo(part), upd |-> <<>>]]

checkpointNodeGroup ==
  LET rows  == CheckpointRows
      start == vectors[1].start
      gone  == Cardinality({i \in DOMAIN rows : rows[i].gone})
  IN IF gone = numRows - start
       THEN <<[EmptyChunk(numRows) EXCEPT !.disk = TRUE, !.ver = AlwaysInserted]>>
       ELSE OnDisk(rows, start)

CheckpointBegin ==
  /\ mtx = NoOne /\ mtx' = Checkpointing
  /\ UNCHANGED <<clock, txn, table, view, ghosts>>

CheckpointWrite ==
  /\ mtx = Checkpointing /\ hasNoActiveTransactions
  /\ vectors = <<>> => numRows = 0
  /\ mtx' = NoOne
  /\ vectors' = IF vectors = <<>> THEN <<>> ELSE checkpointNodeGroup
  /\ index' = [ins |-> <<>>, disk |-> index.disk \o index.ins]
  /\ UNCHANGED <<clock, txn, numRows, total, view, ghosts>>

CheckpointTimeout ==
  /\ mtx = Checkpointing /\ ~hasNoActiveTransactions
  /\ mtx' = NoOne
  /\ UNCHANGED <<clock, txn, table, view, ghosts>>

\* A null pointer is followed: a deleted local row has no chunk to be marked
\* in, or a node group without chunks is checkpointed.
NoChunkFor(c) ==
  /\ mtx = NoOne /\ Active(c)
  /\ \E i \in Gone(txn[c]) : total + i - 1 \notin AllRows(LocalAppended(txn[c]).vs)

Die ==
  /\ \/ \E c \in Conns : NoChunkFor(c)
     \/ mtx = Checkpointing /\ hasNoActiveTransactions /\ vectors = <<>> /\ numRows > 0
  /\ mtx' = Dead
  /\ txn' = [c \in Conns |-> NoTxn]
  /\ view' = [c \in Conns |-> <<>>]
  /\ UNCHANGED <<clock, table, ghosts>>

-----------------------------------------------------------------------------

Statement(c) ==
  \/ \E w \in BOOLEAN : beginTransaction(c, w)
  \/ \E k \in Keys, x \in Vals : insert(c, k, x)
  \/ \E i \in 1 .. MaxStmts, x \in Vals : updateLocal(c, i, x)
  \/ \E i \in 1 .. MaxStmts : deleteLocal(c, i)
  \/ \E r \in 0 .. MaxRows, x \in Vals : updateRow(c, r, x)
  \/ \E r \in 0 .. MaxRows : deleteRow(c, r)

Terminated ==
  /\ hasNoActiveTransactions
  /\ mtx = Dead \/ lastTransactionID = START + MaxTxns
  /\ UNCHANGED vars

Next ==
  \/ \E c \in Conns :
       \/ Statement(c)
       \/ Commit(c) \/ CommitLocal(c) \/ AppendFails(c)
       \/ InsertKeys(c) \/ InsertKeysFails(c)
       \/ Stamp(c) \/ LogCommit(c) \/ LogFails(c)
       \/ Rollback(c) \/ Undo(c)
  \/ CheckpointBegin \/ CheckpointWrite \/ CheckpointTimeout
  \/ Die
  \/ Terminated

Spec == Init /\ [][Next]_vars

Symmetry == Permutations(Conns) \cup Permutations(Keys) \cup Permutations(Vals)

-----------------------------------------------------------------------------

Rows == [key : Keys, val : Vals]

\* Every variable has its type; the mutex is held exactly by the connection
\* that is inside a public function.
TypeOK ==
  /\ multi \in Settings /\ failed \in BOOLEAN /\ tainted \in BOOLEAN
  /\ lastTransactionID \in START .. START + MaxTxns
  /\ lastTimestamp \in 1 .. 1 + MaxTxns
  /\ mtx \in Conns \cup {NoOne, Checkpointing, Dead}
  /\ \A c \in Conns :
       /\ txn[c].st \in {"none", "active", "index", "stamp", "failed", "undo"}
       /\ txn[c].st \in {"index", "stamp", "undo"} <=> mtx = c
       /\ \A i \in DOMAIN txn[c].local : LocalRow(txn[c].local[i]) \in Rows
  /\ numRows \in Nat /\ total \in Nat
  /\ \A i \in DOMAIN vectors : vectors[i].n <= Len(vectors[i].cols)

Untainted == ~tainted

Claimed(c) == ~tainted /\ Active(c)

\* Snapshot isolation: whatever other connections have begun, committed, failed
\* to commit, rolled back or checkpointed since it began, a transaction scans
\* the rows that were committed at its start, with its own changes
\* (isInserted, isDeleted, iterateScan, under the steps of commit and rollback).
SnapshotReads ==
  \A c \in Conns : Claimed(c) =>
    scan(txn[c]) = [r \in DOMAIN view[c] |->
                      [key |-> view[c][r].key, val |-> view[c][r].val]]

\* A lookup by primary key finds a row of the snapshot that has the key,
\* whenever there is one (commitInsert, discardLocal, checkpoint of the index).
KeyIndexExact ==
  \A c \in Conns, k \in Keys : Claimed(c) =>
    LET rows == {r \in DOMAIN view[c] : view[c][r].key = k}
    IN /\ lookup(txn[c], k) \subseteq rows
       /\ rows # {} => lookup(txn[c], k) # {}

\* No two committed rows have the same primary key, if there is one writer at a
\* time (validateUniqueness, validatePkNotExists, hasActiveWriteTransaction).
UniqueKeys ==
  ~multi /\ ~tainted =>
    \A r, q \in DOMAIN committed : committed[r].key = committed[q].key => r = q

\* No lost update: while a transaction that has updated a row is active, no
\* other transaction commits a change of the row (UpdateInfo::update).
NoLostUpdate ==
  \A c \in Conns : Claimed(c) =>
    \A i \in DOMAIN txn[c].undo :
      LET u == txn[c].undo[i]
      IN u.op = "update" =>
           \A r \in u.rows \cap DOMAIN committed : committed[r].at <= txn[c].start
=============================================================================
