------------------------------- MODULE Engine -------------------------------
(* The storage engine of morceau-core (src/engine.rs): an append-only log of   *)
(* mutations, in-memory indexes derived from it, and the tee of every commit   *)
(* to the controller side.                                                     *)
(*                                                                             *)
(* The log is kept at the granularity of whole frames: an offset is the        *)
(* position of a frame.  What the storage layer promises about frames across   *)
(* crashes and failed appends is the contract RecordLog; LogStore looks below  *)
(* it, at the cells of a frame.                                                *)
(*                                                                             *)
(* The engine is a single-writer value (&mut self), so its operations do not   *)
(* interleave with one another.  They do interleave with failures: an append   *)
(* can fail with or without leaving the frame in the file, a storage read can  *)
(* fail in the middle of an index update, and the process can die anywhere,    *)
(* including inside a commit and between two commits of a cascade.             *)
EXTENDS Schema, Integers, Sequences

CONSTANTS
    Id,           \* ids; the same id may name a node and an edge
    PropertyMap,  \* the property maps inserts carry
    Schemas,      \* the schemas a host may apply
    NoId,         \* no cascade under way
    NoFrame,      \* nothing written beyond the end of the log
    ReadFaults,   \* may a storage read fail inside an index update?
    MaxLog,       \* bound: frames in the log
    MaxSeq,       \* bound: sequence numbers handed out
    MaxRecorded   \* bound: mutations handed to the MutationLog

NodeInsertOp == [type : {"NodeInsert"}, id : Id, label : Label, properties : PropertyMap]
EdgeInsertOp == [type : {"EdgeInsert"}, id : Id, label : Label, from : Id, to : Id,
                 properties : PropertyMap]
NodeDeleteOp == [type : {"NodeDelete"}, id : Id]
EdgeDeleteOp == [type : {"EdgeDelete"}, id : Id]
SchemaApplyOp == [type : {"SchemaApply"}, schema : Schemas]

MutationOp == NodeInsertOp \cup EdgeInsertOp \cup NodeDeleteOp \cup EdgeDeleteOp
                \cup SchemaApplyOp

\* The actor is the same in every mutation of an engine and is left out.
Mutation == [local_seq : Nat \ {0}, foreshadow : BOOLEAN, op : MutationOp]

ASSUME EngineAssumption ==
    /\ PropertyMap \subseteq Properties
    /\ Schemas \subseteq SchemaValue
    /\ NoSchema \notin Schemas
    /\ NoId \notin Id
    /\ NoFrame \notin Mutation
    /\ ReadFaults \in BOOLEAN
    /\ MaxLog \in Nat /\ MaxSeq \in Nat /\ MaxRecorded \in Nat

VARIABLES
    log,             \* the frames of the file, up to Storage::len
    stray,           \* a whole frame a failed append left beyond Storage::len
    status,          \* "closed", "recovering", "open", "cascade" or "replay"
    applied,         \* how many frames the indexes reflect (recover's cursor)
    node_index,      \* node id -> offset of its insert, 0 if absent
    edge_index,      \* edge id -> offset of its insert, 0 if absent
    edge_by_label,   \* label -> edge ids (an absent bucket is empty)
    edges_by_from,   \* source id -> edge ids
    edges_by_to,     \* target id -> edge ids
    next_local_seq,
    current_schema,
    doomed,          \* the node a cascade is deleting, or NoId
    incident,        \* edges that cascade still has to delete
    cursor,          \* frames a replay has walked
    wired,           \* mutation_log is Some
    recorded,        \* every mutation ever passed to MutationLog::record
    undetached       \* history: ids ever deleted by plain delete_node

storageVars == <<log, stray>>
buckets == <<edge_by_label, edges_by_from, edges_by_to>>
indexes == <<node_index, edge_index, edge_by_label, edges_by_from, edges_by_to>>
loopVars == <<doomed, incident, cursor>>
vars == <<log, stray, status, applied, node_index, edge_index, edge_by_label,
          edges_by_from, edges_by_to, next_local_seq, current_schema, doomed,
          incident, cursor, wired, recorded, undetached>>

-----------------------------------------------------------------------------
(* Lookups.                                                                    *)

has_node(id) == node_index[id] # 0
has_edge(id) == edge_index[id] # 0

read_op_at(offset) == log[offset].op

materialize_edges(ids) == {read_op_at(edge_index[e]) : e \in {x \in ids : has_edge(x)}}

iter_edges == materialize_edges(Id)
iter_nodes == {read_op_at(node_index[id]) : id \in {x \in Id : has_node(x)}}
iter_edges_by_label(label) == materialize_edges(edge_by_label[label])
iter_edges_from(id) == materialize_edges(edges_by_from[id])
iter_edges_from_with_label(id, label) ==
    materialize_edges(edges_by_from[id] \cap edge_by_label[label])
\* A mutant: incoming edges are forgotten.
iter_edges_incident_to_outgoing(id) == materialize_edges(edges_by_from[id])
iter_edges_incident_to(id) == materialize_edges(edges_by_from[id] \cup edges_by_to[id])

-----------------------------------------------------------------------------
(* Index maintenance, shared by commit and recover.                            *)

insert_into_index(map, key, id) == [map EXCEPT ![key] = @ \cup {id}]
drop_from_index(map, key, id) == [map EXCEPT ![key] = @ \ {id}]

\* A mutant: edges_by_to is not maintained.
remove_edge_from_indexes_outgoing(id) ==
    LET e == read_op_at(edge_index[id]) IN
    /\ edge_by_label' = drop_from_index(edge_by_label, e.label, id)
    /\ edges_by_from' = drop_from_index(edges_by_from, e.from, id)
    /\ UNCHANGED edges_by_to

\* A deleted edge's label and endpoints are read back from its insert.
remove_edge_from_indexes(id) ==
    LET e == read_op_at(edge_index[id]) IN
    /\ edge_by_label' = drop_from_index(edge_by_label, e.label, id)
    /\ edges_by_from' = drop_from_index(edges_by_from, e.from, id)
    /\ edges_by_to' = drop_from_index(edges_by_to, e.to, id)

update_indexes_for(op, offset) ==
    \/ /\ op.type = "NodeInsert"
       /\ node_index' = [node_index EXCEPT ![op.id] = offset]
       /\ UNCHANGED <<edge_index, edge_by_label, edges_by_from, edges_by_to, current_schema>>
    \/ /\ op.type = "EdgeInsert"
       /\ edge_index' = [edge_index EXCEPT ![op.id] = offset]
       /\ edge_by_label' = insert_into_index(edge_by_label, op.label, op.id)
       /\ edges_by_from' = insert_into_index(edges_by_from, op.from, op.id)
       /\ edges_by_to' = insert_into_index(edges_by_to, op.to, op.id)
       /\ UNCHANGED <<node_index, current_schema>>
    \/ /\ op.type = "NodeDelete"
       /\ node_index' = [node_index EXCEPT ![op.id] = 0]
       /\ UNCHANGED <<edge_index, edge_by_label, edges_by_from, edges_by_to, current_schema>>
    \/ /\ op.type = "EdgeDelete"
       /\ edge_index' = [edge_index EXCEPT ![op.id] = 0]
       /\ IF has_edge(op.id) THEN remove_edge_from_indexes(op.id) ELSE UNCHANGED buckets
       /\ UNCHANGED <<node_index, current_schema>>
    \/ /\ op.type = "SchemaApply"
       /\ current_schema' = op.schema
       /\ UNCHANGED indexes

\* The process no longer holds an engine: all of its memory is gone.
LoseEngine ==
    /\ status' = "closed"
    /\ applied' = 0
    /\ node_index' = [id \in Id |-> 0]
    /\ edge_index' = [id \in Id |-> 0]
    /\ edge_by_label' = [l \in Label |-> {}]
    /\ edges_by_from' = [id \in Id |-> {}]
    /\ edges_by_to' = [id \in Id |-> {}]
    /\ next_local_seq' = 1
    /\ current_schema' = NoSchema
    /\ doomed' = NoId
    /\ incident' = {}
    /\ cursor' = 0
    /\ wired' = FALSE

Init ==
    /\ log = <<>>
    /\ stray = NoFrame
    /\ status = "closed"
    /\ applied = 0
    /\ node_index = [id \in Id |-> 0]
    /\ edge_index = [id \in Id |-> 0]
    /\ edge_by_label = [l \in Label |-> {}]
    /\ edges_by_from = [id \in Id |-> {}]
    /\ edges_by_to = [id \in Id |-> {}]
    /\ next_local_seq = 1
    /\ current_schema = NoSchema
    /\ doomed = NoId
    /\ incident = {}
    /\ cursor = 0
    /\ wired = FALSE
    /\ recorded = <<>>
    /\ undetached = {}

-----------------------------------------------------------------------------
(* commit: take a sequence number, append, publish to the indexes, tee.  Its   *)
(* outcomes are kept apart because the callers react to them.                  *)

\* A mutant: a wired controller counts as a confirmation.
NextMutation_confirmed(op) == [local_seq |-> next_local_seq, foreshadow |-> ~wired, op |-> op]
NextMutation(op) == [local_seq |-> next_local_seq, foreshadow |-> TRUE, op |-> op]

WithinBounds ==
    /\ Len(log) < MaxLog
    /\ next_local_seq <= MaxSeq
    /\ wired => Len(recorded) < MaxRecorded

\* Ok: the frame is durable, the indexes reflect it, the log is teed.
CommitOk(op) ==
    /\ WithinBounds
    /\ next_local_seq' = next_local_seq + 1
    /\ log' = Append(log, NextMutation(op))
    /\ stray' = NoFrame
    /\ applied' = applied + 1
    /\ update_indexes_for(op, Len(log) + 1)
    /\ recorded' = IF wired THEN Append(recorded, NextMutation(op)) ELSE recorded
    /\ UNCHANGED wired

\* A mutant: the tee comes before the append.
AppendFails_teed(op) ==
    /\ WithinBounds
    /\ next_local_seq' = next_local_seq + 1
    /\ stray' \in {stray, NextMutation(op)}
    /\ recorded' = IF wired THEN Append(recorded, NextMutation(op)) ELSE recorded
    /\ UNCHANGED <<log, applied, indexes, current_schema, wired>>

\* Err before anything counts as written: the frame is not part of the log, but
\* write_all may have succeeded before sync_all failed and left it in the file.
\* (A frame left there earlier may be half overwritten instead: open_with need not
\* find it.)
AppendFails(op) ==
    /\ WithinBounds
    /\ next_local_seq' = next_local_seq + 1
    /\ stray' \in {stray, NextMutation(op)}
    /\ UNCHANGED <<log, applied, indexes, current_schema, recorded, wired>>

\* A mutant: the edge is read back before it leaves edge_index.
IndexReadFails_early(op) ==
    /\ ReadFaults
    /\ op.type = "EdgeDelete"
    /\ WithinBounds
    /\ next_local_seq' = next_local_seq + 1
    /\ log' = Append(log, NextMutation(op))
    /\ stray' = NoFrame
    /\ applied' = applied + 1
    /\ UNCHANGED <<indexes, current_schema, recorded, wired>>

\* Err after the append: reading back the deleted edge failed.  The edge is
\* already out of edge_index; the buckets still hold it and nothing is teed.
IndexReadFails(op) ==
    /\ ReadFaults
    /\ op.type = "EdgeDelete"
    /\ WithinBounds
    /\ next_local_seq' = next_local_seq + 1
    /\ log' = Append(log, NextMutation(op))
    /\ stray' = NoFrame
    /\ applied' = applied + 1
    /\ edge_index' = [edge_index EXCEPT ![op.id] = 0]
    /\ UNCHANGED <<node_index, edge_by_label, edges_by_from, edges_by_to,
                   current_schema, recorded, wired>>

CommitErr(op) == AppendFails(op) \/ IndexReadFails(op)

\* The process dies inside commit with the frame written but not acknowledged.
DiesInCommit(op) ==
    /\ WithinBounds
    /\ stray' = NextMutation(op)
    /\ LoseEngine
    /\ UNCHANGED <<log, recorded>>

\* A handler that ends with this commit, whatever its outcome.
commit(op) ==
    \/ (CommitOk(op) \/ CommitErr(op)) /\ UNCHANGED <<status, loopVars>>
    \/ DiesInCommit(op)

-----------------------------------------------------------------------------
(* The operations.  A request whose guard fails returns an error or Ok(false)  *)
(* and changes nothing.                                                        *)

insert_node(id, label, properties) ==
    /\ status = "open"
    /\ ~has_node(id)
    /\ Conforms(current_schema, label, properties)
    /\ commit([type |-> "NodeInsert", id |-> id, label |-> label, properties |-> properties])
    /\ UNCHANGED undetached

\* A mutant: the target is not looked up.
insert_edge_unchecked(id, label, from, to, properties) ==
    /\ status = "open"
    /\ ~has_edge(id)
    /\ has_node(from)
    /\ Conforms(current_schema, label, properties)
    /\ commit([type |-> "EdgeInsert", id |-> id, label |-> label, from |-> from, to |-> to,
               properties |-> properties])
    /\ UNCHANGED undetached

insert_edge(id, label, from, to, properties) ==
    /\ status = "open"
    /\ ~has_edge(id)
    /\ has_node(from)
    /\ has_node(to)
    /\ Conforms(current_schema, label, properties)
    /\ commit([type |-> "EdgeInsert", id |-> id, label |-> label, from |-> from, to |-> to,
               properties |-> properties])
    /\ UNCHANGED undetached

apply_schema(schema) ==
    /\ status = "open"
    /\ commit([type |-> "SchemaApply", schema |-> schema])
    /\ UNCHANGED undetached

\* Incident edges stay.  The history variable remembers the id even if the
\* commit fails: a frame left behind may still be recovered.
delete_node(id) ==
    /\ status = "open"
    /\ has_node(id)
    /\ commit([type |-> "NodeDelete", id |-> id])
    /\ undetached' = undetached \cup {id}

delete_edge(id) ==
    /\ status = "open"
    /\ has_edge(id)
    /\ commit([type |-> "EdgeDelete", id |-> id])
    /\ UNCHANGED undetached

\* delete_node_with_cascade: collect the incident edges, commit one delete per
\* edge (in the arbitrary order of a HashSet), then the delete of the node.  The
\* first commit that fails ends it.
StartCascade(id) ==
    /\ status = "open"
    /\ has_node(id)
    /\ status' = "cascade"
    /\ doomed' = id
    /\ incident' = {e.id : e \in iter_edges_incident_to(id)}
    /\ UNCHANGED <<storageVars, applied, indexes, next_local_seq, current_schema, cursor,
                   wired, recorded, undetached>>

EndCascade == status' = "open" /\ doomed' = NoId /\ incident' = {} /\ UNCHANGED cursor

CascadeEdge(id) ==
    LET op == [type |-> "EdgeDelete", id |-> id] IN
    /\ status = "cascade"
    /\ id \in incident
    /\ \/ CommitOk(op) /\ incident' = incident \ {id} /\ UNCHANGED <<status, doomed, cursor>>
       \/ CommitErr(op) /\ EndCascade
       \/ DiesInCommit(op)
    /\ UNCHANGED undetached

CascadeNode ==
    LET op == [type |-> "NodeDelete", id |-> doomed] IN
    /\ status = "cascade"
    /\ incident = {}
    /\ \/ (CommitOk(op) \/ CommitErr(op)) /\ EndCascade
       \/ DiesInCommit(op)
    /\ UNCHANGED undetached

\* with_mutation_log, with_controller, with_controller_spawned_by.
with_mutation_log ==
    /\ status = "open"
    /\ ~wired
    /\ wired' = TRUE
    /\ UNCHANGED <<storageVars, status, applied, indexes, next_local_seq, current_schema,
                   loopVars, recorded, undetached>>

\* replay_unconfirmed: walk the log from its start, one record() per frame.  A
\* read that fails ends the walk early.
StartReplay ==
    /\ status = "open"
    /\ wired
    /\ Len(recorded) + Len(log) <= MaxRecorded
    /\ status' = "replay"
    /\ cursor' = 0
    /\ UNCHANGED <<storageVars, applied, indexes, next_local_seq, current_schema,
                   doomed, incident, wired, recorded, undetached>>

ReplayFrame ==
    LET m == log[cursor + 1] IN
    /\ status = "replay"
    /\ cursor < Len(log)
    /\ cursor' = cursor + 1
    /\ recorded' = IF m.foreshadow THEN Append(recorded, m) ELSE recorded
    /\ UNCHANGED <<storageVars, status, applied, indexes, next_local_seq, current_schema,
                   doomed, incident, wired, undetached>>

EndReplay ==
    /\ status = "replay"
    /\ cursor = Len(log) \/ ReadFaults
    /\ status' = "open"
    /\ cursor' = 0
    /\ UNCHANGED <<storageVars, applied, indexes, next_local_seq, current_schema,
                   doomed, incident, wired, recorded, undetached>>

-----------------------------------------------------------------------------
(* Losing the process, and opening the store again.                            *)

\* A crash, a drop of the engine, or an open that returns Err.
Crash ==
    /\ status # "closed"
    /\ LoseEngine
    /\ UNCHANGED <<storageVars, recorded, undetached>>

\* A mutant: the last good frame goes with the tail.
open_with_short ==
    /\ status = "closed"
    /\ status' = "recovering"
    /\ log' = IF log = <<>> THEN log ELSE SubSeq(log, 1, Len(log) - 1)
    /\ stray' = NoFrame
    /\ UNCHANGED <<applied, indexes, next_local_seq, current_schema, loopVars, wired,
                   recorded, undetached>>

\* A frame left beyond the end by a failed append is found again, or was lost.
open_with ==
    /\ status = "closed"
    /\ status' = "recovering"
    /\ \/ stray # NoFrame /\ log' = Append(log, stray)
       \/ log' = log
    /\ stray' = NoFrame
    /\ UNCHANGED <<applied, indexes, next_local_seq, current_schema, loopVars, wired,
                   recorded, undetached>>

\* A mutant: recover leaves the sequence numbers at their start.
RecoverFrame_renumbering ==
    /\ status = "recovering"
    /\ applied < Len(log)
    /\ update_indexes_for(log[applied + 1].op, applied + 1)
    /\ applied' = applied + 1
    /\ UNCHANGED <<storageVars, status, next_local_seq, loopVars, wired, recorded, undetached>>

\* A mutant: the last number found is handed out again.
RecoverFrame_reusing ==
    LET m == log[applied + 1] IN
    /\ status = "recovering"
    /\ applied < Len(log)
    /\ update_indexes_for(m.op, applied + 1)
    /\ next_local_seq' = m.local_seq
    /\ applied' = applied + 1
    /\ UNCHANGED <<storageVars, status, loopVars, wired, recorded, undetached>>

\* One turn of recover's loop.
RecoverFrame ==
    LET m == log[applied + 1] IN
    /\ status = "recovering"
    /\ applied < Len(log)
    /\ update_indexes_for(m.op, applied + 1)
    /\ next_local_seq' = IF m.local_seq >= next_local_seq THEN m.local_seq + 1
                                                          ELSE next_local_seq
    /\ applied' = applied + 1
    /\ UNCHANGED <<storageVars, status, loopVars, wired, recorded, undetached>>

RecoverDone ==
    /\ status = "recovering"
    /\ applied = Len(log)
    /\ status' = "open"
    /\ UNCHANGED <<storageVars, applied, indexes, next_local_seq, current_schema,
                   loopVars, wired, recorded, undetached>>

Next ==
    \/ \E id \in Id, label \in Label, p \in PropertyMap : insert_node(id, label, p)
    \/ \E id, from, to \in Id, label \in Label, p \in PropertyMap :
          insert_edge(id, label, from, to, p)
    \/ \E s \in Schemas : apply_schema(s)
    \/ \E id \in Id : \/ delete_node(id)
                      \/ delete_edge(id)
                      \/ StartCascade(id)
                      \/ CascadeEdge(id)
    \/ CascadeNode
    \/ with_mutation_log
    \/ StartReplay
    \/ ReplayFrame
    \/ EndReplay
    \/ Crash
    \/ open_with
    \/ RecoverFrame
    \/ RecoverDone

Spec == Init /\ [][Next]_vars

-----------------------------------------------------------------------------
(* What a log means, read without any index.                                   *)

is_node(op) == op.type \in {"NodeInsert", "NodeDelete"}
is_edge(op) == op.type \in {"EdgeInsert", "EdgeDelete"}

\* Among the first n frames of l, frame i inserts node (edge) id and no later
\* frame targets that node (edge).
NodeLiveAt(l, id, i, n) ==
    /\ i \in 1 .. n
    /\ l[i].op.type = "NodeInsert"
    /\ l[i].op.id = id
    /\ \A j \in i + 1 .. n : ~(is_node(l[j].op) /\ l[j].op.id = id)

EdgeLiveAt(l, id, i, n) ==
    /\ i \in 1 .. n
    /\ l[i].op.type = "EdgeInsert"
    /\ l[i].op.id = id
    /\ \A j \in i + 1 .. n : ~(is_edge(l[j].op) /\ l[j].op.id = id)

NodeLive(l, id, n) == \E i \in 1 .. n : NodeLiveAt(l, id, i, n)
EdgeLive(l, id, n) == \E i \in 1 .. n : EdgeLiveAt(l, id, i, n)

\* s is the schema in force after the first n frames of l.
SchemaInForce(l, s, n) ==
    \/ /\ s = NoSchema
       /\ \A i \in 1 .. n : l[i].op.type # "SchemaApply"
    \/ \E i \in 1 .. n : /\ l[i].op.type = "SchemaApply"
                         /\ l[i].op.schema = s
                         /\ \A j \in i + 1 .. n : l[j].op.type # "SchemaApply"

\* op may follow the first n frames of l.
OpLegal(l, op, n) ==
    /\ op.type = "NodeInsert" => ~NodeLive(l, op.id, n)
    /\ op.type = "EdgeInsert" => /\ ~EdgeLive(l, op.id, n)
                                 /\ NodeLive(l, op.from, n)
                                 /\ NodeLive(l, op.to, n)
    /\ op.type = "NodeDelete" => NodeLive(l, op.id, n)
    /\ op.type = "EdgeDelete" => EdgeLive(l, op.id, n)
    /\ op.type \in {"NodeInsert", "EdgeInsert"} =>
          \A s \in Schemas \cup {NoSchema} :
              SchemaInForce(l, s, n) => Conforms(s, op.label, op.properties)

\* No live edge of l has id as an endpoint, so its node may go.
Detached(l, id) ==
    \A e \in Id : \A i \in 1 .. Len(l) :
        EdgeLiveAt(l, e, i, Len(l)) => l[i].op.from # id /\ l[i].op.to # id

\* The endpoints of the live edges of l are live, those in excused aside.
EndpointsLive(l, excused) ==
    \A e \in Id : \A i \in 1 .. Len(l) : EdgeLiveAt(l, e, i, Len(l)) =>
        \A id \in {l[i].op.from, l[i].op.to} : id \in excused \/ NodeLive(l, id, Len(l))

LiveNodes == {log[i].op : i \in {k \in 1 .. Len(log) : \E id \in Id : NodeLiveAt(log, id, k, Len(log))}}
LiveEdges == {log[i].op : i \in {k \in 1 .. Len(log) : \E id \in Id : EdgeLiveAt(log, id, k, Len(log))}}

-----------------------------------------------------------------------------
(* Properties.                                                                 *)

TypeOK ==
    /\ log \in Seq(Mutation)
    /\ stray \in Mutation \cup {NoFrame}
    /\ status \in {"closed", "recovering", "open", "cascade", "replay"}
    /\ applied \in 0 .. Len(log)
    /\ node_index \in [Id -> Nat]
    /\ edge_index \in [Id -> Nat]
    /\ edge_by_label \in [Label -> SUBSET Id]
    /\ edges_by_from \in [Id -> SUBSET Id]
    /\ edges_by_to \in [Id -> SUBSET Id]
    /\ next_local_seq \in Nat \ {0}
    /\ current_schema \in Schemas \cup {NoSchema}
    /\ doomed \in Id \cup {NoId}
    /\ incident \subseteq Id
    /\ cursor \in 0 .. Len(log)
    /\ wired \in BOOLEAN
    /\ recorded \in Seq(Mutation)
    /\ undetached \subseteq Id

Serving == status \in {"open", "cascade", "replay"}

\* While the engine serves requests, every lookup returns exactly what the log
\* says is live: nodes, edges, edges by label, by source, by source and label,
\* and by either endpoint.  This holds for an index kept up to date by commits and for
\* one rebuilt by recover (update_indexes_for, remove_edge_from_indexes).
ReadsExact ==
    Serving =>
        /\ iter_nodes = LiveNodes
        /\ iter_edges = LiveEdges
        /\ \A l \in Label : iter_edges_by_label(l) = {e \in LiveEdges : e.label = l}
        /\ \A id \in Id :
              /\ iter_edges_from(id) = {e \in LiveEdges : e.from = id}
              /\ iter_edges_incident_to(id) = {e \in LiveEdges : id \in {e.from, e.to}}
              /\ \A l \in Label : iter_edges_from_with_label(id, l)
                                      = {e \in LiveEdges : e.from = id /\ e.label = l}

\* Even when reading back a deleted edge fails half way through an index update
\* (remove_edge_from_indexes), no lookup misses a live node or edge.
NothingHidden ==
    Serving =>
        /\ iter_nodes = LiveNodes
        /\ iter_edges = LiveEdges
        /\ \A e \in LiveEdges :
              /\ e \in iter_edges_by_label(e.label)
              /\ e \in iter_edges_from(e.from)
              /\ e \in iter_edges_from_with_label(e.from, e.label)
              /\ e \in iter_edges_incident_to(e.to)

\* The durable log never holds an operation that was illegal when it was
\* appended: inserts are of absent ids, deletes of present ones, edges join nodes that
\* existed, and inserts conform to the schema then in force.  The guards of
\* insert_node, insert_edge and the deletes read indexes and a schema that may
\* have been rebuilt by recover, and frames of failed commits may be recovered.
LogLegal == \A i \in 1 .. Len(log) : OpLegal(log, log[i].op, i - 1)

\* What a schema demands, without the engine's own checks: an insert appended
\* while a schema was in force, by this engine or one before a recovery, has a label
\* the schema declares, and each property it carries that is declared for that
\* label is null or of the declared type (validate_label, validate_properties).
DeclaredAndTyped ==
    \A i \in 1 .. Len(log), s \in Schemas :
        LET op == log[i].op IN
        (op.type \in {"NodeInsert", "EdgeInsert"} /\ SchemaInForce(log, s, i - 1)) =>
            /\ op.label \in DOMAIN s.tables
            /\ \A name \in DOMAIN op.properties :
                  name \in DOMAIN s.tables[op.label] =>
                      op.properties[name] \in {Null, s.tables[op.label][name]}

\* Sequence numbers strictly increase along the log, through failed commits,
\* crashes and recoveries (the rewind of next_local_seq in recover).
SeqIncreasing ==
    \A i, j \in 1 .. Len(log) : i < j => log[i].local_seq < log[j].local_seq

\* At any moment, a crash included, a live edge has both its endpoints unless
\* an endpoint was deleted without detaching: delete_node_with_cascade commits
\* the edges before the node and stops at the first failure.
NoDanglingEdges == EndpointsLive(log, undetached)

\* Whatever was handed to the controller side is in the durable log, and is
\* there the only mutation with its sequence number (commit appends before it tees).
TeedIsDurable ==
    \A k \in 1 .. Len(recorded) : \E i \in 1 .. Len(log) :
        /\ log[i] = recorded[k]
        /\ \A j \in 1 .. Len(log) : log[j].local_seq = log[i].local_seq => j = i

\* A replay hands the controller side every frame it has walked, in the order of
\* the log and so of local_seq, none left out: nothing in the engine ever clears
\* foreshadow, on a commit or through recovery (replay_unconfirmed).
ReplayComplete ==
    status = "replay" =>
        /\ Len(recorded) >= cursor
        /\ \A i \in 1 .. cursor : recorded[Len(recorded) - cursor + i] = log[i]

\* The mutations commit can append.
Appendable == [local_seq : 1 .. MaxSeq, foreshadow : {TRUE}, op : MutationOp]

Storage == INSTANCE RecordLog WITH Frame <- Appendable

\* Every operation, failure, crash and recovery uses the storage as the record
\* log RecordLog, the contract LogStore implements on bytes: the log only grows,
\* by one commit or by the one frame a failed append left behind.
UsesRecordLog == Storage!Spec

\* A commit is teed under a number above everything teed before it, in this or
\* in an earlier life of the store: what local_seq needs for the controller to tell
\* a new mutation from a replayed one.
TeedUpward ==
    [][log' # log /\ recorded' # recorded =>
          \A k \in 1 .. Len(recorded) :
              recorded[k].local_seq < recorded'[Len(recorded')].local_seq]_vars

-----------------------------------------------------------------------------
(* The inductive invariant behind the properties.                              *)

\* The indexes describe the first `applied' frames: all of them when the engine
\* serves, a prefix while it recovers, none when there is no engine.
StatusInv ==
    /\ Serving => applied = Len(log)
    /\ status = "closed" => applied = 0
    /\ status = "recovering" => stray = NoFrame

NodeIndexInv ==
    \A id \in Id :
        /\ node_index[id] \in 0 .. applied
        /\ \A i \in 1 .. applied : node_index[id] = i <=> NodeLiveAt(log, id, i, applied)

EdgeIndexInv ==
    \A id \in Id :
        /\ edge_index[id] \in 0 .. applied
        /\ \A i \in 1 .. applied : edge_index[id] = i <=> EdgeLiveAt(log, id, i, applied)

\* A live edge is in its buckets; without read faults, nothing else is.
BucketsCover ==
    \A id \in Id : has_edge(id) =>
        /\ id \in edge_by_label[read_op_at(edge_index[id]).label]
        /\ id \in edges_by_from[read_op_at(edge_index[id]).from]
        /\ id \in edges_by_to[read_op_at(edge_index[id]).to]

BucketsExact ==
    ~ReadFaults => \A id \in Id :
        /\ \A l \in Label : id \in edge_by_label[l] =>
              has_edge(id) /\ read_op_at(edge_index[id]).label = l
        /\ \A n \in Id : id \in edges_by_from[n] =>
              has_edge(id) /\ read_op_at(edge_index[id]).from = n
        /\ \A n \in Id : id \in edges_by_to[n] =>
              has_edge(id) /\ read_op_at(edge_index[id]).to = n

SchemaInv == SchemaInForce(log, current_schema, applied)

SeqInv ==
    /\ SeqIncreasing
    /\ \A i \in 1 .. applied : log[i].local_seq < next_local_seq
    /\ stray # NoFrame => \A i \in 1 .. Len(log) : log[i].local_seq < stray.local_seq

RecordedInv == \A k \in 1 .. Len(recorded) : \E i \in 1 .. Len(log) : log[i] = recorded[k]

\* Nothing confirms a mutation, so every frame is still a foreshadow.
ForeshadowInv ==
    /\ \A i \in 1 .. Len(log) : log[i].foreshadow
    /\ stray # NoFrame => stray.foreshadow

CursorInv == ReplayComplete /\ (status # "replay" => cursor = 0)

\* A frame left behind by a failed commit could be appended as it is.
LegalInv == LogLegal /\ (stray # NoFrame => OpLegal(log, stray.op, Len(log)))

CascadeInv ==
    status = "cascade" =>
        /\ doomed \in Id
        /\ NodeLive(log, doomed, Len(log))
        /\ \A e \in incident : EdgeLive(log, e, Len(log))
        /\ \A e \in Id : \A i \in 1 .. Len(log) :
              /\ EdgeLiveAt(log, e, i, Len(log))
              /\ log[i].op.from = doomed \/ log[i].op.to = doomed
              => e \in incident

DanglingInv ==
    /\ EndpointsLive(log, undetached)
    /\ (stray # NoFrame /\ stray.op.type = "NodeDelete") =>
          stray.op.id \in undetached \/ Detached(log, stray.op.id)

IndexInv == NodeIndexInv /\ EdgeIndexInv /\ BucketsCover /\ BucketsExact /\ SchemaInv

IInv == /\ TypeOK
        /\ StatusInv
        /\ IndexInv
        /\ SeqInv
        /\ RecordedInv
        /\ ForeshadowInv
        /\ CursorInv
        /\ LegalInv
        /\ CascadeInv
        /\ DanglingInv
=============================================================================
