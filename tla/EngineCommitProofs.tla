------------------------- MODULE EngineCommitProofs -------------------------
(* What each outcome of a commit, and each handler that commits, does to the   *)
(* invariant of Engine.                                                        *)
EXTENDS EngineLogProofs

-----------------------------------------------------------------------------
(* The outcomes of a commit.                                                   *)

\* The part of the invariant that a commit decides by itself, whichever handler
\* it ends.
CoreType ==
    /\ log \in Seq(Mutation)
    /\ stray \in Mutation \cup {NoFrame}
    /\ applied \in 0 .. Len(log)
    /\ node_index \in [Id -> Nat]
    /\ edge_index \in [Id -> Nat]
    /\ edge_by_label \in [Label -> SUBSET Id]
    /\ edges_by_from \in [Id -> SUBSET Id]
    /\ edges_by_to \in [Id -> SUBSET Id]
    /\ next_local_seq \in Nat \ {0}
    /\ current_schema \in Schemas \cup {NoSchema}
    /\ wired \in BOOLEAN
    /\ recorded \in Seq(Mutation)

CoreInv == CoreType /\ IndexInv /\ SeqInv /\ RecordedInv /\ ForeshadowInv /\ LegalInv

\* It is a part of the whole.
LEMMA CoreFromIInv == IInv => CoreInv
BY DEF IInv, CoreInv, CoreType, TypeOK

\* update_indexes_for keeps the indexes well typed.
LEMMA UpdateTypes ==
    ASSUME TypeOK, NEW op \in MutationOp, NEW offset \in Nat, update_indexes_for(op, offset)
    PROVE  /\ node_index' \in [Id -> Nat]
           /\ edge_index' \in [Id -> Nat]
           /\ edge_by_label' \in [Label -> SUBSET Id]
           /\ edges_by_from' \in [Id -> SUBSET Id]
           /\ edges_by_to' \in [Id -> SUBSET Id]
           /\ current_schema' \in Schemas \cup {NoSchema}
<1>1. /\ node_index \in [Id -> Nat]
      /\ edge_index \in [Id -> Nat]
      /\ edge_by_label \in [Label -> SUBSET Id]
      /\ edges_by_from \in [Id -> SUBSET Id]
      /\ edges_by_to \in [Id -> SUBSET Id]
      /\ current_schema \in Schemas \cup {NoSchema}
  BY DEF TypeOK
<1>2. CASE op.type \in {"NodeInsert", "NodeDelete"}
  BY <1>1, <1>2 DEF update_indexes_for
<1>3. CASE op.type = "EdgeInsert"
  <2>1. op.id \in Id /\ op.label \in Label /\ op.from \in Id /\ op.to \in Id
    BY <1>3 DEF MutationOp, NodeInsertOp, EdgeInsertOp, NodeDeleteOp, EdgeDeleteOp, SchemaApplyOp
  <2> QED BY <1>1, <1>3, <2>1 DEF update_indexes_for, insert_into_index
<1>4. CASE op.type = "EdgeDelete"
  BY <1>1, <1>4 DEF update_indexes_for, remove_edge_from_indexes, drop_from_index, buckets
<1>5. CASE op.type = "SchemaApply"
  <2>1. op.schema \in Schemas
    BY <1>5 DEF MutationOp, NodeInsertOp, EdgeInsertOp, NodeDeleteOp, EdgeDeleteOp, SchemaApplyOp
  <2> QED BY <1>1, <1>5, <2>1 DEF update_indexes_for, indexes
<1> QED BY <1>2, <1>3, <1>4, <1>5 DEF update_indexes_for

\* The mutation a commit builds.
LEMMA NextMutationType ==
    ASSUME TypeOK, NEW op \in MutationOp
    PROVE  NextMutation(op) \in Mutation /\ NextMutation(op).op = op
           /\ NextMutation(op).local_seq = next_local_seq /\ NextMutation(op).foreshadow
BY DEF NextMutation, Mutation, TypeOK

\* Appending the next mutation to the log keeps its sequence numbers in order, what
\* was recorded durable, and the log legal.
LEMMA LogStep ==
    ASSUME IInv, Serving, NEW op \in MutationOp, OpLegal(log, op, Len(log)),
           log' = Append(log, NextMutation(op)), stray' = NoFrame,
           applied' = applied + 1, next_local_seq' = next_local_seq + 1,
           recorded' \in {recorded, Append(recorded, NextMutation(op))}
    PROVE  /\ log' \in Seq(Mutation) /\ Len(log') = Len(log) + 1
           /\ applied' \in 0 .. Len(log')
           /\ recorded' \in Seq(Mutation)
           /\ next_local_seq' \in Nat \ {0}
           /\ \A i \in 1 .. applied : log'[i] = log[i]
           /\ log'[applied + 1] = NextMutation(op)
           /\ OpLegal(log', op, applied)
           /\ SeqInv' /\ RecordedInv' /\ ForeshadowInv' /\ LegalInv'
<1> DEFINE m == NextMutation(op)
<1>1. /\ log \in Seq(Mutation) /\ recorded \in Seq(Mutation) /\ Len(log) \in Nat
      /\ applied = Len(log) /\ next_local_seq \in Nat \ {0}
  BY DEF IInv, TypeOK, StatusInv
<1>2. m \in Mutation /\ m.op = op /\ m.local_seq = next_local_seq /\ m.foreshadow
  BY NextMutationType DEF IInv
<1>3. log' = Append(log, m) /\ recorded' \in {recorded, Append(recorded, m)}
  OBVIOUS
<1> HIDE DEF m
<1>4. /\ log' \in Seq(Mutation) /\ Len(log') = Len(log) + 1
      /\ \A i \in 1 .. Len(log) : log'[i] = log[i]
      /\ log'[Len(log) + 1] = m
      /\ recorded' \in Seq(Mutation)
  BY <1>1, <1>2, <1>3
<1>5. OpLegal(log', op, applied)
  <2>1. \A i \in 1 .. Len(log) : log[i] = log'[i]
    BY <1>4
  <2>2. OpLegal(log, op, Len(log)) <=> OpLegal(log', op, Len(log))
    BY <1>1, <2>1, SamePrefix, Zenon
  <2> QED BY <1>1, <2>2
<1>6. SeqInv'
  <2>1. /\ \A i, j \in 1 .. Len(log) : i < j => log[i].local_seq < log[j].local_seq
        /\ \A i \in 1 .. Len(log) : log[i].local_seq < next_local_seq
        /\ \A i \in 1 .. Len(log) : log[i].local_seq \in Nat
    <3>1. \A i \in 1 .. Len(log) : log[i] \in Mutation
      BY <1>1
    <3> QED BY <1>1, <3>1 DEF IInv, SeqInv, SeqIncreasing, Mutation
  <2>2. \A i \in 1 .. Len(log') : \/ i \in 1 .. Len(log) /\ log'[i] = log[i]
                                  \/ i = Len(log) + 1 /\ log'[i].local_seq = next_local_seq
    BY <1>1, <1>2, <1>4
  <2>3. SeqIncreasing'
    BY <1>1, <1>4, <2>1, <2>2 DEF SeqIncreasing
  <2>4. \A i \in 1 .. Len(log') : log'[i].local_seq < next_local_seq + 1
    BY <1>1, <2>1, <2>2
  <2> QED BY <1>1, <1>4, <2>3, <2>4 DEF SeqInv
<1>7. RecordedInv'
  <2>1. \A k \in 1 .. Len(recorded) : \E i \in 1 .. Len(log) : log[i] = recorded[k]
    BY DEF IInv, RecordedInv
  <2>2. \A k \in 1 .. Len(recorded') : \/ k \in 1 .. Len(recorded) /\ recorded'[k] = recorded[k]
                                       \/ recorded'[k] = m
    <3>1. CASE recorded' = recorded
      BY <3>1
    <3>2. CASE recorded' = Append(recorded, m)
      <4>1. recorded \in Seq(Mutation) /\ m \in Mutation
        BY <1>1, <1>2
      <4>2. /\ Len(recorded') = Len(recorded) + 1
            /\ \A k \in 1 .. Len(recorded) : recorded'[k] = recorded[k]
            /\ recorded'[Len(recorded) + 1] = m
        BY <3>2, <4>1
      <4>3. \A k \in 1 .. Len(recorded) + 1 : k \in 1 .. Len(recorded) \/ k = Len(recorded) + 1
        BY <4>1
      <4> QED BY <4>2, <4>3
    <3> QED BY <1>3, <3>1, <3>2
  <2>3. 1 .. Len(log) \subseteq 1 .. Len(log') /\ Len(log) + 1 \in 1 .. Len(log')
    BY <1>1, <1>4
  <2> QED BY <1>4, <2>1, <2>2, <2>3, Zenon DEF RecordedInv
<1>8. LegalInv'
  <2>1. /\ \A i \in 1 .. Len(log) : OpLegal(log, log[i].op, i - 1)
        /\ OpLegal(log, m.op, Len(log))
    BY <1>2 DEF IInv, LegalInv, LogLegal
  <2>2. \A i \in 1 .. Len(Append(log, m)) :
            OpLegal(Append(log, m), Append(log, m)[i].op, i - 1)
    BY <1>1, <1>2, <2>1, LegalAppend, Zenon
  <2> QED BY <1>3, <2>2 DEF LegalInv, LogLegal
<1>9. ForeshadowInv'
  <2>1. \A i \in 1 .. Len(log) : log[i].foreshadow
    BY DEF IInv, ForeshadowInv
  <2> QED BY <1>1, <1>2, <1>4, <2>1 DEF ForeshadowInv
<1> QED BY <1>1, <1>4, <1>5, <1>6, <1>7, <1>8, <1>9 DEF m

\* A commit that succeeds.
LEMMA CommitOkStep ==
    ASSUME IInv, Serving, NEW op \in MutationOp, OpLegal(log, op, Len(log)), CommitOk(op)
    PROVE  CoreInv' /\ log' = Append(log, NextMutation(op)) /\ stray' = NoFrame
           /\ applied' = Len(log')
<1>1. /\ TypeOK /\ IndexInv /\ applied = Len(log) /\ applied \in Nat
      /\ wired \in BOOLEAN
  BY DEF IInv, TypeOK, StatusInv
<1>2. /\ log' = Append(log, NextMutation(op)) /\ stray' = NoFrame
      /\ applied' = applied + 1 /\ next_local_seq' = next_local_seq + 1
      /\ recorded' \in {recorded, Append(recorded, NextMutation(op))}
      /\ update_indexes_for(op, Len(log) + 1)
      /\ wired' = wired
  BY <1>1 DEF CommitOk
<1>3. /\ log' \in Seq(Mutation) /\ Len(log') = Len(log) + 1
      /\ applied' \in 0 .. Len(log')
      /\ recorded' \in Seq(Mutation)
      /\ next_local_seq' \in Nat \ {0}
      /\ \A i \in 1 .. applied : log'[i] = log[i]
      /\ log'[applied + 1] = NextMutation(op)
      /\ OpLegal(log', op, applied)
      /\ SeqInv' /\ RecordedInv' /\ ForeshadowInv' /\ LegalInv'
  BY <1>2, LogStep, Zenon
<1>4. log'[applied + 1].op = op
  BY <1>1, <1>3, NextMutationType
<1>5. IndexInv'
  BY <1>1, <1>2, <1>3, <1>4, Publish
<1>6. CoreType'
  BY <1>1, <1>2, <1>3, UpdateTypes DEF CoreType
<1> QED BY <1>1, <1>2, <1>3, <1>5, <1>6 DEF CoreInv

\* A commit whose append fails: the log is as it was, and what the append may
\* have left behind is a frame the log could legally hold next.
LEMMA AppendFailsStep ==
    ASSUME IInv, Serving, NEW op \in MutationOp, OpLegal(log, op, Len(log)), AppendFails(op)
    PROVE  CoreInv' /\ log' = log /\ applied' = Len(log')
           /\ stray' \in {stray, NextMutation(op)}
<1>1. /\ CoreInv /\ TypeOK /\ applied = Len(log)
  BY CoreFromIInv DEF IInv, StatusInv
<1>2. /\ log' = log /\ applied' = applied /\ UNCHANGED <<indexes, current_schema, recorded, wired>>
      /\ next_local_seq' = next_local_seq + 1
      /\ stray' \in {stray, NextMutation(op)}
  BY DEF AppendFails
<1>3. /\ NextMutation(op) \in Mutation /\ NextMutation(op).op = op
      /\ NextMutation(op).local_seq = next_local_seq /\ NextMutation(op).foreshadow
  BY <1>1, NextMutationType
<1>4. CoreType'
  BY <1>1, <1>2, <1>3 DEF CoreInv, CoreType, indexes
<1>5. IndexInv'
  BY <1>1, <1>2 DEF CoreInv, IndexInv, NodeIndexInv, EdgeIndexInv, BucketsCover, BucketsExact,
     SchemaInv, has_edge, read_op_at, indexes
<1>6. SeqInv'
  <2>1. /\ \A i \in 1 .. Len(log) : log[i].local_seq < next_local_seq
        /\ \A i \in 1 .. Len(log) : log[i].local_seq \in Nat
        /\ next_local_seq \in Nat
    <3>1. log \in Seq(Mutation)
      BY <1>1 DEF TypeOK
    <3>2. \A i \in 1 .. Len(log) : log[i] \in Mutation
      BY <3>1
    <3> QED BY <1>1, <3>2 DEF CoreInv, SeqInv, Mutation, TypeOK
  <2> QED BY <1>1, <1>2, <1>3, <2>1 DEF CoreInv, SeqInv, SeqIncreasing
<1>7. RecordedInv' /\ ForeshadowInv' /\ LegalInv'
  BY <1>1, <1>2, <1>3 DEF CoreInv, RecordedInv, ForeshadowInv, LegalInv, LogLegal
<1> QED BY <1>1, <1>2, <1>4, <1>5, <1>6, <1>7 DEF CoreInv

\* A commit of an edge delete that fails after its append: the buckets keep the
\* edge, edge_index does not (remove_edge_from_indexes).
LEMMA IndexReadFailsStep ==
    ASSUME IInv, Serving, NEW op \in MutationOp, OpLegal(log, op, Len(log)), IndexReadFails(op)
    PROVE  CoreInv' /\ log' = Append(log, NextMutation(op)) /\ stray' = NoFrame
           /\ applied' = Len(log')
<1> DEFINE n == Len(log)
<1>1. /\ TypeOK /\ IndexInv /\ applied = n /\ n \in Nat
      /\ log \in Seq(Mutation) /\ edge_index \in [Id -> Nat]
  BY DEF IInv, TypeOK, StatusInv
<1>2. /\ log' = Append(log, NextMutation(op)) /\ stray' = NoFrame
      /\ applied' = applied + 1 /\ next_local_seq' = next_local_seq + 1
      /\ recorded' = recorded
      /\ op.type = "EdgeDelete" /\ ReadFaults
      /\ edge_index' = [edge_index EXCEPT ![op.id] = 0]
      /\ UNCHANGED <<node_index, edge_by_label, edges_by_from, edges_by_to, current_schema, wired>>
  BY DEF IndexReadFails
<1>3. /\ log' \in Seq(Mutation) /\ Len(log') = n + 1
      /\ applied' \in 0 .. Len(log')
      /\ recorded' \in Seq(Mutation)
      /\ next_local_seq' \in Nat \ {0}
      /\ \A i \in 1 .. n : log'[i] = log[i]
      /\ log'[n + 1] = NextMutation(op)
      /\ SeqInv' /\ RecordedInv' /\ ForeshadowInv' /\ LegalInv'
  BY <1>1, <1>2, LogStep
<1>4. log'[n + 1].op = op /\ op.id \in Id
  <2>1. op.id \in Id
    BY <1>2 DEF MutationOp, NodeInsertOp, EdgeInsertOp, NodeDeleteOp, EdgeDeleteOp, SchemaApplyOp
  <2> QED BY <1>1, <1>3, <2>1, NextMutationType
<1> HIDE DEF n
<1>5. CoreType'
  BY <1>1, <1>2, <1>3, <1>4 DEF CoreType, TypeOK
<1>6. /\ \A id, i : NodeLiveAt(log', id, i, n) <=> NodeLiveAt(log, id, i, n)
      /\ \A id, i : EdgeLiveAt(log', id, i, n) <=> EdgeLiveAt(log, id, i, n)
      /\ \A s : SchemaInForce(log', s, n) <=> SchemaInForce(log, s, n)
  BY <1>1, <1>3, SamePrefix
<1>7. NodeIndexInv'
  <2>1. \A id, i : NodeLiveAt(log', id, i, n + 1) <=> NodeLiveAt(log, id, i, n)
    BY <1>1, <1>2, <1>4, <1>6, NodeLiveStep, Zenon DEF is_node
  <2>2. \A id, i : NodeLiveAt(log, id, i, n) => i \in 1 .. n
    BY DEF NodeLiveAt
  <2>3. \A id \in Id : /\ node_index[id] \in 0 .. n
                       /\ \A i \in 1 .. n : node_index[id] = i <=> NodeLiveAt(log, id, i, n)
    BY <1>1 DEF IndexInv, NodeIndexInv
  <2>4. applied' = n + 1 /\ node_index' = node_index
    BY <1>1, <1>2
  <2> QED BY <1>1, <2>1, <2>2, <2>3, <2>4 DEF NodeIndexInv
<1>8. EdgeIndexInv'
  <2>1. \A id, i : EdgeLiveAt(log', id, i, n + 1) <=> EdgeLiveAt(log, id, i, n) /\ op.id # id
    BY <1>1, <1>2, <1>4, <1>6, EdgeLiveStep, Zenon DEF is_edge
  <2>2. \A id, i : EdgeLiveAt(log, id, i, n) => i \in 1 .. n
    BY DEF EdgeLiveAt
  <2>3. \A id \in Id : /\ edge_index[id] \in 0 .. n
                       /\ \A i \in 1 .. n : edge_index[id] = i <=> EdgeLiveAt(log, id, i, n)
    BY <1>1 DEF IndexInv, EdgeIndexInv
  <2>4. applied' = n + 1
        /\ \A id \in Id : edge_index'[id] = IF id = op.id THEN 0 ELSE edge_index[id]
    BY <1>1, <1>2, <1>4
  <2> QED BY <1>1, <2>1, <2>2, <2>3, <2>4 DEF EdgeIndexInv
<1>9. BucketsCover'
  <2> SUFFICES ASSUME NEW id \in Id, edge_index'[id] # 0
               PROVE  /\ id \in edge_by_label[log'[edge_index'[id]].op.label]
                      /\ id \in edges_by_from[log'[edge_index'[id]].op.from]
                      /\ id \in edges_by_to[log'[edge_index'[id]].op.to]
    BY <1>2, Zenon DEF BucketsCover, has_edge, read_op_at
  <2>1. edge_index'[id] = edge_index[id] /\ edge_index[id] # 0
    BY <1>1, <1>2, <1>4
  <2>2. edge_index[id] \in 1 .. n
    BY <1>1, <2>1 DEF IndexInv, EdgeIndexInv
  <2>3. log'[edge_index'[id]] = log[edge_index[id]]
    BY <1>3, <2>1, <2>2
  <2> QED BY <1>1, <2>1, <2>3 DEF IndexInv, BucketsCover, has_edge, read_op_at
<1>10. BucketsExact'
  BY <1>2 DEF BucketsExact
<1>11. SchemaInv'
  <2>1. SchemaInForce(log', current_schema, n + 1)
    BY <1>1, <1>2, <1>4, <1>6, SchemaStep, Zenon DEF IndexInv, SchemaInv
  <2> QED BY <1>1, <1>2, <2>1 DEF SchemaInv
<1> QED BY <1>1, <1>2, <1>3, <1>5, <1>7, <1>8, <1>9, <1>10, <1>11 DEF CoreInv, IndexInv

\* A process without an engine has an empty prefix of the log in its indexes.
LEMMA LoseEngineStep ==
    ASSUME IInv, LoseEngine, log' = log, recorded' = recorded,
           \/ stray' = stray
           \/ /\ stray' \in Mutation /\ stray'.foreshadow
              /\ OpLegal(log, stray'.op, Len(log))
              /\ \A i \in 1 .. Len(log) : log[i].local_seq < stray'.local_seq
    PROVE  CoreInv' /\ StatusInv' /\ CascadeInv' /\ CursorInv'
<1>1. CoreInv
  BY CoreFromIInv
<1>2. CoreType'
  <2>1. /\ log \in Seq(Mutation) /\ recorded \in Seq(Mutation)
        /\ stray \in Mutation \cup {NoFrame}
    BY <1>1 DEF CoreInv, CoreType
  <2>2. Len(log) \in Nat /\ stray' \in Mutation \cup {NoFrame}
    BY <2>1
  <2>3. 0 \in 0 .. Len(log)
    BY <2>2
  <2>4. /\ node_index' \in [Id -> Nat] /\ edge_index' \in [Id -> Nat]
        /\ edge_by_label' \in [Label -> SUBSET Id]
        /\ edges_by_from' \in [Id -> SUBSET Id] /\ edges_by_to' \in [Id -> SUBSET Id]
    BY DEF LoseEngine
  <2>5. applied' \in 0 .. Len(log') /\ next_local_seq' \in Nat \ {0}
    BY <2>3 DEF LoseEngine
  <2>6. current_schema' \in Schemas \cup {NoSchema}
    BY DEF LoseEngine
  <2>7. wired' \in BOOLEAN
    BY Zenon DEF LoseEngine
  <2> QED BY <2>1, <2>2, <2>4, <2>5, <2>6, <2>7 DEF CoreType
<1>3. IndexInv'
  <2>1. NodeIndexInv' /\ EdgeIndexInv'
    BY DEF LoseEngine, NodeIndexInv, EdgeIndexInv
  <2>2. BucketsCover' /\ BucketsExact'
    BY DEF LoseEngine, BucketsCover, BucketsExact, has_edge
  <2>3. SchemaInv'
    BY DEF LoseEngine, SchemaInv, SchemaInForce
  <2> QED BY <2>1, <2>2, <2>3 DEF IndexInv
<1>4. SeqInv'
  BY <1>1 DEF CoreInv, SeqInv, SeqIncreasing, LoseEngine
<1>5. RecordedInv' /\ ForeshadowInv' /\ LegalInv'
  BY <1>1 DEF CoreInv, RecordedInv, ForeshadowInv, LegalInv, LogLegal
<1>6. StatusInv' /\ CascadeInv' /\ CursorInv'
  BY DEF LoseEngine, StatusInv, CascadeInv, CursorInv, ReplayComplete, Serving
<1> QED BY <1>2, <1>3, <1>4, <1>5, <1>6 DEF CoreInv

-----------------------------------------------------------------------------
(* The handlers.                                                               *)

\* A commit, finished or not, leaves no edge without its endpoints and nothing
\* beyond the end of the log that could do so when it is recovered.
LEMMA DanglingStep ==
    ASSUME IInv, NEW op \in MutationOp, OpLegal(log, op, Len(log)),
           undetached \subseteq undetached', undetached' \subseteq Id,
           op.type = "NodeDelete" => op.id \in undetached' \/ Detached(log, op.id),
           \/ log' = Append(log, NextMutation(op)) /\ stray' = NoFrame
           \/ log' = log /\ stray' \in {stray, NextMutation(op)}
    PROVE  DanglingInv'
<1>1. /\ log \in Seq(Mutation)
      /\ NextMutation(op) \in Mutation /\ NextMutation(op).op = op
  BY NextMutationType DEF IInv, TypeOK
<1>2. EndpointsLive(log, undetached')
  BY DEF IInv, DanglingInv, EndpointsLive
<1>3. CASE log' = Append(log, NextMutation(op)) /\ stray' = NoFrame
  <2>1. EndpointsLive(Append(log, NextMutation(op)), undetached')
    BY <1>1, <1>2, EndpointsAppend
  <2> QED BY <1>3, <2>1 DEF DanglingInv
<1>4. CASE log' = log /\ stray' \in {stray, NextMutation(op)}
  <2>1. CASE stray' = stray
    BY <1>2, <1>4, <2>1 DEF IInv, DanglingInv
  <2>2. CASE stray' = NextMutation(op)
    BY <1>1, <1>2, <1>4, <2>2 DEF DanglingInv
  <2> QED BY <1>4, <2>1, <2>2
<1> QED BY <1>3, <1>4

\* Dying inside a commit (DiesInCommit).
LEMMA DiesStep ==
    ASSUME IInv, Serving, NEW op \in MutationOp, OpLegal(log, op, Len(log)),
           undetached \subseteq undetached', undetached' \subseteq Id,
           op.type = "NodeDelete" => op.id \in undetached' \/ Detached(log, op.id),
           DiesInCommit(op)
    PROVE  IInv'
<1>1. /\ NextMutation(op) \in Mutation /\ NextMutation(op).op = op
      /\ NextMutation(op).local_seq = next_local_seq /\ NextMutation(op).foreshadow
  BY NextMutationType DEF IInv
<1>2. LoseEngine /\ log' = log /\ recorded' = recorded /\ stray' = NextMutation(op)
  BY DEF DiesInCommit
<1>3. \A i \in 1 .. Len(log) : log[i].local_seq < next_local_seq
  BY DEF IInv, SeqInv, StatusInv
<1>4. CoreInv' /\ StatusInv' /\ CascadeInv' /\ CursorInv'
  BY <1>1, <1>2, <1>3, LoseEngineStep
<1>5. DanglingInv'
  BY <1>2, DanglingStep
<1>6. TypeOK'
  BY <1>2, <1>4 DEF CoreInv, CoreType, TypeOK, LoseEngine
<1> QED BY <1>4, <1>5, <1>6 DEF IInv, CoreInv

\* A handler that validates and then commits preserves the invariant, whichever
\* way the commit ends (insert_node, insert_edge, apply_schema, delete_node,
\* delete_edge).
LEMMA CommitStep ==
    ASSUME IInv, status = "open", NEW op \in MutationOp, OpLegal(log, op, Len(log)),
           undetached \subseteq undetached', undetached' \subseteq Id,
           op.type = "NodeDelete" => op.id \in undetached',
           commit(op)
    PROVE  IInv'
<1>0. Serving
  BY DEF Serving
<1>1. CASE DiesInCommit(op)
  BY <1>0, <1>1, DiesStep
<1>2. CASE (CommitOk(op) \/ CommitErr(op)) /\ UNCHANGED <<status, loopVars>>
  <2>1. CoreInv' /\ applied' = Len(log')
        /\ \/ log' = Append(log, NextMutation(op)) /\ stray' = NoFrame
           \/ log' = log /\ stray' \in {stray, NextMutation(op)}
    BY <1>0, <1>2, CommitOkStep, AppendFailsStep, IndexReadFailsStep DEF CommitErr
  <2>2. DanglingInv'
    BY <2>1, DanglingStep
  <2>3. StatusInv' /\ CascadeInv' /\ CursorInv' /\ cursor' = 0
    BY <1>2, <2>1 DEF StatusInv, CascadeInv, CursorInv, ReplayComplete, Serving, loopVars, IInv
  <2>4. TypeOK'
    BY <1>2, <2>1, <2>3 DEF CoreInv, CoreType, TypeOK, loopVars, IInv
  <2> QED BY <2>1, <2>2, <2>3, <2>4 DEF IInv, CoreInv
<1> QED BY <1>1, <1>2 DEF commit

\* delete_node_with_cascade starts with exactly the live edges of the node.
LEMMA StartCascadeStep ==
    ASSUME IInv, NEW id \in Id, StartCascade(id)
    PROVE  IInv'
<1> DEFINE n == Len(log)
<1>1. /\ TypeOK /\ IndexInv /\ applied = n /\ n \in Nat /\ log \in Seq(Mutation)
      /\ edge_index \in [Id -> Nat]
  BY DEF IInv, TypeOK, StatusInv, StartCascade, Serving
<1>2. /\ status' = "cascade" /\ doomed' = id
      /\ incident' = {e.id : e \in iter_edges_incident_to(id)}
      /\ UNCHANGED <<log, stray, applied, indexes, next_local_seq, current_schema, cursor,
                     wired, recorded, undetached>>
      /\ status = "open"
  BY DEF StartCascade, storageVars
<1>3. \A x \in Id : has_edge(x) => EdgeLiveAt(log, x, edge_index[x], n)
  BY <1>1 DEF IndexInv, EdgeIndexInv, has_edge
<1>4. \A x \in Id, i \in 1 .. n : EdgeLiveAt(log, x, i, n) =>
          /\ has_edge(x) /\ edge_index[x] = i
          /\ x \in edges_by_from[log[i].op.from] /\ x \in edges_by_to[log[i].op.to]
  BY <1>1 DEF IndexInv, EdgeIndexInv, BucketsCover, has_edge, read_op_at
<1>5. \A x \in incident' : x \in Id /\ EdgeLive(log, x, n)
  <2> SUFFICES ASSUME NEW x \in incident' PROVE x \in Id /\ EdgeLive(log, x, n)
    OBVIOUS
  <2>1. PICK y \in Id : has_edge(y) /\ x = log[edge_index[y]].op.id
    BY <1>1, <1>2 DEF iter_edges_incident_to, materialize_edges, read_op_at, TypeOK
  <2>2. EdgeLiveAt(log, y, edge_index[y], n)
    BY <1>3, <2>1
  <2> QED BY <2>1, <2>2 DEF EdgeLiveAt, EdgeLive
<1>6. ASSUME NEW x \in Id, NEW i \in 1 .. n, EdgeLiveAt(log, x, i, n),
             log[i].op.from = id \/ log[i].op.to = id
      PROVE  x \in incident'
  <2>1. /\ has_edge(x) /\ edge_index[x] = i
        /\ x \in edges_by_from[id] \cup edges_by_to[id]
    BY <1>4, <1>6
  <2>2. log[i].op \in iter_edges_incident_to(id)
    BY <2>1 DEF iter_edges_incident_to, materialize_edges, read_op_at
  <2>3. log[i].op.id = x
    BY <1>6 DEF EdgeLiveAt
  <2> QED BY <1>2, <2>2, <2>3
<1>7. NodeLive(log, id, n)
  BY <1>1 DEF StartCascade, has_node, IndexInv, NodeIndexInv, NodeLive
<1>8. CascadeInv'
  BY <1>2, <1>5, <1>6, <1>7 DEF CascadeInv
<1>9. TypeOK'
  BY <1>2, <1>5 DEF IInv, TypeOK, indexes
<1>10. IndexInv'
  <2>1. NodeIndexInv' /\ EdgeIndexInv' /\ SchemaInv'
    BY <1>1, <1>2 DEF IndexInv, NodeIndexInv, EdgeIndexInv, SchemaInv, indexes
  <2>2. BucketsCover'
    BY <1>1, <1>2 DEF IndexInv, BucketsCover, has_edge, read_op_at, indexes
  <2>3. BucketsExact'
    BY <1>1, <1>2 DEF IndexInv, BucketsExact, has_edge, read_op_at, indexes
  <2> QED BY <2>1, <2>2, <2>3 DEF IndexInv
<1>11. /\ StatusInv' /\ SeqInv' /\ RecordedInv' /\ ForeshadowInv' /\ CursorInv' /\ LegalInv'
       /\ DanglingInv'
  BY <1>1, <1>2 DEF IInv, StatusInv, Serving, SeqInv, SeqIncreasing, RecordedInv, ForeshadowInv,
     CursorInv, ReplayComplete, LegalInv, LogLegal, DanglingInv
<1> QED BY <1>8, <1>9, <1>10, <1>11 DEF IInv

\* Each edge the cascade deletes leaves the remaining ones live and accounted for.
LEMMA CascadeEdgeStep ==
    ASSUME IInv, NEW id \in Id, CascadeEdge(id)
    PROVE  IInv'
<1> DEFINE op == [type |-> "EdgeDelete", id |-> id]
           m == NextMutation(op)
<1>1. /\ Serving /\ status = "cascade" /\ id \in incident /\ UNCHANGED undetached
      /\ undetached \subseteq Id /\ log \in Seq(Mutation)
  BY DEF CascadeEdge, Serving, IInv, TypeOK
<1>2. op \in MutationOp /\ op.type = "EdgeDelete" /\ op.id = id
  BY DEF MutationOp, EdgeDeleteOp
<1>3. OpLegal(log, op, Len(log))
  BY <1>1 DEF IInv, CascadeInv, OpLegal
<1>4. \/ CommitOk(op) /\ incident' = incident \ {id} /\ UNCHANGED <<status, doomed, cursor>>
      \/ CommitErr(op) /\ EndCascade
      \/ DiesInCommit(op)
  BY DEF CascadeEdge
<1>5. m \in Mutation /\ m.op = op
  BY <1>2, NextMutationType DEF IInv
<1> HIDE DEF op, m
<1>6. CASE CommitOk(op) /\ incident' = incident \ {id} /\ UNCHANGED <<status, doomed, cursor>>
  <2>1. CoreInv' /\ applied' = Len(log') /\ log' = Append(log, m) /\ stray' = NoFrame
    BY <1>1, <1>2, <1>3, <1>6, CommitOkStep DEF m
  <2>2. DanglingInv'
    BY <1>1, <1>2, <1>3, <2>1, DanglingStep DEF m
  <2>3. CascadeInv'
    <3>1. /\ doomed \in Id /\ NodeLive(log, doomed, Len(log))
          /\ \A e \in incident : EdgeLive(log, e, Len(log))
          /\ \A e \in Id : \A i \in 1 .. Len(log) :
                /\ EdgeLiveAt(log, e, i, Len(log))
                /\ log[i].op.from = doomed \/ log[i].op.to = doomed
                => e \in incident
      BY <1>1 DEF IInv, CascadeInv
    <3>2. /\ NodeLive(log', doomed, Len(log'))
          /\ \A e \in incident \ {id} : EdgeLive(log', e, Len(log'))
      BY <1>1, <1>2, <1>5, <2>1, <3>1, AppendMeaning DEF is_node, is_edge
    <3>3. ASSUME NEW e \in Id, NEW i \in 1 .. Len(log'), EdgeLiveAt(log', e, i, Len(log')),
                 log'[i].op.from = doomed \/ log'[i].op.to = doomed
          PROVE  e \in incident \ {id}
      <4>1. EdgeLiveAt(log, e, i, Len(log)) /\ e # id
        BY <1>1, <1>2, <1>5, <2>1, <3>3, AppendMeaning DEF is_edge
      <4>2. i \in 1 .. Len(log) /\ log'[i] = log[i]
        BY <1>1, <1>5, <2>1, <4>1 DEF EdgeLiveAt
      <4> QED BY <3>1, <3>3, <4>1, <4>2
    <3> QED BY <1>6, <3>1, <3>2, <3>3 DEF CascadeInv
  <2>4. StatusInv' /\ CursorInv' /\ cursor' = 0
    BY <1>1, <1>6, <2>1 DEF StatusInv, CursorInv, ReplayComplete, Serving, IInv
  <2>5. TypeOK'
    BY <1>1, <1>6, <2>1, <2>4 DEF CoreInv, CoreType, TypeOK, IInv
  <2> QED BY <2>1, <2>2, <2>3, <2>4, <2>5 DEF IInv, CoreInv
<1>7. CASE CommitErr(op) /\ EndCascade
  <2>1. CoreInv' /\ applied' = Len(log')
        /\ \/ log' = Append(log, m) /\ stray' = NoFrame
           \/ log' = log /\ stray' \in {stray, m}
    BY <1>1, <1>2, <1>3, <1>7, AppendFailsStep, IndexReadFailsStep DEF CommitErr, m
  <2>2. DanglingInv'
    BY <1>1, <1>2, <1>3, <2>1, DanglingStep DEF m
  <2>3. StatusInv' /\ CascadeInv' /\ CursorInv' /\ cursor' = 0
    BY <1>1, <1>7, <2>1 DEF StatusInv, CascadeInv, CursorInv, ReplayComplete, Serving, EndCascade,
       IInv
  <2>4. TypeOK'
    BY <1>1, <1>7, <2>1, <2>3 DEF CoreInv, CoreType, TypeOK, EndCascade, IInv
  <2> QED BY <2>1, <2>2, <2>3, <2>4 DEF IInv, CoreInv
<1>8. CASE DiesInCommit(op)
  BY <1>1, <1>2, <1>3, <1>8, DiesStep
<1> QED BY <1>4, <1>6, <1>7, <1>8

\* The cascade's last commit deletes a node no live edge refers to.
LEMMA CascadeNodeStep ==
    ASSUME IInv, CascadeNode
    PROVE  IInv'
<1> DEFINE op == [type |-> "NodeDelete", id |-> doomed]
           m == NextMutation(op)
<1>1. /\ Serving /\ status = "cascade" /\ incident = {} /\ UNCHANGED undetached
      /\ undetached \subseteq Id /\ log \in Seq(Mutation)
  BY DEF CascadeNode, Serving, IInv, TypeOK
<1>2. doomed \in Id /\ NodeLive(log, doomed, Len(log)) /\ Detached(log, doomed)
  BY <1>1 DEF IInv, CascadeInv, Detached
<1>3. op \in MutationOp /\ op.type = "NodeDelete" /\ op.id = doomed
  BY <1>2 DEF MutationOp, NodeDeleteOp
<1>4. OpLegal(log, op, Len(log))
  BY <1>2 DEF OpLegal
<1>5. \/ (CommitOk(op) \/ CommitErr(op)) /\ EndCascade
      \/ DiesInCommit(op)
  BY DEF CascadeNode
<1> HIDE DEF op, m
<1>6. CASE (CommitOk(op) \/ CommitErr(op)) /\ EndCascade
  <2>1. CoreInv' /\ applied' = Len(log')
        /\ \/ log' = Append(log, NextMutation(op)) /\ stray' = NoFrame
           \/ log' = log /\ stray' \in {stray, NextMutation(op)}
    BY <1>1, <1>3, <1>4, <1>6, CommitOkStep, AppendFailsStep, IndexReadFailsStep DEF CommitErr
  <2>2. DanglingInv'
    BY <1>1, <1>2, <1>3, <1>4, <2>1, DanglingStep
  <2>3. StatusInv' /\ CascadeInv' /\ CursorInv' /\ cursor' = 0
    BY <1>1, <1>6, <2>1 DEF StatusInv, CascadeInv, CursorInv, ReplayComplete, Serving, EndCascade,
       IInv
  <2>4. TypeOK'
    BY <1>1, <1>6, <2>1, <2>3 DEF CoreInv, CoreType, TypeOK, EndCascade, IInv
  <2> QED BY <2>1, <2>2, <2>3, <2>4 DEF IInv, CoreInv
<1>7. CASE DiesInCommit(op)
  BY <1>1, <1>2, <1>3, <1>4, <1>7, DiesStep
<1> QED BY <1>5, <1>6, <1>7

\* What the indexes of an open engine answer is what the whole log says, so the
\* guards of the handlers decide legality.
LEMMA GuardsDecide ==
    ASSUME IInv, status = "open"
    PROVE  /\ \A id \in Id : has_node(id) <=> NodeLive(log, id, Len(log))
           /\ \A id \in Id : has_edge(id) <=> EdgeLive(log, id, Len(log))
           /\ \A s : SchemaInForce(log, s, Len(log)) => s = current_schema
<1>1. /\ applied = Len(log) /\ Len(log) \in Nat
      /\ NodeIndexInv /\ EdgeIndexInv /\ SchemaInv
  BY DEF IInv, TypeOK, StatusInv, Serving, IndexInv
<1>2. \A id \in Id : has_node(id) <=> NodeLive(log, id, Len(log))
  BY <1>1 DEF NodeIndexInv, has_node, NodeLive
<1>3. \A id \in Id : has_edge(id) <=> EdgeLive(log, id, Len(log))
  BY <1>1 DEF EdgeIndexInv, has_edge, EdgeLive
<1>4. \A s : SchemaInForce(log, s, Len(log)) => s = current_schema
  BY <1>1, SchemaUnique DEF SchemaInv
<1> QED BY <1>2, <1>3, <1>4

\* Inserting a node.
LEMMA InsertNodeStep ==
    ASSUME IInv, NEW id \in Id, NEW label \in Label, NEW properties \in PropertyMap,
           insert_node(id, label, properties)
    PROVE  IInv'
<1> DEFINE op == [type |-> "NodeInsert", id |-> id, label |-> label, properties |-> properties]
<1>1. /\ status = "open" /\ ~has_node(id) /\ Conforms(current_schema, label, properties)
      /\ commit(op) /\ UNCHANGED undetached /\ undetached \subseteq Id
  BY DEF insert_node, IInv, TypeOK
<1>2. op \in MutationOp /\ op.type = "NodeInsert" /\ op.id = id /\ op.label = label
      /\ op.properties = properties
  BY DEF MutationOp, NodeInsertOp
<1> HIDE DEF op
<1>3. OpLegal(log, op, Len(log))
  BY <1>1, <1>2, GuardsDecide, Zenon DEF OpLegal
<1> QED BY <1>1, <1>2, <1>3, CommitStep

\* Inserting an edge.
LEMMA InsertEdgeStep ==
    ASSUME IInv, NEW id \in Id, NEW from \in Id, NEW to \in Id, NEW label \in Label,
           NEW properties \in PropertyMap, insert_edge(id, label, from, to, properties)
    PROVE  IInv'
<1> DEFINE op == [type |-> "EdgeInsert", id |-> id, label |-> label, from |-> from, to |-> to,
                  properties |-> properties]
<1>1. /\ status = "open" /\ ~has_edge(id) /\ has_node(from) /\ has_node(to)
      /\ Conforms(current_schema, label, properties)
      /\ commit(op) /\ UNCHANGED undetached /\ undetached \subseteq Id
  BY DEF insert_edge, IInv, TypeOK
<1>2. op \in MutationOp /\ op.type = "EdgeInsert" /\ op.id = id /\ op.label = label
      /\ op.from = from /\ op.to = to /\ op.properties = properties
  BY DEF MutationOp, EdgeInsertOp
<1> HIDE DEF op
<1>3. OpLegal(log, op, Len(log))
  BY <1>1, <1>2, GuardsDecide, Zenon DEF OpLegal
<1> QED BY <1>1, <1>2, <1>3, CommitStep

\* Applying a schema, and the two single deletes.
LEMMA OtherCommitSteps ==
    ASSUME IInv
    PROVE  /\ \A s \in Schemas : apply_schema(s) => IInv'
           /\ \A id \in Id : delete_node(id) \/ delete_edge(id) => IInv'
<1>0. undetached \subseteq Id
  BY DEF IInv, TypeOK
<1>1. ASSUME NEW s \in Schemas, apply_schema(s) PROVE IInv'
  <2> DEFINE op == [type |-> "SchemaApply", schema |-> s]
  <2>1. status = "open" /\ commit(op) /\ UNCHANGED undetached
    BY <1>1 DEF apply_schema
  <2>2. op \in MutationOp /\ op.type = "SchemaApply"
    BY DEF MutationOp, SchemaApplyOp
  <2> HIDE DEF op
  <2>3. OpLegal(log, op, Len(log))
    BY <2>2 DEF OpLegal
  <2> QED BY <1>0, <2>1, <2>2, <2>3, CommitStep
<1>2. ASSUME NEW id \in Id, delete_node(id) PROVE IInv'
  <2> DEFINE op == [type |-> "NodeDelete", id |-> id]
  <2>1. status = "open" /\ has_node(id) /\ commit(op) /\ undetached' = undetached \cup {id}
    BY <1>2 DEF delete_node
  <2>2. op \in MutationOp /\ op.type = "NodeDelete" /\ op.id = id
    BY DEF MutationOp, NodeDeleteOp
  <2> HIDE DEF op
  <2>3. OpLegal(log, op, Len(log))
    BY <2>1, <2>2, GuardsDecide, Zenon DEF OpLegal
  <2> QED BY <1>0, <2>1, <2>2, <2>3, CommitStep
<1>3. ASSUME NEW id \in Id, delete_edge(id) PROVE IInv'
  <2> DEFINE op == [type |-> "EdgeDelete", id |-> id]
  <2>1. status = "open" /\ has_edge(id) /\ commit(op) /\ UNCHANGED undetached
    BY <1>3 DEF delete_edge
  <2>2. op \in MutationOp /\ op.type = "EdgeDelete" /\ op.id = id
    BY DEF MutationOp, EdgeDeleteOp
  <2> HIDE DEF op
  <2>3. OpLegal(log, op, Len(log))
    BY <2>1, <2>2, GuardsDecide, Zenon DEF OpLegal
  <2> QED BY <1>0, <2>1, <2>2, <2>3, CommitStep
<1> QED BY <1>1, <1>2, <1>3
=============================================================================
