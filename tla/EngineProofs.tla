---------------------------- MODULE EngineProofs ----------------------------
(* The invariant of Engine is inductive, and what follows from it.             *)
EXTENDS EngineCommitProofs

-----------------------------------------------------------------------------
(* The life of the process.                                                    *)

\* Steps that leave the store and the indexes alone keep what is said of them.
LEMMA SameStore ==
    ASSUME IInv, UNCHANGED <<log, stray, applied, indexes, next_local_seq, current_schema>>
    PROVE  /\ IndexInv' /\ SeqInv' /\ ForeshadowInv' /\ LegalInv'
           /\ recorded' = recorded => RecordedInv'
           /\ undetached' = undetached => DanglingInv'
<1>1. IndexInv'
  BY DEF IInv, IndexInv, NodeIndexInv, EdgeIndexInv, BucketsCover, BucketsExact, SchemaInv,
     has_edge, read_op_at, indexes
<1>2. SeqInv' /\ ForeshadowInv' /\ LegalInv'
  BY DEF IInv, SeqInv, SeqIncreasing, ForeshadowInv, LegalInv, LogLegal
<1>3. recorded' = recorded => RecordedInv'
  BY DEF IInv, RecordedInv
<1>4. undetached' = undetached => DanglingInv'
  BY DEF IInv, DanglingInv
<1> QED BY <1>1, <1>2, <1>3, <1>4

\* Wiring a mutation log, and starting and ending a replay.
LEMMA WiringStep ==
    ASSUME IInv, with_mutation_log \/ StartReplay \/ EndReplay
    PROVE  IInv'
<1>1. /\ UNCHANGED <<log, stray, applied, indexes, next_local_seq, current_schema, doomed,
                     incident, recorded, undetached>>
      /\ status' \in {"open", "replay"} /\ cursor' = 0
      /\ status \in {"open", "replay"}
  BY DEF with_mutation_log, StartReplay, EndReplay, storageVars, loopVars, IInv, CursorInv
<1>2. wired' \in BOOLEAN
  BY Zenon DEF with_mutation_log, StartReplay, EndReplay, IInv, TypeOK
<1>3. TypeOK'
  BY <1>1, <1>2 DEF IInv, TypeOK, indexes
<1>4. StatusInv' /\ CascadeInv'
  BY <1>1 DEF IInv, StatusInv, Serving, CascadeInv
<1>5. CursorInv'
  <2>1. Len(recorded') \in Nat
    BY <1>3 DEF TypeOK
  <2> QED BY <1>1, <2>1 DEF CursorInv, ReplayComplete
<1>6. IndexInv' /\ SeqInv' /\ ForeshadowInv' /\ LegalInv' /\ RecordedInv' /\ DanglingInv'
  BY <1>1, SameStore
<1> QED BY <1>3, <1>4, <1>5, <1>6 DEF IInv

\* One more frame handed over by a replay: all frames are foreshadows, so none
\* is skipped.
LEMMA ReplayFrameStep ==
    ASSUME IInv, ReplayFrame
    PROVE  IInv'
<1> DEFINE m == log[cursor + 1]
<1>1. /\ UNCHANGED <<log, stray, applied, indexes, next_local_seq, current_schema, doomed,
                     incident, wired, undetached, status>>
      /\ status = "replay" /\ cursor < Len(log) /\ cursor' = cursor + 1
  BY DEF ReplayFrame, storageVars
<1>2. /\ log \in Seq(Mutation) /\ recorded \in Seq(Mutation) /\ cursor \in 0 .. Len(log)
      /\ Len(log) \in Nat /\ Len(recorded) \in Nat
  BY DEF IInv, TypeOK
<1>3. cursor + 1 \in 1 .. Len(log) /\ m \in Mutation
  BY <1>1, <1>2
<1>4. recorded' = Append(recorded, m)
  BY <1>3 DEF ReplayFrame, IInv, ForeshadowInv
<1>5. m = log[cursor + 1]
  OBVIOUS
<1> HIDE DEF m
<1>6. /\ Len(recorded') = Len(recorded) + 1 /\ recorded' \in Seq(Mutation)
      /\ \A k \in 1 .. Len(recorded) : recorded'[k] = recorded[k]
      /\ recorded'[Len(recorded) + 1] = m
  BY <1>2, <1>3, <1>4
<1>7. RecordedInv'
  <2>1. \A k \in 1 .. Len(recorded) : \E i \in 1 .. Len(log) : log[i] = recorded[k]
    BY DEF IInv, RecordedInv
  <2>2. \A k \in 1 .. Len(recorded') : k \in 1 .. Len(recorded) \/ k = Len(recorded) + 1
    BY <1>2, <1>6
  <2> QED BY <1>1, <1>3, <1>5, <1>6, <2>1, <2>2 DEF RecordedInv
<1>8. CursorInv'
  <2>1. /\ Len(recorded) >= cursor
        /\ \A i \in 1 .. cursor : recorded[Len(recorded) - cursor + i] = log[i]
    BY <1>1 DEF IInv, CursorInv, ReplayComplete
  <2>2. Len(recorded') >= cursor'
    BY <1>1, <1>2, <1>6, <2>1
  <2>3. ASSUME NEW i \in 1 .. cursor'
        PROVE  recorded'[Len(recorded') - cursor' + i] = log'[i]
    <3>1. Len(recorded') - cursor' + i = Len(recorded) - cursor + i
      BY <1>1, <1>2, <1>6
    <3>2. CASE i \in 1 .. cursor
      <4>1. Len(recorded) - cursor + i \in 1 .. Len(recorded)
        BY <1>2, <2>1, <3>2
      <4> QED BY <1>1, <1>6, <2>1, <3>1, <3>2, <4>1
    <3>3. CASE i = cursor + 1
      <4>1. Len(recorded) - cursor + i = Len(recorded) + 1
        BY <1>2, <3>3
      <4> QED BY <1>1, <1>5, <1>6, <3>1, <3>3, <4>1, Zenon
    <3> QED BY <1>1, <1>2, <3>2, <3>3
  <2> QED BY <1>1, <2>2, <2>3 DEF CursorInv, ReplayComplete
<1>9. TypeOK'
  BY <1>1, <1>2, <1>3, <1>6 DEF IInv, TypeOK, indexes
<1>10. StatusInv' /\ CascadeInv'
  BY <1>1 DEF IInv, StatusInv, Serving, CascadeInv
<1>11. IndexInv' /\ SeqInv' /\ ForeshadowInv' /\ LegalInv' /\ DanglingInv'
  BY <1>1, SameStore
<1> QED BY <1>7, <1>8, <1>9, <1>10, <1>11 DEF IInv

\* Losing the process.
LEMMA CrashStep ==
    ASSUME IInv, Crash
    PROVE  IInv'
<1>1. LoseEngine /\ log' = log /\ recorded' = recorded /\ stray' = stray
      /\ undetached' = undetached
  BY DEF Crash, storageVars
<1>2. CoreInv' /\ StatusInv' /\ CascadeInv' /\ CursorInv'
  BY <1>1, LoseEngineStep
<1>3. DanglingInv'
  BY <1>1 DEF IInv, DanglingInv
<1>4. cursor' \in 0 .. Len(log')
  BY <1>1 DEF LoseEngine, IInv, TypeOK
<1>5. TypeOK'
  BY <1>1, <1>2, <1>4 DEF CoreInv, CoreType, TypeOK, LoseEngine, IInv
<1> QED BY <1>2, <1>3, <1>5 DEF IInv, CoreInv

\* Opening the file: with no frame in the indexes yet, a frame found beyond the
\* old end only has to be a legal next one.
LEMMA OpenStep ==
    ASSUME IInv, open_with
    PROVE  IInv'
<1>1. /\ status = "closed" /\ status' = "recovering" /\ stray' = NoFrame
      /\ \/ stray # NoFrame /\ log' = Append(log, stray)
         \/ log' = log
      /\ UNCHANGED <<applied, indexes, next_local_seq, current_schema, doomed, incident, cursor,
                     wired, recorded, undetached>>
  BY DEF open_with, loopVars
<1>2. /\ log \in Seq(Mutation) /\ Len(log) \in Nat /\ stray \in Mutation \cup {NoFrame}
      /\ applied = 0 /\ cursor = 0
  BY <1>1 DEF IInv, TypeOK, StatusInv, CursorInv
<1>3. /\ log' \in Seq(Mutation) /\ Len(log') \in Nat /\ Len(log') >= Len(log)
      /\ \A i \in 1 .. Len(log) : log'[i] = log[i]
      /\ \A i \in 1 .. Len(log') : \/ i \in 1 .. Len(log)
                                   \/ /\ stray # NoFrame /\ i = Len(log) + 1
                                      /\ log'[i] = stray
  BY <1>1, <1>2
<1>4. TypeOK'
  BY <1>1, <1>2, <1>3 DEF IInv, TypeOK, indexes
<1>5. StatusInv' /\ CascadeInv' /\ CursorInv'
  BY <1>1, <1>2 DEF StatusInv, CascadeInv, CursorInv, ReplayComplete, Serving
<1>6. IndexInv'
  <2>1. /\ \A id \in Id : node_index[id] = 0 /\ edge_index[id] = 0
        /\ node_index' = node_index /\ edge_index' = edge_index /\ applied' = 0
        /\ current_schema' = current_schema
    BY <1>1, <1>2 DEF IInv, IndexInv, NodeIndexInv, EdgeIndexInv, indexes
  <2>2. NodeIndexInv' /\ EdgeIndexInv'
    BY <2>1 DEF NodeIndexInv, EdgeIndexInv
  <2>3. BucketsCover' /\ BucketsExact'
    BY <1>1, <2>1 DEF IInv, IndexInv, BucketsCover, BucketsExact, has_edge, indexes
  <2>4. SchemaInv'
    BY <1>2, <2>1 DEF IInv, IndexInv, SchemaInv, SchemaInForce
  <2> QED BY <2>2, <2>3, <2>4 DEF IndexInv
<1>7. SeqInv'
  <2>1. /\ \A i, j \in 1 .. Len(log) : i < j => log[i].local_seq < log[j].local_seq
        /\ stray # NoFrame => \A i \in 1 .. Len(log) : log[i].local_seq < stray.local_seq
    BY DEF IInv, SeqInv, SeqIncreasing
  <2>2. SeqIncreasing'
    BY <1>2, <1>3, <2>1 DEF SeqIncreasing
  <2> QED BY <1>1, <1>2, <2>2 DEF SeqInv
<1>8. RecordedInv'
  <2>1. 1 .. Len(log) \subseteq 1 .. Len(log')
    BY <1>2, <1>3
  <2> QED BY <1>1, <1>3, <2>1, Zenon DEF IInv, RecordedInv
<1>9. ForeshadowInv'
  BY <1>1, <1>3 DEF IInv, ForeshadowInv
<1>10. LegalInv'
  <2>1. /\ \A i \in 1 .. Len(log) : OpLegal(log, log[i].op, i - 1)
        /\ stray # NoFrame => OpLegal(log, stray.op, Len(log))
    BY DEF IInv, LegalInv, LogLegal
  <2>2. CASE stray # NoFrame /\ log' = Append(log, stray)
    <3>1. stray \in Mutation
      BY <1>2, <2>2
    <3>2. \A i \in 1 .. Len(Append(log, stray)) :
              OpLegal(Append(log, stray), Append(log, stray)[i].op, i - 1)
      BY <1>2, <2>1, <2>2, <3>1, LegalAppend
    <3> QED BY <1>1, <2>2, <3>2 DEF LegalInv, LogLegal
  <2>3. CASE log' = log
    BY <1>1, <2>1, <2>3 DEF LegalInv, LogLegal
  <2> QED BY <1>1, <2>2, <2>3
<1>11. DanglingInv'
  <2>1. /\ EndpointsLive(log, undetached) /\ undetached \subseteq Id
        /\ stray # NoFrame => /\ OpLegal(log, stray.op, Len(log))
                              /\ stray.op.type = "NodeDelete" =>
                                    stray.op.id \in undetached \/ Detached(log, stray.op.id)
    BY DEF IInv, DanglingInv, LegalInv, TypeOK
  <2>2. CASE stray # NoFrame /\ log' = Append(log, stray)
    <3>1. stray \in Mutation
      BY <1>2, <2>2
    <3>2. EndpointsLive(Append(log, stray), undetached)
      BY <1>2, <2>1, <2>2, <3>1, EndpointsAppend
    <3> QED BY <1>1, <2>2, <3>2 DEF DanglingInv
  <2>3. CASE log' = log
    BY <1>1, <2>1, <2>3 DEF DanglingInv
  <2> QED BY <1>1, <2>2, <2>3
<1> QED BY <1>4, <1>5, <1>6, <1>7, <1>8, <1>9, <1>10, <1>11 DEF IInv

\* One turn of recover's loop publishes one more frame of a legal log.
LEMMA RecoverFrameStep ==
    ASSUME IInv, RecoverFrame
    PROVE  IInv'
<1> DEFINE m == log[applied + 1]
<1>1. /\ status = "recovering" /\ applied < Len(log) /\ applied' = applied + 1
      /\ update_indexes_for(m.op, applied + 1)
      /\ next_local_seq' = IF m.local_seq >= next_local_seq THEN m.local_seq + 1
                                                            ELSE next_local_seq
      /\ UNCHANGED <<log, stray, status, doomed, incident, cursor, wired, recorded, undetached>>
  BY DEF RecoverFrame, storageVars, loopVars
<1>2. /\ log \in Seq(Mutation) /\ Len(log) \in Nat /\ applied \in 0 .. Len(log)
      /\ next_local_seq \in Nat \ {0} /\ stray = NoFrame /\ TypeOK /\ IndexInv
  BY <1>1 DEF IInv, TypeOK, StatusInv
<1>3. applied + 1 \in 1 .. Len(log) /\ m \in Mutation /\ m = log[applied + 1]
  BY <1>1, <1>2
<1>4. m.op \in MutationOp /\ m.local_seq \in Nat
  BY <1>3 DEF Mutation
<1> HIDE DEF m
<1>5. IndexInv'
  <2>1. OpLegal(log, m.op, applied)
    <3>1. OpLegal(log, log[applied + 1].op, (applied + 1) - 1)
      BY <1>3 DEF IInv, LegalInv, LogLegal
    <3>2. (applied + 1) - 1 = applied
      BY <1>2
    <3> QED BY <1>3, <3>1, <3>2
  <2> QED BY <1>1, <1>2, <1>3, <2>1, Publish
<1>6. TypeOK'
  <2>1. next_local_seq' \in Nat \ {0} /\ applied' \in 0 .. Len(log')
    BY <1>1, <1>2, <1>3, <1>4
  <2> QED BY <1>1, <1>2, <1>4, <2>1, UpdateTypes DEF TypeOK
<1>7. SeqInv'
  <2>1. \A i \in 1 .. applied : log[i].local_seq < next_local_seq /\ log[i].local_seq \in Nat
    <3>1. \A i \in 1 .. applied : log[i] \in Mutation
      BY <1>2
    <3> QED BY <3>1 DEF IInv, SeqInv, Mutation
  <2>2. \A i \in 1 .. applied + 1 : i \in 1 .. applied \/ i = applied + 1
    BY <1>2
  <2>3. \A i \in 1 .. applied + 1 : log[i].local_seq < next_local_seq'
    BY <1>1, <1>2, <1>3, <1>4, <2>1, <2>2
  <2> QED BY <1>1, <1>2, <2>3 DEF IInv, SeqInv, SeqIncreasing
<1>8. /\ StatusInv' /\ CascadeInv' /\ CursorInv' /\ RecordedInv' /\ ForeshadowInv' /\ LegalInv'
      /\ DanglingInv'
  BY <1>1, <1>2 DEF IInv, StatusInv, Serving, CascadeInv, CursorInv, ReplayComplete, RecordedInv,
     ForeshadowInv, LegalInv, LogLegal, DanglingInv
<1> QED BY <1>5, <1>6, <1>7, <1>8 DEF IInv

\* recover reaches the end of the log.
LEMMA RecoverDoneStep ==
    ASSUME IInv, RecoverDone
    PROVE  IInv'
<1>1. /\ UNCHANGED <<log, stray, applied, indexes, next_local_seq, current_schema, doomed,
                     incident, cursor, wired, recorded, undetached>>
      /\ status' = "open" /\ status = "recovering" /\ applied = Len(log)
  BY DEF RecoverDone, storageVars, loopVars
<1>2. TypeOK'
  BY <1>1 DEF IInv, TypeOK, indexes
<1>3. StatusInv' /\ CascadeInv' /\ CursorInv'
  BY <1>1 DEF IInv, StatusInv, Serving, CascadeInv, CursorInv, ReplayComplete
<1>4. IndexInv' /\ SeqInv' /\ ForeshadowInv' /\ LegalInv' /\ RecordedInv' /\ DanglingInv'
  BY <1>1, SameStore
<1> QED BY <1>2, <1>3, <1>4 DEF IInv

-----------------------------------------------------------------------------
(* The theorems.                                                               *)

\* A store that was never opened.
LEMMA InitIInv == Init => IInv
<1> SUFFICES ASSUME Init PROVE IInv
  OBVIOUS
<1>1. TypeOK
  <2>1. log \in Seq(Mutation) /\ recorded \in Seq(Mutation) /\ Len(log) = 0 /\ Len(recorded) = 0
    BY DEF Init
  <2>2. /\ node_index \in [Id -> Nat] /\ edge_index \in [Id -> Nat]
        /\ edge_by_label \in [Label -> SUBSET Id]
        /\ edges_by_from \in [Id -> SUBSET Id] /\ edges_by_to \in [Id -> SUBSET Id]
    BY DEF Init
  <2>3. applied \in 0 .. Len(log) /\ cursor \in 0 .. Len(log) /\ next_local_seq \in Nat \ {0}
    BY <2>1 DEF Init
  <2>4. wired \in BOOLEAN /\ undetached \subseteq Id /\ incident \subseteq Id
    BY Zenon DEF Init
  <2> QED BY <2>1, <2>2, <2>3, <2>4 DEF Init, TypeOK
<1>2. Len(log) = 0 /\ Len(recorded) = 0
  BY DEF Init
<1>3. IndexInv
  <2>1. NodeIndexInv /\ EdgeIndexInv
    BY DEF Init, NodeIndexInv, EdgeIndexInv
  <2>2. BucketsCover /\ BucketsExact
    BY DEF Init, BucketsCover, BucketsExact, has_edge
  <2>3. SchemaInv
    BY DEF Init, SchemaInv, SchemaInForce
  <2> QED BY <2>1, <2>2, <2>3 DEF IndexInv
<1>4. StatusInv /\ CascadeInv /\ CursorInv
  BY DEF Init, StatusInv, Serving, CascadeInv, CursorInv, ReplayComplete
<1>5. SeqInv /\ RecordedInv /\ ForeshadowInv /\ LegalInv
  BY <1>2 DEF Init, SeqInv, SeqIncreasing, RecordedInv, ForeshadowInv, LegalInv, LogLegal
<1>6. DanglingInv
  BY <1>2 DEF Init, DanglingInv, EndpointsLive
<1> QED BY <1>1, <1>3, <1>4, <1>5, <1>6 DEF IInv

\* Every step, one handler at a time.
LEMMA NextIInv ==
    ASSUME IInv, [Next]_vars
    PROVE  IInv'
<1>1. CASE \E id \in Id, label \in Label, p \in PropertyMap : insert_node(id, label, p)
  BY <1>1, InsertNodeStep
<1>2. CASE \E id, from, to \in Id, label \in Label, p \in PropertyMap :
              insert_edge(id, label, from, to, p)
  BY <1>2, InsertEdgeStep
<1>3. CASE \E s \in Schemas : apply_schema(s)
  BY <1>3, OtherCommitSteps
<1>4. CASE \E id \in Id : delete_node(id) \/ delete_edge(id)
  BY <1>4, OtherCommitSteps
<1>5. CASE \E id \in Id : StartCascade(id)
  BY <1>5, StartCascadeStep
<1>6. CASE \E id \in Id : CascadeEdge(id)
  BY <1>6, CascadeEdgeStep
<1>7. CASE CascadeNode
  BY <1>7, CascadeNodeStep
<1>8. CASE with_mutation_log \/ StartReplay \/ EndReplay
  BY <1>8, WiringStep
<1>9. CASE ReplayFrame
  BY <1>9, ReplayFrameStep
<1>10. CASE Crash
  BY <1>10, CrashStep
<1>11. CASE open_with
  BY <1>11, OpenStep
<1>12. CASE RecoverFrame
  BY <1>12, RecoverFrameStep
<1>13. CASE RecoverDone
  BY <1>13, RecoverDoneStep
<1>14. CASE UNCHANGED vars
  <2>1. /\ IndexInv' /\ SeqInv' /\ ForeshadowInv' /\ LegalInv' /\ RecordedInv' /\ DanglingInv'
    BY <1>14, SameStore DEF vars, indexes
  <2>2. TypeOK' /\ StatusInv' /\ CascadeInv' /\ CursorInv'
    BY <1>14 DEF vars, IInv, TypeOK, StatusInv, Serving, CascadeInv, CursorInv, ReplayComplete
  <2> QED BY <2>1, <2>2 DEF IInv
<1> QED
  BY <1>1, <1>2, <1>3, <1>4, <1>5, <1>6, <1>7, <1>8, <1>9, <1>10, <1>11, <1>12, <1>13, <1>14
     DEF Next

\* The inductive invariant holds of every behaviour of the engine.
THEOREM Invariance == Spec => []IInv
<1>1. Init => IInv
  BY InitIInv
<1>2. IInv /\ [Next]_vars => IInv'
  BY NextIInv
<1> QED BY <1>1, <1>2, PTL DEF Spec

\* Lookups of a serving engine, in terms of the log.
LEMMA Lookups ==
    ASSUME IInv, Serving
    PROVE  /\ iter_nodes = LiveNodes
           /\ \A e : e \in LiveEdges <=> \E x \in Id : has_edge(x) /\ e = read_op_at(edge_index[x])
           /\ \A ids \in SUBSET Id : \A e : e \in materialize_edges(ids) <=>
                 \E x \in Id : x \in ids /\ has_edge(x) /\ e = read_op_at(edge_index[x])
           /\ \A x \in Id : has_edge(x) =>
                 /\ read_op_at(edge_index[x]).label \in Label
                 /\ read_op_at(edge_index[x]).from \in Id
                 /\ read_op_at(edge_index[x]).to \in Id
<1> DEFINE n == Len(log)
<1>1. /\ applied = n /\ n \in Nat /\ log \in Seq(Mutation)
      /\ NodeIndexInv /\ EdgeIndexInv
      /\ node_index \in [Id -> Nat] /\ edge_index \in [Id -> Nat]
  BY DEF IInv, TypeOK, StatusInv, IndexInv
<1>2. /\ \A id \in Id : has_node(id) => NodeLiveAt(log, id, node_index[id], n)
                                        /\ node_index[id] \in 1 .. n
      /\ \A id \in Id : \A i \in 1 .. n : NodeLiveAt(log, id, i, n) =>
                                            has_node(id) /\ node_index[id] = i
  BY <1>1 DEF NodeIndexInv, has_node
<1>3. /\ \A id \in Id : has_edge(id) => EdgeLiveAt(log, id, edge_index[id], n)
                                        /\ edge_index[id] \in 1 .. n
      /\ \A id \in Id : \A i \in 1 .. n : EdgeLiveAt(log, id, i, n) =>
                                            has_edge(id) /\ edge_index[id] = i
  BY <1>1 DEF EdgeIndexInv, has_edge
<1>4. iter_nodes = LiveNodes
  <2>1. ASSUME NEW e \in iter_nodes PROVE e \in LiveNodes
    <3>1. PICK id \in Id : has_node(id) /\ e = log[node_index[id]].op
      BY <2>1 DEF iter_nodes, read_op_at
    <3>2. node_index[id] \in {k \in 1 .. Len(log) : \E x \in Id : NodeLiveAt(log, x, k, Len(log))}
      BY <1>2, <3>1
    <3> QED BY <3>1, <3>2 DEF LiveNodes
  <2>2. ASSUME NEW e \in LiveNodes PROVE e \in iter_nodes
    <3>1. PICK i \in 1 .. n : e = log[i].op /\ \E id \in Id : NodeLiveAt(log, id, i, n)
      BY <2>2 DEF LiveNodes
    <3>2. PICK id \in Id : NodeLiveAt(log, id, i, n)
      BY <3>1
    <3> QED BY <1>2, <3>1, <3>2 DEF iter_nodes, read_op_at
  <2> QED BY <2>1, <2>2
<1>5. ASSUME NEW e
      PROVE  e \in LiveEdges <=> \E x \in Id : has_edge(x) /\ e = read_op_at(edge_index[x])
  <2>1. ASSUME NEW x \in Id, has_edge(x), e = read_op_at(edge_index[x]) PROVE e \in LiveEdges
    <3>1. edge_index[x] \in {k \in 1 .. Len(log) : \E y \in Id : EdgeLiveAt(log, y, k, Len(log))}
      BY <1>3, <2>1
    <3> QED BY <2>1, <3>1 DEF LiveEdges, read_op_at
  <2>2. ASSUME e \in LiveEdges
        PROVE  \E x \in Id : has_edge(x) /\ e = read_op_at(edge_index[x])
    <3>1. PICK i \in 1 .. n : e = log[i].op /\ \E x \in Id : EdgeLiveAt(log, x, i, n)
      BY <2>2 DEF LiveEdges
    <3>2. PICK x \in Id : EdgeLiveAt(log, x, i, n)
      BY <3>1
    <3> QED BY <1>3, <3>1, <3>2 DEF read_op_at
  <2> QED BY <2>1, <2>2
<1>6. \A ids \in SUBSET Id : \A e : e \in materialize_edges(ids) <=>
          \E x \in Id : x \in ids /\ has_edge(x) /\ e = read_op_at(edge_index[x])
  BY DEF materialize_edges
<1>7. ASSUME NEW x \in Id, has_edge(x)
      PROVE  /\ read_op_at(edge_index[x]).label \in Label
             /\ read_op_at(edge_index[x]).from \in Id
             /\ read_op_at(edge_index[x]).to \in Id
  <2> DEFINE op == log[edge_index[x]].op
  <2>1. log[edge_index[x]] \in Mutation /\ op.type = "EdgeInsert"
    BY <1>1, <1>3, <1>7 DEF EdgeLiveAt
  <2>2. op \in MutationOp
    BY <2>1 DEF Mutation
  <2>3. op \in EdgeInsertOp
    BY <2>1, <2>2 DEF MutationOp, NodeInsertOp, EdgeInsertOp, NodeDeleteOp, EdgeDeleteOp,
       SchemaApplyOp
  <2> QED BY <2>3 DEF EdgeInsertOp, read_op_at
<1> QED BY <1>4, <1>5, <1>6, <1>7

\* With or without read faults, lookups miss nothing.
LEMMA LookupsCover == IInv => NothingHidden
<1> SUFFICES ASSUME IInv, Serving
             PROVE  /\ iter_nodes = LiveNodes
                    /\ iter_edges = LiveEdges
                    /\ \A e \in LiveEdges :
                          /\ e \in iter_edges_by_label(e.label)
                          /\ e \in iter_edges_from(e.from)
                          /\ e \in iter_edges_from_with_label(e.from, e.label)
                          /\ e \in iter_edges_incident_to(e.to)
  BY DEF NothingHidden
<1>1. /\ edge_by_label \in [Label -> SUBSET Id]
      /\ edges_by_from \in [Id -> SUBSET Id] /\ edges_by_to \in [Id -> SUBSET Id]
      /\ BucketsCover
  BY DEF IInv, TypeOK, IndexInv
<1>2. iter_nodes = LiveNodes
  BY Lookups
<1>3. iter_edges = LiveEdges
  <2>1. Id \in SUBSET Id
    OBVIOUS
  <2> QED BY <2>1, Lookups DEF iter_edges
<1>4. ASSUME NEW e \in LiveEdges
      PROVE  /\ e \in iter_edges_by_label(e.label)
             /\ e \in iter_edges_from(e.from)
             /\ e \in iter_edges_from_with_label(e.from, e.label)
             /\ e \in iter_edges_incident_to(e.to)
  <2>1. PICK x \in Id : has_edge(x) /\ e = read_op_at(edge_index[x])
    BY Lookups
  <2>2. e.label \in Label /\ e.from \in Id /\ e.to \in Id
    BY <2>1, Lookups
  <2>3. x \in edge_by_label[e.label] /\ x \in edges_by_from[e.from] /\ x \in edges_by_to[e.to]
    BY <1>1, <2>1 DEF BucketsCover
  <2>4. /\ edge_by_label[e.label] \in SUBSET Id
        /\ edges_by_from[e.from] \in SUBSET Id
        /\ edges_by_from[e.from] \cap edge_by_label[e.label] \in SUBSET Id
        /\ edges_by_from[e.to] \cup edges_by_to[e.to] \in SUBSET Id
    BY <1>1, <2>2
  <2> QED BY <2>1, <2>3, <2>4, Lookups DEF iter_edges_by_label, iter_edges_from,
             iter_edges_from_with_label, iter_edges_incident_to
<1> QED BY <1>2, <1>3, <1>4

\* Without read faults, lookups also return nothing else.
LEMMA LookupsExact == IInv /\ ~ReadFaults => ReadsExact
<1> SUFFICES ASSUME IInv, ~ReadFaults, Serving
             PROVE  /\ iter_nodes = LiveNodes
                    /\ iter_edges = LiveEdges
                    /\ \A l \in Label : iter_edges_by_label(l) = {e \in LiveEdges : e.label = l}
                    /\ \A id \in Id :
                          /\ iter_edges_from(id) = {e \in LiveEdges : e.from = id}
                          /\ iter_edges_incident_to(id) = {e \in LiveEdges : id \in {e.from, e.to}}
                          /\ \A l \in Label : iter_edges_from_with_label(id, l)
                                  = {e \in LiveEdges : e.from = id /\ e.label = l}
  BY DEF ReadsExact
<1>1. /\ edge_by_label \in [Label -> SUBSET Id]
      /\ edges_by_from \in [Id -> SUBSET Id] /\ edges_by_to \in [Id -> SUBSET Id]
      /\ BucketsCover /\ BucketsExact
  BY DEF IInv, TypeOK, IndexInv
<1>2. iter_nodes = LiveNodes /\ iter_edges = LiveEdges
  BY LookupsCover DEF NothingHidden
<1>3. ASSUME NEW x \in Id, has_edge(x)
      PROVE  /\ \A l \in Label : x \in edge_by_label[l] <=> read_op_at(edge_index[x]).label = l
             /\ \A k \in Id : x \in edges_by_from[k] <=> read_op_at(edge_index[x]).from = k
             /\ \A k \in Id : x \in edges_by_to[k] <=> read_op_at(edge_index[x]).to = k
  BY <1>1, <1>3 DEF BucketsCover, BucketsExact
<1>4. ASSUME NEW l \in Label
      PROVE  iter_edges_by_label(l) = {e \in LiveEdges : e.label = l}
  <2>1. edge_by_label[l] \in SUBSET Id
    BY <1>1
  <2> QED BY <1>3, <2>1, Lookups DEF iter_edges_by_label
<1>5. ASSUME NEW id \in Id
      PROVE  iter_edges_from(id) = {e \in LiveEdges : e.from = id}
  <2>1. edges_by_from[id] \in SUBSET Id
    BY <1>1
  <2> QED BY <1>3, <2>1, Lookups DEF iter_edges_from
<1>6. ASSUME NEW id \in Id
      PROVE  iter_edges_incident_to(id) = {e \in LiveEdges : id \in {e.from, e.to}}
  <2>1. edges_by_from[id] \cup edges_by_to[id] \in SUBSET Id
    BY <1>1
  <2>2. \A e : e \in iter_edges_incident_to(id) <=>
            \E x \in Id : /\ x \in edges_by_from[id] \cup edges_by_to[id]
                        /\ has_edge(x) /\ e = read_op_at(edge_index[x])
    BY <2>1, Lookups DEF iter_edges_incident_to
  <2>3. \A x \in Id : has_edge(x) => (x \in edges_by_from[id] \cup edges_by_to[id] <=>
            id \in {read_op_at(edge_index[x]).from, read_op_at(edge_index[x]).to})
    BY <1>3
  <2>4. \A e : e \in LiveEdges <=> \E x \in Id : has_edge(x) /\ e = read_op_at(edge_index[x])
    BY Lookups
  <2>5. \A e : e \in iter_edges_incident_to(id) <=> e \in LiveEdges /\ id \in {e.from, e.to}
    BY <2>2, <2>3, <2>4, Zenon
  <2> QED BY <2>5
<1>7. ASSUME NEW id \in Id, NEW l \in Label
      PROVE  iter_edges_from_with_label(id, l) = {e \in LiveEdges : e.from = id /\ e.label = l}
  <2>1. edges_by_from[id] \cap edge_by_label[l] \in SUBSET Id
    BY <1>1
  <2> QED BY <1>3, <2>1, Lookups DEF iter_edges_from_with_label
<1> QED BY <1>2, <1>4, <1>5, <1>6, <1>7

\* Only a commit that succeeds moves the log and the tee in one step, and it
\* tees the mutation it has just numbered (commit).
LEMMA TeeingStep ==
    ASSUME IInv, [Next]_vars, log' # log, recorded' # recorded
    PROVE  Serving /\ \E op : recorded' = Append(recorded, NextMutation(op))
<1>1. \A op : CommitErr(op) \/ DiesInCommit(op) => recorded' = recorded
  BY DEF CommitErr, AppendFails, IndexReadFails, DiesInCommit
<1>2. \A op : CommitOk(op) => recorded' = Append(recorded, NextMutation(op))
  BY DEF CommitOk
<1>3. \A op : commit(op) => recorded' = Append(recorded, NextMutation(op))
  BY <1>1, <1>2 DEF commit
<1>4. CASE \E id \in Id, label \in Label, p \in PropertyMap : insert_node(id, label, p)
  BY <1>3, <1>4 DEF insert_node, Serving
<1>5. CASE \E id, from, to \in Id, label \in Label, p \in PropertyMap :
              insert_edge(id, label, from, to, p)
  BY <1>3, <1>5 DEF insert_edge, Serving
<1>6. CASE \E s \in Schemas : apply_schema(s)
  BY <1>3, <1>6 DEF apply_schema, Serving
<1>7. CASE \E id \in Id : delete_node(id) \/ delete_edge(id)
  BY <1>3, <1>7 DEF delete_node, delete_edge, Serving
<1>8. CASE \E id \in Id : CascadeEdge(id)
  BY <1>1, <1>2, <1>8 DEF CascadeEdge, Serving
<1>9. CASE CascadeNode
  BY <1>1, <1>2, <1>9 DEF CascadeNode, Serving
<1>10. ~(\E id \in Id : StartCascade(id)) /\ ~with_mutation_log /\ ~StartReplay /\ ~ReplayFrame
       /\ ~EndReplay /\ ~Crash /\ ~RecoverFrame /\ ~RecoverDone /\ ~open_with
       /\ ~UNCHANGED vars
  BY DEF StartCascade, with_mutation_log, StartReplay, ReplayFrame, EndReplay, Crash, RecoverFrame,
     RecoverDone, open_with, storageVars, vars
<1> QED BY <1>4, <1>5, <1>6, <1>7, <1>8, <1>9, <1>10 DEF Next

\* The number a commit is teed under is above all that were teed before.
LEMMA TeedUpwardStep ==
    ASSUME IInv, [Next]_vars, log' # log, recorded' # recorded,
           NEW k \in 1 .. Len(recorded)
    PROVE  recorded[k].local_seq < recorded'[Len(recorded')].local_seq
<1>1. PICK op : recorded' = Append(recorded, NextMutation(op))
  BY TeeingStep
<1>2. recorded \in Seq(Mutation) /\ applied = Len(log)
  BY TeeingStep DEF IInv, TypeOK, StatusInv
<1>3. PICK i \in 1 .. Len(log) : log[i] = recorded[k]
  BY DEF IInv, RecordedInv
<1>4. log[i].local_seq < next_local_seq
  BY <1>2 DEF IInv, SeqInv
<1>5. Len(recorded') = Len(recorded) + 1 /\ recorded'[Len(recorded')] = NextMutation(op)
  BY <1>1, <1>2
<1>6. NextMutation(op).local_seq = next_local_seq
  BY DEF NextMutation
<1> QED BY <1>3, <1>4, <1>5, <1>6

\* The types of the engine's state, whatever fails and whenever.
THEOREM TypeCorrect == Spec => []TypeOK
<1>1. IInv => TypeOK
  BY DEF IInv
<1> QED BY <1>1, Invariance, PTL

\* The durable log holds only operations that were legal where they stand.
THEOREM DurableLogLegal == Spec => []LogLegal
<1>1. IInv => LogLegal
  BY DEF IInv, LegalInv
<1> QED BY <1>1, Invariance, PTL

\* Every insert in the durable log carries a label and property types that the
\* schema in force before it declares (validate_label, validate_properties).
THEOREM InsertsDeclaredAndTyped == Spec => []DeclaredAndTyped
<1>1. LogLegal => DeclaredAndTyped
  <2> SUFFICES ASSUME LogLegal,
                      NEW i \in 1 .. Len(log), NEW s \in Schemas,
                      log[i].op.type \in {"NodeInsert", "EdgeInsert"},
                      SchemaInForce(log, s, i - 1)
               PROVE  /\ log[i].op.label \in DOMAIN s.tables
                      /\ \A name \in DOMAIN log[i].op.properties :
                            name \in DOMAIN s.tables[log[i].op.label] =>
                                log[i].op.properties[name]
                                    \in {Null, s.tables[log[i].op.label][name]}
    BY DEF DeclaredAndTyped
  <2>1. OpLegal(log, log[i].op, i - 1)
    BY DEF LogLegal
  <2>2. Conforms(s, log[i].op.label, log[i].op.properties)
    BY <2>1 DEF OpLegal
  <2>3. s # NoSchema
    BY EngineAssumption
  <2> QED
    BY <2>2, <2>3 DEF Conforms, validate_label, validate_properties, has_label, matches
<1> QED BY <1>1, DurableLogLegal, PTL

\* Sequence numbers strictly increase along the durable log.
THEOREM SequenceNumbersIncrease == Spec => []SeqIncreasing
<1>1. IInv => SeqIncreasing
  BY DEF IInv, SeqInv
<1> QED BY <1>1, Invariance, PTL

\* A cascade never leaves an edge without its endpoints, at whatever point it
\* fails or the process dies (delete_node_with_cascade).
THEOREM CascadeLeavesNoDanglingEdge == Spec => []NoDanglingEdges
<1>1. IInv => NoDanglingEdges
  BY DEF IInv, DanglingInv, NoDanglingEdges
<1> QED BY <1>1, Invariance, PTL

\* What the controller side was handed is durable under a number of its own.
THEOREM TeeFollowsLog == Spec => []TeedIsDurable
<1>1. IInv => TeedIsDurable
  <2> SUFFICES ASSUME IInv, NEW k \in 1 .. Len(recorded)
               PROVE  \E i \in 1 .. Len(log) :
                         /\ log[i] = recorded[k]
                         /\ \A j \in 1 .. Len(log) : log[j].local_seq = log[i].local_seq => j = i
    BY DEF TeedIsDurable
  <2>1. PICK i \in 1 .. Len(log) : log[i] = recorded[k]
    BY DEF IInv, RecordedInv
  <2>2. \A j \in 1 .. Len(log) : log[j].local_seq \in Nat
    <3>1. log \in Seq(Mutation)
      BY DEF IInv, TypeOK
    <3>2. \A j \in 1 .. Len(log) : log[j] \in Mutation
      BY <3>1
    <3> QED BY <3>2 DEF Mutation
  <2>3. \A j \in 1 .. Len(log) : log[j].local_seq = log[i].local_seq => j = i
    BY <2>2 DEF IInv, SeqInv, SeqIncreasing
  <2> QED BY <2>1, <2>3
<1> QED BY <1>1, Invariance, PTL

\* A replay leaves out no frame it has walked (replay_unconfirmed).
THEOREM ReplayLeavesNothingOut == Spec => []ReplayComplete
<1>1. IInv => ReplayComplete
  BY DEF IInv, CursorInv
<1> QED BY <1>1, Invariance, PTL

\* Whatever read fails, a lookup misses no live node or edge.
THEOREM LookupsMissNothing == Spec => []NothingHidden
<1> QED BY LookupsCover, Invariance, PTL

\* When reads do not fail, a lookup returns exactly the live nodes and edges.
THEOREM LookupsReturnExactly == ASSUME ~ReadFaults PROVE Spec => []ReadsExact
<1>1. IInv => ReadsExact
  BY LookupsExact
<1> QED BY <1>1, Invariance, PTL

\* Commits are teed under ever greater numbers, over all lives of the store.
THEOREM TeeGoesUpward == Spec => TeedUpward
<1>1. IInv /\ [Next]_vars =>
        [log' # log /\ recorded' # recorded =>
            \A k \in 1 .. Len(recorded) :
                recorded[k].local_seq < recorded'[Len(recorded')].local_seq]_vars
  BY TeedUpwardStep
<1> QED BY <1>1, Invariance, PTL DEF Spec, TeedUpward

\* A commit, whatever its outcome, is one step of the record log.
LEMMA StorageCommit ==
    ASSUME TypeOK, NEW op \in MutationOp, CommitOk(op) \/ CommitErr(op) \/ DiesInCommit(op)
    PROVE  Storage!Next \/ UNCHANGED storageVars
<1>1. WithinBounds
  BY DEF CommitOk, CommitErr, AppendFails, IndexReadFails, DiesInCommit
<1>2. next_local_seq \in 1 .. MaxSeq
  BY <1>1, EngineAssumption DEF WithinBounds, TypeOK
<1>3. NextMutation(op) \in Appendable
  BY <1>2 DEF NextMutation, Appendable
<1>4. CASE CommitOk(op)
  BY <1>3, <1>4 DEF CommitOk, Storage!Next, Storage!Append_ok
<1>5. CASE IndexReadFails(op)
  BY <1>3, <1>5 DEF IndexReadFails, Storage!Next, Storage!Append_ok
<1>6. CASE AppendFails(op)
  BY <1>3, <1>6 DEF AppendFails, Storage!Next, Storage!Append_err, storageVars
<1>7. CASE DiesInCommit(op)
  BY <1>3, <1>7 DEF DiesInCommit, Storage!Next, Storage!Append_err
<1> QED BY <1>4, <1>5, <1>6, <1>7 DEF CommitErr

\* Every step of the engine is a step of the record log or leaves it alone.
LEMMA StorageStep ==
    ASSUME IInv, Next
    PROVE  Storage!Next \/ UNCHANGED storageVars
<1> USE DEF storageVars
<1>1. TypeOK
  BY DEF IInv
<1>2. \A op \in MutationOp :
         CommitOk(op) \/ CommitErr(op) \/ DiesInCommit(op) =>
             Storage!Next \/ UNCHANGED storageVars
  BY <1>1, StorageCommit
<1>3. ASSUME NEW op \in MutationOp, commit(op)
      PROVE  Storage!Next \/ UNCHANGED storageVars
  BY <1>2, <1>3 DEF commit
<1>4. ASSUME NEW id \in Id, NEW label \in Label, NEW p \in PropertyMap,
             insert_node(id, label, p)
      PROVE  Storage!Next \/ UNCHANGED storageVars
  <2>1. [type |-> "NodeInsert", id |-> id, label |-> label, properties |-> p] \in MutationOp
    BY DEF MutationOp, NodeInsertOp
  <2> QED BY <2>1, <1>3, <1>4 DEF insert_node
<1>5. ASSUME NEW id \in Id, NEW from \in Id, NEW to \in Id, NEW label \in Label,
             NEW p \in PropertyMap, insert_edge(id, label, from, to, p)
      PROVE  Storage!Next \/ UNCHANGED storageVars
  <2>1. [type |-> "EdgeInsert", id |-> id, label |-> label, from |-> from, to |-> to,
         properties |-> p] \in MutationOp
    BY DEF MutationOp, EdgeInsertOp
  <2> QED BY <2>1, <1>3, <1>5 DEF insert_edge
<1>6. ASSUME NEW s \in Schemas, apply_schema(s)
      PROVE  Storage!Next \/ UNCHANGED storageVars
  <2>1. [type |-> "SchemaApply", schema |-> s] \in MutationOp
    BY DEF MutationOp, SchemaApplyOp
  <2> QED BY <2>1, <1>3, <1>6 DEF apply_schema
<1>7. ASSUME NEW id \in Id
      PROVE  /\ [type |-> "NodeDelete", id |-> id] \in MutationOp
             /\ [type |-> "EdgeDelete", id |-> id] \in MutationOp
  BY DEF MutationOp, NodeDeleteOp, EdgeDeleteOp
<1>8. ASSUME NEW id \in Id, delete_node(id) \/ delete_edge(id)
      PROVE  Storage!Next \/ UNCHANGED storageVars
  BY <1>3, <1>7, <1>8 DEF delete_node, delete_edge
<1>9. ASSUME NEW id \in Id, StartCascade(id) \/ CascadeEdge(id)
      PROVE  Storage!Next \/ UNCHANGED storageVars
  BY <1>2, <1>7, <1>9, Zenon DEF StartCascade, CascadeEdge
<1>10. ASSUME CascadeNode
       PROVE  Storage!Next \/ UNCHANGED storageVars
  <2>1. doomed \in Id
    BY <1>10 DEF IInv, CascadeInv, CascadeNode
  <2> QED BY <2>1, <1>2, <1>7, <1>10, Zenon DEF CascadeNode
<1>11. with_mutation_log \/ StartReplay \/ ReplayFrame \/ EndReplay \/ Crash
          \/ RecoverFrame \/ RecoverDone => UNCHANGED storageVars
  BY DEF with_mutation_log, StartReplay, ReplayFrame, EndReplay, Crash, RecoverFrame,
         RecoverDone
<1>12. open_with => Storage!Next
  BY DEF open_with, Storage!Next, Storage!Recover
<1> QED BY <1>4, <1>5, <1>6, <1>8, <1>9, <1>10, <1>11, <1>12 DEF Next

\* The engine uses its storage as the record log that LogStore implements.
THEOREM EngineUsesRecordLog == Spec => UsesRecordLog
<1>1. Init => Storage!Init
  BY DEF Init, Storage!Init
<1>2. IInv /\ [Next]_vars => [Storage!Next]_<<log, stray>>
  BY StorageStep DEF vars, storageVars
<1> QED BY <1>1, <1>2, Invariance, PTL DEF Spec, UsesRecordLog, Storage!Spec
=============================================================================
