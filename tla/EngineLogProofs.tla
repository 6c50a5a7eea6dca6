-------------------------- MODULE EngineLogProofs ---------------------------
(* What a log means when it grows by a frame, and why the indexes of Engine    *)
(* keep up with it.  Everything holds for every choice of the constants.       *)
EXTENDS Engine, TLAPS

-----------------------------------------------------------------------------
(* Facts about logs.  They are stated for arbitrary logs so that they can be   *)
(* used of the log before and after a step.                                    *)

\* A node is inserted and alive at most once in a prefix (NodeLiveAt).
LEMMA NodeLiveUnique ==
    ASSUME NEW l, NEW n \in Nat, NEW id, NEW i, NEW j,
           NodeLiveAt(l, id, i, n), NodeLiveAt(l, id, j, n)
    PROVE  i = j
BY DEF NodeLiveAt, is_node

\* The same for edges (EdgeLiveAt).
LEMMA EdgeLiveUnique ==
    ASSUME NEW l, NEW n \in Nat, NEW id, NEW i, NEW j,
           EdgeLiveAt(l, id, i, n), EdgeLiveAt(l, id, j, n)
    PROVE  i = j
BY DEF EdgeLiveAt, is_edge

\* What one more frame does to the live nodes (the NodeInsert and NodeDelete arms
\* of update_indexes_for, seen on the log).
LEMMA NodeLiveStep ==
    ASSUME NEW l, NEW n \in Nat, NEW id, NEW i
    PROVE  NodeLiveAt(l, id, i, n + 1) <=>
              \/ /\ i = n + 1
                 /\ l[n + 1].op.type = "NodeInsert"
                 /\ l[n + 1].op.id = id
              \/ /\ NodeLiveAt(l, id, i, n)
                 /\ ~(is_node(l[n + 1].op) /\ l[n + 1].op.id = id)
BY DEF NodeLiveAt, is_node

\* What one more frame does to the live edges.
LEMMA EdgeLiveStep ==
    ASSUME NEW l, NEW n \in Nat, NEW id, NEW i
    PROVE  EdgeLiveAt(l, id, i, n + 1) <=>
              \/ /\ i = n + 1
                 /\ l[n + 1].op.type = "EdgeInsert"
                 /\ l[n + 1].op.id = id
              \/ /\ EdgeLiveAt(l, id, i, n)
                 /\ ~(is_edge(l[n + 1].op) /\ l[n + 1].op.id = id)
BY DEF EdgeLiveAt, is_edge

\* What one more frame does to the schema in force.
LEMMA SchemaStep ==
    ASSUME NEW l, NEW n \in Nat, NEW s
    PROVE  /\ l[n + 1].op.type # "SchemaApply" /\ SchemaInForce(l, s, n)
                => SchemaInForce(l, s, n + 1)
           /\ l[n + 1].op.type = "SchemaApply" /\ s = l[n + 1].op.schema
                => SchemaInForce(l, s, n + 1)
<1>1. CASE l[n + 1].op.type # "SchemaApply"
  BY <1>1 DEF SchemaInForce
<1>2. CASE l[n + 1].op.type = "SchemaApply"
  BY <1>2 DEF SchemaInForce
<1> QED BY <1>1, <1>2

\* There is at most one schema in force.
LEMMA SchemaUnique ==
    ASSUME NEW l, NEW n \in Nat, NEW s, NEW t,
           SchemaInForce(l, s, n), SchemaInForce(l, t, n)
    PROVE  s = t
BY DEF SchemaInForce

\* Logs that agree on their first n frames agree on what those frames mean.
LEMMA SamePrefix ==
    ASSUME NEW l, NEW k, NEW n \in Nat, \A i \in 1 .. n : l[i] = k[i]
    PROVE  /\ \A id, i : NodeLiveAt(l, id, i, n) <=> NodeLiveAt(k, id, i, n)
           /\ \A id, i : EdgeLiveAt(l, id, i, n) <=> EdgeLiveAt(k, id, i, n)
           /\ \A id : NodeLive(l, id, n) <=> NodeLive(k, id, n)
           /\ \A id : EdgeLive(l, id, n) <=> EdgeLive(k, id, n)
           /\ \A s : SchemaInForce(l, s, n) <=> SchemaInForce(k, s, n)
           /\ \A op : OpLegal(l, op, n) <=> OpLegal(k, op, n)
<1>1. \A id, i : NodeLiveAt(l, id, i, n) <=> NodeLiveAt(k, id, i, n)
  BY DEF NodeLiveAt
<1>2. \A id, i : EdgeLiveAt(l, id, i, n) <=> EdgeLiveAt(k, id, i, n)
  BY DEF EdgeLiveAt
<1>3. \A id : NodeLive(l, id, n) <=> NodeLive(k, id, n)
  BY <1>1 DEF NodeLive
<1>4. \A id : EdgeLive(l, id, n) <=> EdgeLive(k, id, n)
  BY <1>2 DEF EdgeLive
<1>5. \A s : SchemaInForce(l, s, n) <=> SchemaInForce(k, s, n)
  BY DEF SchemaInForce
<1>6. \A op : OpLegal(l, op, n) <=> OpLegal(k, op, n)
  BY <1>3, <1>4, <1>5 DEF OpLegal
<1> QED BY <1>1, <1>2, <1>3, <1>4, <1>5, <1>6

\* A legal log and a legal next operation make a legal log (commit, and
\* open_with when it finds a frame beyond the end).
LEMMA LegalAppend ==
    ASSUME NEW l \in Seq(Mutation), NEW m \in Mutation,
           \A i \in 1 .. Len(l) : OpLegal(l, l[i].op, i - 1),
           OpLegal(l, m.op, Len(l))
    PROVE  \A i \in 1 .. Len(Append(l, m)) :
              OpLegal(Append(l, m), Append(l, m)[i].op, i - 1)
<1> DEFINE k == Append(l, m)
<1>1. /\ Len(k) = Len(l) + 1 /\ Len(l) \in Nat
      /\ \A i \in 1 .. Len(l) : k[i] = l[i]
      /\ k[Len(l) + 1] = m
  OBVIOUS
<1>2. SUFFICES ASSUME NEW i \in 1 .. Len(k)
               PROVE  OpLegal(k, k[i].op, i - 1)
  OBVIOUS
<1>3. /\ i - 1 \in Nat
      /\ \A j \in 1 .. i - 1 : l[j] = k[j]
  BY <1>1
<1> HIDE DEF k
<1>4. \A op : OpLegal(l, op, i - 1) <=> OpLegal(k, op, i - 1)
  BY <1>3, SamePrefix, Zenon
<1>5. CASE i = Len(l) + 1
  BY <1>1, <1>4, <1>5
<1>6. CASE i \in 1 .. Len(l)
  BY <1>1, <1>4, <1>6
<1> QED BY <1>1, <1>5, <1>6

-----------------------------------------------------------------------------
(* Publishing a frame.                                                         *)

\* Publishing the next legal frame keeps the indexes in step with the log,
\* whether the frame was just committed or is being recovered: both go through
\* update_indexes_for.
LEMMA Publish ==
    ASSUME TypeOK, IndexInv,
           log' \in Seq(Mutation), applied < Len(log'), applied' = applied + 1,
           \A i \in 1 .. applied : log'[i] = log[i],
           OpLegal(log', log'[applied + 1].op, applied),
           update_indexes_for(log'[applied + 1].op, applied + 1)
    PROVE  IndexInv'
<1> DEFINE n == applied
           op == log'[n + 1].op
<1>0. /\ n \in Nat /\ n \in 0 .. Len(log) /\ n + 1 \in 1 .. Len(log')
      /\ log \in Seq(Mutation)
      /\ node_index \in [Id -> Nat] /\ edge_index \in [Id -> Nat]
      /\ edge_by_label \in [Label -> SUBSET Id]
      /\ edges_by_from \in [Id -> SUBSET Id] /\ edges_by_to \in [Id -> SUBSET Id]
      /\ n = applied /\ applied' = n + 1
  BY DEF TypeOK
<1>a. log'[n + 1] \in Mutation
  BY <1>0
<1>1. op \in MutationOp /\ op = log'[n + 1].op
  BY <1>a DEF Mutation
<1>b. /\ op.type = "NodeInsert" => op \in NodeInsertOp
      /\ op.type = "EdgeInsert" => op \in EdgeInsertOp
      /\ op.type = "NodeDelete" => op \in NodeDeleteOp
      /\ op.type = "EdgeDelete" => op \in EdgeDeleteOp
      /\ op.type = "SchemaApply" => op \in SchemaApplyOp
  BY <1>1 DEF MutationOp, NodeInsertOp, EdgeInsertOp, NodeDeleteOp, EdgeDeleteOp, SchemaApplyOp
<1>c. OpLegal(log', op, n) /\ update_indexes_for(op, n + 1)
  OBVIOUS
<1>d. NodeIndexInv /\ EdgeIndexInv /\ BucketsCover /\ BucketsExact /\ SchemaInv
  BY DEF IndexInv
<1>e. \A i \in 1 .. n : log'[i] = log[i]
  OBVIOUS
<1> HIDE DEF n, op
<1>2. /\ \A id, i : NodeLiveAt(log', id, i, n) <=> NodeLiveAt(log, id, i, n)
      /\ \A id, i : EdgeLiveAt(log', id, i, n) <=> EdgeLiveAt(log, id, i, n)
      /\ \A s : SchemaInForce(log', s, n) <=> SchemaInForce(log, s, n)
  BY <1>0, <1>e, SamePrefix, Zenon
<1>3. \A id, i : NodeLiveAt(log', id, i, n + 1) <=>
              \/ i = n + 1 /\ op.type = "NodeInsert" /\ op.id = id
              \/ NodeLiveAt(log, id, i, n) /\ ~(is_node(op) /\ op.id = id)
  BY <1>0, <1>1, <1>2, NodeLiveStep, Zenon
<1>4. \A id, i : EdgeLiveAt(log', id, i, n + 1) <=>
              \/ i = n + 1 /\ op.type = "EdgeInsert" /\ op.id = id
              \/ EdgeLiveAt(log, id, i, n) /\ ~(is_edge(op) /\ op.id = id)
  BY <1>0, <1>1, <1>2, EdgeLiveStep, Zenon
<1>5. \A id \in Id : EdgeLive(log', id, n) <=> has_edge(id)
  BY <1>0, <1>2, <1>d DEF EdgeLive, EdgeIndexInv, has_edge
<1>6. \A id \in Id : has_edge(id) =>
          /\ edge_index[id] \in 1 .. n
          /\ log'[edge_index[id]] = log[edge_index[id]]
          /\ log[edge_index[id]].op \in EdgeInsertOp
          /\ log[edge_index[id]].op.id = id
  <2> SUFFICES ASSUME NEW id \in Id, has_edge(id)
               PROVE  /\ edge_index[id] \in 1 .. n
                      /\ log'[edge_index[id]] = log[edge_index[id]]
                      /\ log[edge_index[id]].op \in EdgeInsertOp
                      /\ log[edge_index[id]].op.id = id
    OBVIOUS
  <2>1. edge_index[id] \in 1 .. n
    BY <1>0, <1>d DEF EdgeIndexInv, has_edge
  <2>2. EdgeLiveAt(log, id, edge_index[id], n)
    BY <1>0, <1>d, <2>1 DEF EdgeIndexInv
  <2>3. log[edge_index[id]] \in Mutation
    BY <1>0, <2>1
  <2>4. log[edge_index[id]].op \in MutationOp /\ log[edge_index[id]].op.type = "EdgeInsert"
    BY <2>2, <2>3 DEF EdgeLiveAt, Mutation
  <2>5. log[edge_index[id]].op \in EdgeInsertOp
    BY <2>4 DEF MutationOp, NodeInsertOp, EdgeInsertOp, NodeDeleteOp, EdgeDeleteOp, SchemaApplyOp
  <2> QED BY <1>e, <2>1, <2>2, <2>5 DEF EdgeLiveAt
<1>7. NodeIndexInv'
  <2> SUFFICES ASSUME NEW id \in Id
               PROVE  /\ node_index'[id] \in 0 .. n + 1
                      /\ \A i \in 1 .. n + 1 :
                            node_index'[id] = i <=> NodeLiveAt(log', id, i, n + 1)
    BY <1>0 DEF NodeIndexInv
  <2>0. /\ node_index[id] \in 0 .. n
        /\ \A i \in 1 .. n : node_index[id] = i <=> NodeLiveAt(log, id, i, n)
        /\ ~NodeLiveAt(log, id, n + 1, n)
    BY <1>0, <1>d DEF NodeIndexInv, NodeLiveAt
  <2>1. CASE op.type = "NodeInsert"
    <3>1. node_index' = [node_index EXCEPT ![op.id] = n + 1]
      BY <1>c, <2>1 DEF update_indexes_for
    <3> QED BY <1>0, <1>3, <2>0, <2>1, <3>1 DEF is_node
  <2>2. CASE op.type = "NodeDelete"
    <3>1. node_index' = [node_index EXCEPT ![op.id] = 0]
      BY <1>c, <2>2 DEF update_indexes_for
    <3> QED BY <1>0, <1>3, <2>0, <2>2, <3>1 DEF is_node
  <2>3. CASE ~is_node(op)
    <3>1. UNCHANGED node_index
      BY <1>c, <2>3 DEF update_indexes_for, is_node, indexes
    <3> QED BY <1>0, <1>3, <2>0, <2>3, <3>1 DEF is_node
  <2> QED BY <2>1, <2>2, <2>3 DEF is_node
<1>8. EdgeIndexInv'
  <2> SUFFICES ASSUME NEW id \in Id
               PROVE  /\ edge_index'[id] \in 0 .. n + 1
                      /\ \A i \in 1 .. n + 1 :
                            edge_index'[id] = i <=> EdgeLiveAt(log', id, i, n + 1)
    BY <1>0 DEF EdgeIndexInv
  <2>0. /\ edge_index[id] \in 0 .. n
        /\ \A i \in 1 .. n : edge_index[id] = i <=> EdgeLiveAt(log, id, i, n)
        /\ ~EdgeLiveAt(log, id, n + 1, n)
    BY <1>0, <1>d DEF EdgeIndexInv, EdgeLiveAt
  <2>1. CASE op.type = "EdgeInsert"
    <3>1. edge_index' = [edge_index EXCEPT ![op.id] = n + 1]
      BY <1>c, <2>1 DEF update_indexes_for
    <3> QED BY <1>0, <1>4, <2>0, <2>1, <3>1 DEF is_edge
  <2>2. CASE op.type = "EdgeDelete"
    <3>1. edge_index' = [edge_index EXCEPT ![op.id] = 0]
      BY <1>c, <2>2 DEF update_indexes_for
    <3> QED BY <1>0, <1>4, <2>0, <2>2, <3>1 DEF is_edge
  <2>3. CASE ~is_edge(op)
    <3>1. UNCHANGED edge_index
      BY <1>c, <2>3 DEF update_indexes_for, is_edge, indexes
    <3> QED BY <1>0, <1>4, <2>0, <2>3, <3>1 DEF is_edge
  <2> QED BY <2>1, <2>2, <2>3 DEF is_edge
<1>9. BucketsCover' /\ BucketsExact'
  <2>1. CASE op.type = "EdgeInsert"
    <3>1. /\ op.id \in Id /\ op.label \in Label /\ op.from \in Id /\ op.to \in Id
          /\ op = log'[n + 1].op
      BY <1>1, <1>b, <2>1 DEF EdgeInsertOp
    <3>2. /\ edge_index' = [edge_index EXCEPT ![op.id] = n + 1]
          /\ edge_by_label' = [edge_by_label EXCEPT ![op.label] = @ \cup {op.id}]
          /\ edges_by_from' = [edges_by_from EXCEPT ![op.from] = @ \cup {op.id}]
          /\ edges_by_to' = [edges_by_to EXCEPT ![op.to] = @ \cup {op.id}]
      BY <1>c, <2>1, Zenon DEF update_indexes_for, insert_into_index
    <3>3. ~has_edge(op.id)
      BY <1>5, <1>c, <2>1, <3>1 DEF OpLegal
    <3>4. /\ \A x \in Id : edge_index'[x] = IF x = op.id THEN n + 1 ELSE edge_index[x]
          /\ \A k \in Label, x \in Id : x \in edge_by_label'[k] <=>
                x \in edge_by_label[k] \/ (k = op.label /\ x = op.id)
          /\ \A k \in Id, x \in Id : x \in edges_by_from'[k] <=>
                x \in edges_by_from[k] \/ (k = op.from /\ x = op.id)
          /\ \A k \in Id, x \in Id : x \in edges_by_to'[k] <=>
                x \in edges_by_to[k] \/ (k = op.to /\ x = op.id)
      BY <1>0, <3>1, <3>2, Zenon
    <3>5. \A x \in Id : x # op.id =>
              /\ edge_index'[x] # 0 <=> edge_index[x] # 0
              /\ edge_index[x] # 0 => log'[edge_index'[x]].op = log[edge_index[x]].op
                                  /\ log[edge_index[x]].op \in EdgeInsertOp
      BY <1>6, <3>4 DEF has_edge, read_op_at
    <3>6. edge_index'[op.id] # 0 /\ log'[edge_index'[op.id]].op = op
      <4>1. edge_index'[op.id] = n + 1
        BY <3>1, <3>4
      <4> QED BY <1>0, <3>1, <4>1
    <3>7. BucketsCover'
      <4> SUFFICES ASSUME NEW x \in Id, edge_index'[x] # 0
                   PROVE  /\ x \in edge_by_label'[log'[edge_index'[x]].op.label]
                          /\ x \in edges_by_from'[log'[edge_index'[x]].op.from]
                          /\ x \in edges_by_to'[log'[edge_index'[x]].op.to]
        BY DEF BucketsCover, has_edge, read_op_at
      <4>1. CASE x = op.id
        BY <3>1, <3>4, <3>6, <4>1, Zenon
      <4>2. CASE x # op.id
        <5> DEFINE r == log[edge_index[x]].op
        <5>1. /\ edge_index[x] # 0
              /\ log'[edge_index'[x]].op = r
              /\ r.label \in Label /\ r.from \in Id /\ r.to \in Id
          BY <3>5, <4>2 DEF EdgeInsertOp
        <5>2. x \in edge_by_label[r.label] /\ x \in edges_by_from[r.from] /\ x \in edges_by_to[r.to]
          BY <1>d, <5>1 DEF BucketsCover, has_edge, read_op_at
        <5> HIDE DEF r
        <5> QED BY <3>4, <5>1, <5>2
      <4> QED BY <4>1, <4>2
    <3>8. BucketsExact'
      <4> SUFFICES ASSUME ~ReadFaults, NEW x \in Id
                   PROVE  /\ \A l \in Label : x \in edge_by_label'[l] =>
                                edge_index'[x] # 0 /\ log'[edge_index'[x]].op.label = l
                          /\ \A y \in Id : x \in edges_by_from'[y] =>
                                edge_index'[x] # 0 /\ log'[edge_index'[x]].op.from = y
                          /\ \A y \in Id : x \in edges_by_to'[y] =>
                                edge_index'[x] # 0 /\ log'[edge_index'[x]].op.to = y
        BY DEF BucketsExact, has_edge, read_op_at
      <4>0. /\ \A l \in Label : x \in edge_by_label[l] =>
                  edge_index[x] # 0 /\ log[edge_index[x]].op.label = l
            /\ \A y \in Id : x \in edges_by_from[y] =>
                  edge_index[x] # 0 /\ log[edge_index[x]].op.from = y
            /\ \A y \in Id : x \in edges_by_to[y] =>
                  edge_index[x] # 0 /\ log[edge_index[x]].op.to = y
        BY <1>d DEF BucketsExact, has_edge, read_op_at
      <4>1. CASE x = op.id
        <5>1. edge_index[x] = 0
          BY <3>3, <4>1 DEF has_edge
        <5> QED BY <3>4, <3>6, <4>0, <4>1, <5>1
      <4>2. CASE x # op.id
        <5>1. /\ edge_index'[x] # 0 <=> edge_index[x] # 0
              /\ edge_index[x] # 0 => log'[edge_index'[x]].op = log[edge_index[x]].op
          BY <3>5, <4>2
        <5>2. /\ \A l \in Label : x \in edge_by_label'[l] => x \in edge_by_label[l]
              /\ \A y \in Id : x \in edges_by_from'[y] => x \in edges_by_from[y]
              /\ \A y \in Id : x \in edges_by_to'[y] => x \in edges_by_to[y]
          BY <3>4, <4>2
        <5> QED BY <4>0, <5>1, <5>2
      <4> QED BY <4>1, <4>2
    <3> QED BY <3>7, <3>8
  <2>2. CASE op.type = "EdgeDelete"
    <3>1. op.id \in Id
      BY <1>b, <2>2 DEF EdgeDeleteOp
    <3>2. has_edge(op.id)
      BY <1>5, <1>c, <2>2, <3>1 DEF OpLegal
    <3>3. edge_index' = [edge_index EXCEPT ![op.id] = 0]
      BY <1>c, <2>2 DEF update_indexes_for
    <3> DEFINE e == log[edge_index[op.id]].op
    <3>4. /\ edge_by_label' = [edge_by_label EXCEPT ![e.label] = @ \ {op.id}]
          /\ edges_by_from' = [edges_by_from EXCEPT ![e.from] = @ \ {op.id}]
          /\ edges_by_to' = [edges_by_to EXCEPT ![e.to] = @ \ {op.id}]
      BY <1>c, <2>2, <3>2, Zenon DEF update_indexes_for, remove_edge_from_indexes, read_op_at,
         drop_from_index
    <3>5. e.label \in Label /\ e.from \in Id /\ e.to \in Id
      BY <1>6, <3>1, <3>2 DEF EdgeInsertOp
    <3>6. /\ \A x \in Id : edge_index'[x] = IF x = op.id THEN 0 ELSE edge_index[x]
          /\ \A k \in Label, x \in Id : x \in edge_by_label'[k] <=>
                x \in edge_by_label[k] /\ ~(k = e.label /\ x = op.id)
          /\ \A k \in Id, x \in Id : x \in edges_by_from'[k] <=>
                x \in edges_by_from[k] /\ ~(k = e.from /\ x = op.id)
          /\ \A k \in Id, x \in Id : x \in edges_by_to'[k] <=>
                x \in edges_by_to[k] /\ ~(k = e.to /\ x = op.id)
      BY <1>0, <3>1, <3>3, <3>4, <3>5, Zenon
    <3>7. \A x \in Id : x # op.id =>
              /\ edge_index'[x] # 0 <=> edge_index[x] # 0
              /\ edge_index[x] # 0 => log'[edge_index'[x]].op = log[edge_index[x]].op
                                  /\ log[edge_index[x]].op \in EdgeInsertOp
      BY <1>6, <3>6 DEF has_edge, read_op_at
    <3>8. edge_index'[op.id] = 0 /\ log[edge_index[op.id]].op = e
      BY <3>1, <3>6
    <3> HIDE DEF e
    <3>9. BucketsCover'
      <4> SUFFICES ASSUME NEW x \in Id, edge_index'[x] # 0
                   PROVE  /\ x \in edge_by_label'[log'[edge_index'[x]].op.label]
                          /\ x \in edges_by_from'[log'[edge_index'[x]].op.from]
                          /\ x \in edges_by_to'[log'[edge_index'[x]].op.to]
        BY DEF BucketsCover, has_edge, read_op_at
      <4>1. x # op.id
        BY <3>8
      <4> DEFINE r == log[edge_index[x]].op
      <4>2. /\ edge_index[x] # 0
            /\ log'[edge_index'[x]].op = r
            /\ r.label \in Label /\ r.from \in Id /\ r.to \in Id
        BY <3>7, <4>1 DEF EdgeInsertOp
      <4>3. x \in edge_by_label[r.label] /\ x \in edges_by_from[r.from] /\ x \in edges_by_to[r.to]
        BY <1>d, <4>2 DEF BucketsCover, has_edge, read_op_at
      <4> HIDE DEF r
      <4> QED BY <3>6, <4>1, <4>2, <4>3
    <3>10. BucketsExact'
      <4> SUFFICES ASSUME ~ReadFaults, NEW x \in Id
                   PROVE  /\ \A l \in Label : x \in edge_by_label'[l] =>
                                edge_index'[x] # 0 /\ log'[edge_index'[x]].op.label = l
                          /\ \A y \in Id : x \in edges_by_from'[y] =>
                                edge_index'[x] # 0 /\ log'[edge_index'[x]].op.from = y
                          /\ \A y \in Id : x \in edges_by_to'[y] =>
                                edge_index'[x] # 0 /\ log'[edge_index'[x]].op.to = y
        BY DEF BucketsExact, has_edge, read_op_at
      <4>0. /\ \A l \in Label : x \in edge_by_label[l] =>
                  edge_index[x] # 0 /\ log[edge_index[x]].op.label = l
            /\ \A y \in Id : x \in edges_by_from[y] =>
                  edge_index[x] # 0 /\ log[edge_index[x]].op.from = y
            /\ \A y \in Id : x \in edges_by_to[y] =>
                  edge_index[x] # 0 /\ log[edge_index[x]].op.to = y
        BY <1>d DEF BucketsExact, has_edge, read_op_at
      <4>1. CASE x = op.id
        BY <3>6, <3>8, <4>0, <4>1
      <4>2. CASE x # op.id
        <5>1. /\ edge_index'[x] # 0 <=> edge_index[x] # 0
              /\ edge_index[x] # 0 => log'[edge_index'[x]].op = log[edge_index[x]].op
          BY <3>7, <4>2
        <5>2. /\ \A l \in Label : x \in edge_by_label'[l] => x \in edge_by_label[l]
              /\ \A y \in Id : x \in edges_by_from'[y] => x \in edges_by_from[y]
              /\ \A y \in Id : x \in edges_by_to'[y] => x \in edges_by_to[y]
          BY <3>6, <4>2
        <5> QED BY <4>0, <5>1, <5>2
      <4> QED BY <4>1, <4>2
    <3> QED BY <3>9, <3>10
  <2>3. CASE ~is_edge(op)
    <3>1. UNCHANGED <<edge_index, edge_by_label, edges_by_from, edges_by_to>>
      BY <1>c, <2>3 DEF update_indexes_for, is_edge, indexes
    <3> QED
      BY <1>6, <1>d, <3>1 DEF BucketsCover, BucketsExact, has_edge, read_op_at
  <2> QED BY <2>1, <2>2, <2>3 DEF is_edge
<1>10. SchemaInv'
  <2>1. CASE op.type = "SchemaApply"
    BY <1>0, <1>1, <1>c, <2>1, SchemaStep, Zenon DEF SchemaInv, update_indexes_for
  <2>2. CASE op.type # "SchemaApply"
    <3>1. UNCHANGED current_schema
      BY <1>c, <2>2 DEF update_indexes_for
    <3> QED BY <1>0, <1>1, <1>2, <1>d, <2>2, <3>1, SchemaStep DEF SchemaInv
  <2> QED BY <2>1, <2>2
<1> QED BY <1>7, <1>8, <1>9, <1>10 DEF IndexInv

-----------------------------------------------------------------------------
(* Appending a frame.                                                          *)

\* What a log means after one more frame, in terms of what it meant before.
LEMMA AppendMeaning ==
    ASSUME NEW l \in Seq(Mutation), NEW m \in Mutation
    PROVE  /\ \A id, i : NodeLiveAt(Append(l, m), id, i, Len(Append(l, m))) <=>
                 \/ i = Len(l) + 1 /\ m.op.type = "NodeInsert" /\ m.op.id = id
                 \/ NodeLiveAt(l, id, i, Len(l)) /\ ~(is_node(m.op) /\ m.op.id = id)
           /\ \A id, i : EdgeLiveAt(Append(l, m), id, i, Len(Append(l, m))) <=>
                 \/ i = Len(l) + 1 /\ m.op.type = "EdgeInsert" /\ m.op.id = id
                 \/ EdgeLiveAt(l, id, i, Len(l)) /\ ~(is_edge(m.op) /\ m.op.id = id)
           /\ \A id : NodeLive(Append(l, m), id, Len(Append(l, m))) <=>
                 \/ m.op.type = "NodeInsert" /\ m.op.id = id
                 \/ NodeLive(l, id, Len(l)) /\ ~(is_node(m.op) /\ m.op.id = id)
           /\ \A id : EdgeLive(Append(l, m), id, Len(Append(l, m))) <=>
                 \/ m.op.type = "EdgeInsert" /\ m.op.id = id
                 \/ EdgeLive(l, id, Len(l)) /\ ~(is_edge(m.op) /\ m.op.id = id)
<1> DEFINE k == Append(l, m)
           n == Len(l)
<1>0. n \in Nat
  OBVIOUS
<1>1. /\ n \in Nat /\ Len(k) = n + 1
      /\ \A i \in 1 .. n : k[i] = l[i]
      /\ k[n + 1] = m
  OBVIOUS
<1> HIDE DEF k, n
<1>2. /\ \A id, i : NodeLiveAt(k, id, i, n) <=> NodeLiveAt(l, id, i, n)
      /\ \A id, i : EdgeLiveAt(k, id, i, n) <=> EdgeLiveAt(l, id, i, n)
  BY <1>1, SamePrefix
<1>3. \A id, i : NodeLiveAt(k, id, i, n + 1) <=>
          \/ i = n + 1 /\ m.op.type = "NodeInsert" /\ m.op.id = id
          \/ NodeLiveAt(l, id, i, n) /\ ~(is_node(m.op) /\ m.op.id = id)
  <2>1. \A id, i : NodeLiveAt(k, id, i, n + 1) <=>
            \/ i = n + 1 /\ k[n + 1].op.type = "NodeInsert" /\ k[n + 1].op.id = id
            \/ NodeLiveAt(k, id, i, n) /\ ~(is_node(k[n + 1].op) /\ k[n + 1].op.id = id)
    BY <1>0, NodeLiveStep, Zenon
  <2> QED BY <1>1, <1>2, <2>1
<1>4. \A id, i : EdgeLiveAt(k, id, i, n + 1) <=>
          \/ i = n + 1 /\ m.op.type = "EdgeInsert" /\ m.op.id = id
          \/ EdgeLiveAt(l, id, i, n) /\ ~(is_edge(m.op) /\ m.op.id = id)
  <2>1. \A id, i : EdgeLiveAt(k, id, i, n + 1) <=>
            \/ i = n + 1 /\ k[n + 1].op.type = "EdgeInsert" /\ k[n + 1].op.id = id
            \/ EdgeLiveAt(k, id, i, n) /\ ~(is_edge(k[n + 1].op) /\ k[n + 1].op.id = id)
    BY <1>0, EdgeLiveStep, Zenon
  <2> QED BY <1>1, <1>2, <2>1
<1>5. \A id : NodeLive(k, id, n + 1) <=>
          \/ m.op.type = "NodeInsert" /\ m.op.id = id
          \/ NodeLive(l, id, n) /\ ~(is_node(m.op) /\ m.op.id = id)
  <2>1. /\ \A id, i : NodeLiveAt(l, id, i, n) => i \in 1 .. n
        /\ n + 1 \in 1 .. n + 1 /\ 1 .. n \subseteq 1 .. n + 1
    BY <1>1 DEF NodeLiveAt
  <2> QED BY <1>3, <2>1 DEF NodeLive
<1>6. \A id : EdgeLive(k, id, n + 1) <=>
          \/ m.op.type = "EdgeInsert" /\ m.op.id = id
          \/ EdgeLive(l, id, n) /\ ~(is_edge(m.op) /\ m.op.id = id)
  <2>1. /\ \A id, i : EdgeLiveAt(l, id, i, n) => i \in 1 .. n
        /\ n + 1 \in 1 .. n + 1 /\ 1 .. n \subseteq 1 .. n + 1
    BY <1>1 DEF EdgeLiveAt
  <2> QED BY <1>4, <2>1 DEF EdgeLive
<1> QED BY <1>1, <1>3, <1>4, <1>5, <1>6 DEF k, n

\* Appending a legal operation leaves no edge without its endpoints, provided a
\* deleted node is excused or has no live edge (delete_node, CascadeNode).
LEMMA EndpointsAppend ==
    ASSUME NEW l \in Seq(Mutation), NEW m \in Mutation, NEW u \in SUBSET Id,
           EndpointsLive(l, u), OpLegal(l, m.op, Len(l)),
           m.op.type = "NodeDelete" => m.op.id \in u \/ Detached(l, m.op.id)
    PROVE  EndpointsLive(Append(l, m), u)
<1> DEFINE k == Append(l, m)
           n == Len(l)
<1>1. /\ n \in Nat /\ Len(k) = n + 1
      /\ \A i \in 1 .. n : k[i] = l[i]
      /\ k[n + 1] = m
  OBVIOUS
<1>2. SUFFICES ASSUME NEW e \in Id, NEW i \in 1 .. Len(k), EdgeLiveAt(k, e, i, Len(k)),
                      NEW id \in {k[i].op.from, k[i].op.to}, id \notin u
               PROVE  NodeLive(k, id, Len(k))
  BY DEF EndpointsLive
<1>3. \/ i = n + 1 /\ m.op.type = "EdgeInsert" /\ m.op.id = e
      \/ EdgeLiveAt(l, e, i, n) /\ ~(is_edge(m.op) /\ m.op.id = e)
  BY <1>2, AppendMeaning, Zenon
<1>4. NodeLive(k, id, Len(k)) <=>
          \/ m.op.type = "NodeInsert" /\ m.op.id = id
          \/ NodeLive(l, id, n) /\ ~(is_node(m.op) /\ m.op.id = id)
  BY AppendMeaning
<1> HIDE DEF k, n
<1>5. CASE i = n + 1 /\ m.op.type = "EdgeInsert"
  <2>1. NodeLive(l, id, n)
    BY <1>1, <1>2, <1>5 DEF OpLegal, n
  <2> QED BY <1>4, <1>5, <2>1 DEF is_node
<1>6. CASE EdgeLiveAt(l, e, i, n)
  <2>1. i \in 1 .. n /\ k[i] = l[i]
    BY <1>1, <1>6 DEF EdgeLiveAt
  <2>2. NodeLive(l, id, n)
    BY <1>2, <1>6, <2>1 DEF EndpointsLive, n
  <2>3. m.op.type = "NodeDelete" => m.op.id # id
    BY <1>2, <1>6, <2>1 DEF Detached, n
  <2> QED BY <1>4, <2>2, <2>3 DEF is_node
<1> QED BY <1>3, <1>5, <1>6
=============================================================================
