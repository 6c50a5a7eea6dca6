---------------------------- MODULE WorkerProofs ----------------------------
(***************************************************************************)
(* FifoPerWorker, FlushComesLast and ReplayCatchesUp for any number of     *)
(* mutations and lives, any settings and any saturation limits.            *)
(***************************************************************************)
EXTENDS Worker, SequenceTheorems, TLAPS

States == Running \cup {"none", "refused", "flushed", "dead"}

\* What the host may have done.
HostOK ==
  /\ engine = "closed" => wired = "none"
  /\ engine # "closed" => life \in Life
  /\ caughtUp => wired = "worker" /\ engine = "open"

\* The worker of life l.  It has a mutation in hand while it applies or sleeps.  There is
\* none before the engine of l is wired to it, and no second one.
LifeOK(l) ==
  /\ worker[l] \in Running => sent[l] = settled[l] \o InHand(l) \o queue[l]
  /\ worker[l] = "flushed" => settled[l] = sent[l] /\ ~SenderAlive(l)
  /\ worker[l] \in {"applying", "backoff"} <=> current[l] # 0
  /\ worker[l] = "none" => queue[l] = <<>> /\ sent[l] = <<>> /\ settled[l] = <<>>
  /\ l > life \/ (l = life /\ engine # "closed" /\ wired # "worker") => worker[l] = "none"

\* What the worker was sent by a replay under way.
ReplayOK ==
  engine = "replay" /\ wired = "worker" /\ worker[life] \in Running =>
    \A m \in 1 .. walk : Occurs(m, sent[life])

IInv ==
  TypeOK /\ HostOK /\ (\A l \in Life : LifeOK(l)) /\ ReplayOK /\ ReplayCatchesUp

-----------------------------------------------------------------------------
(* Sequences *)

\* What queues behind is sent last.
LEMMA AppendBehind ==
  \A a, q \in Seq(Seqs), m \in Seqs : Append(a \o q, m) = a \o Append(q, m)
<1> TAKE a, q \in Seq(Seqs), m \in Seqs
<1>1. Append(a \o q, m) = (a \o q) \o <<m>>
  BY ConcatProperties, AppendIsConcat
<1>2. (a \o q) \o <<m>> = a \o (q \o <<m>>)
  BY ConcatAssociative
<1>3. q \o <<m>> = Append(q, m)
  BY AppendIsConcat
<1> QED BY <1>1, <1>2, <1>3

\* recv takes the head of the channel in hand.
LEMMA TakeHead ==
  ASSUME NEW S, NEW a \in Seq(S), NEW q \in Seq(S), q # <<>>
  PROVE  /\ a \o <<>> \o q = a \o <<Head(q)>> \o Tail(q)
         /\ Head(q) \in S /\ Tail(q) \in Seq(S)
OBVIOUS

\* What was in hand is settled next.
LEMMA SettleNext ==
  ASSUME NEW S, NEW a \in Seq(S), NEW q \in Seq(S), NEW m \in S
  PROVE  a \o <<m>> \o q = Append(a, m) \o <<>> \o q
OBVIOUS

\* What occurs in a sequence still does when it grows.
LEMMA OccursAppend ==
  ASSUME NEW S, NEW s \in Seq(S), NEW m \in S
  PROVE  /\ Occurs(m, Append(s, m))
         /\ \A k : Occurs(k, s) => Occurs(k, Append(s, m))
<1>1. /\ Len(Append(s, m)) = Len(s) + 1 /\ Len(s) \in Nat
      /\ \A i \in 1 .. Len(s) : Append(s, m)[i] = s[i]
      /\ Append(s, m)[Len(s) + 1] = m
  OBVIOUS
<1>2. Occurs(m, Append(s, m))
  <2>1. Len(s) + 1 \in 1 .. Len(Append(s, m))
    BY <1>1
  <2> QED BY <1>1, <2>1 DEF Occurs
<1>3. ASSUME NEW k, Occurs(k, s) PROVE Occurs(k, Append(s, m))
  <2>1. PICK i \in 1 .. Len(s) : s[i] = k
    BY <1>3 DEF Occurs
  <2>2. i \in 1 .. Len(Append(s, m)) /\ Append(s, m)[i] = k
    BY <1>1, <2>1
  <2> QED BY <2>2 DEF Occurs
<1> QED BY <1>2, <1>3

\* What a worker has in hand is a mutation or nothing.
LEMMA InHandSeq ==
  ASSUME TypeOK, NEW l \in Life
  PROVE  InHand(l) \in Seq(Seqs)
<1>1. CASE current[l] = 0
  BY <1>1 DEF InHand
<1>2. CASE current[l] # 0
  <2>1. current[l] \in Seqs
    BY <1>2 DEF TypeOK, Seqs
  <2>2. <<current[l]>> \in Seq(Seqs)
    BY <2>1
  <2> QED BY <1>2, <2>2 DEF InHand
<1> QED BY <1>1, <1>2

-----------------------------------------------------------------------------
(* The engine's side *)

\* MutationLog::record keeps the channel first in, first out.
LEMMA Recorded ==
  ASSUME TypeOK, HostOK, \A l \in Life : LifeOK(l), engine # "closed",
         NEW m \in Seqs, record(m)
  PROVE  /\ buffer' \in Seq(Seqs) /\ queue' \in [Life -> Seq(Seqs)]
         /\ sent' \in [Life -> Seq(Seqs)]
         /\ \A l \in Life : IF worker[l] \in Running
                            THEN sent'[l] = settled[l] \o InHand(l) \o queue'[l]
                            ELSE sent'[l] = sent[l] /\ queue'[l] = queue[l]
         /\ wired = "worker" /\ worker[life] \in Running => sent'[life] = Append(sent[life], m)
<1>1. life \in Life
  BY DEF HostOK
<1>2. buffer' \in Seq(Seqs)
  BY DEF record, TypeOK
<1>3. CASE ~(wired = "worker" /\ worker[life] \in Running)
  <2>1. queue' = queue /\ sent' = sent
    BY <1>3 DEF record
  <2> QED BY <1>2, <1>3, <2>1 DEF TypeOK, LifeOK
<1>4. CASE wired = "worker" /\ worker[life] \in Running
  <2>1. /\ queue' = [queue EXCEPT ![life] = Append(queue[life], m)]
        /\ sent' = [sent EXCEPT ![life] = Append(sent[life], m)]
    BY <1>4 DEF record
  <2>2. /\ queue[life] \in Seq(Seqs) /\ sent[life] \in Seq(Seqs) /\ settled[life] \in Seq(Seqs)
        /\ Append(queue[life], m) \in Seq(Seqs) /\ Append(sent[life], m) \in Seq(Seqs)
    BY <1>1 DEF TypeOK
  <2>3. settled[life] \o InHand(life) \in Seq(Seqs)
    BY <1>1, <2>2, InHandSeq
  <2>4. /\ queue' \in [Life -> Seq(Seqs)] /\ sent' \in [Life -> Seq(Seqs)]
        /\ queue'[life] = Append(queue[life], m) /\ sent'[life] = Append(sent[life], m)
        /\ \A l \in Life \ {life} : queue'[l] = queue[l] /\ sent'[l] = sent[l]
    BY <1>1, <2>1, <2>2 DEF TypeOK
  <2>5. sent'[life] = settled[life] \o InHand(life) \o queue'[life]
    <3>1. sent[life] = settled[life] \o InHand(life) \o queue[life]
      BY <1>1, <1>4 DEF LifeOK
    <3> DEFINE a == settled[life] \o InHand(life)
               q == queue[life]
    <3>2. a \in Seq(Seqs) /\ q \in Seq(Seqs) /\ sent[life] = a \o q
      BY <2>2, <2>3, <3>1
    <3>3. sent'[life] = Append(sent[life], m) /\ queue'[life] = Append(q, m)
      BY <2>4
    <3> HIDE DEF a, q
    <3>4. Append(a \o q, m) = a \o Append(q, m)
      BY <3>2, AppendBehind
    <3>5. sent'[life] = a \o queue'[life]
      BY <3>2, <3>3, <3>4
    <3> QED BY <3>5 DEF a
  <2> QED BY <1>2, <1>4, <2>4, <2>5 DEF LifeOK
<1> QED BY <1>3, <1>4

\* A mutation is recorded: by a commit or by a replay.
LEMMA RecordingLives ==
  ASSUME IInv, engine # "closed", NEW m \in Seqs, record(m),
         UNCHANGED <<life, engine, wired, worker, current, settled>>
  PROVE  \A l \in Life : LifeOK(l)'
<1> SUFFICES ASSUME NEW l \in Life PROVE LifeOK(l)'
  OBVIOUS
<1>1. /\ IF worker[l] \in Running
         THEN sent'[l] = settled[l] \o InHand(l) \o queue'[l]
         ELSE sent'[l] = sent[l] /\ queue'[l] = queue[l]
      /\ LifeOK(l)
  BY Recorded DEF IInv
<1>2. InHand(l)' = InHand(l) /\ (SenderAlive(l)' <=> SenderAlive(l))
  BY DEF InHand, SenderAlive
<1> QED BY <1>1, <1>2 DEF LifeOK, Running

\* Engine::commit records the mutation behind all earlier ones.
LEMMA commitStep ==
  ASSUME IInv, commit
  PROVE  IInv'
<1>0. TypeOK /\ HostOK /\ \A l \in Life : LifeOK(l)
  BY DEF IInv
<1>1. /\ engine = "open" /\ committed' = committed + 1 /\ record(committed + 1)
      /\ committed + 1 \in Seqs /\ committed \in Nat
      /\ UNCHANGED <<setting, life, engine, wired, walk, caughtUp, worker, current, attempt,
                     backoff_ms, settled, accepted>>
  BY <1>0, WorkerAssumption DEF commit, retryVars, TypeOK, Seqs
<1>2. /\ buffer' \in Seq(Seqs) /\ queue' \in [Life -> Seq(Seqs)]
      /\ sent' \in [Life -> Seq(Seqs)]
      /\ wired = "worker" /\ worker[life] \in Running
           => sent'[life] = Append(sent[life], committed + 1)
  BY <1>0, <1>1, Recorded
<1>3. committed' \in 0 .. MaxSeq /\ walk' \in 0 .. committed'
  BY <1>0, <1>1, WorkerAssumption DEF TypeOK, Seqs
<1>4. TypeOK'
  BY <1>0, <1>1, <1>2, <1>3 DEF TypeOK
<1>5. HostOK' /\ ReplayOK'
  BY <1>0, <1>1 DEF HostOK, ReplayOK
<1>6. \A l \in Life : LifeOK(l)'
  BY <1>1, RecordingLives
<1>7. ReplayCatchesUp'
  <2> SUFFICES ASSUME caughtUp, worker[life] \in Running, NEW k \in 1 .. committed + 1
               PROVE  Occurs(k, sent'[life])
    BY <1>1 DEF ReplayCatchesUp
  <2>1. wired = "worker" /\ sent[life] \in Seq(Seqs)
    BY <1>0, <1>1 DEF HostOK, TypeOK
  <2>2. sent'[life] = Append(sent[life], committed + 1)
    BY <1>2, <2>1
  <2>3. k = committed + 1 \/ k \in 1 .. committed
    BY <1>1
  <2>4. k \in 1 .. committed => Occurs(k, sent[life])
    BY DEF IInv, ReplayCatchesUp
  <2> QED BY <1>1, <2>1, <2>2, <2>3, <2>4, OccursAppend
<1> QED BY <1>4, <1>5, <1>6, <1>7 DEF IInv

\* replay_unconfirmed records the next mutation of the log.
LEMMA ReplayOneStep ==
  ASSUME IInv, ReplayOne
  PROVE  IInv'
<1>0. TypeOK /\ HostOK /\ \A l \in Life : LifeOK(l)
  BY DEF IInv
<1>1. /\ engine = "replay" /\ walk' = walk + 1 /\ record(walk + 1)
      /\ walk + 1 \in Seqs /\ walk + 1 \in 0 .. committed /\ walk \in Nat
      /\ UNCHANGED <<setting, committed, life, engine, wired, caughtUp, worker, current, attempt,
                     backoff_ms, settled, accepted>>
  BY <1>0, WorkerAssumption DEF ReplayOne, retryVars, TypeOK, Seqs
<1>2. /\ buffer' \in Seq(Seqs) /\ queue' \in [Life -> Seq(Seqs)]
      /\ sent' \in [Life -> Seq(Seqs)]
      /\ wired = "worker" /\ worker[life] \in Running
           => sent'[life] = Append(sent[life], walk + 1)
  BY <1>0, <1>1, Recorded
<1>3. TypeOK'
  BY <1>0, <1>1, <1>2 DEF TypeOK
<1>4. HostOK' /\ ReplayCatchesUp'
  BY <1>0, <1>1 DEF HostOK, ReplayCatchesUp
<1>5. \A l \in Life : LifeOK(l)'
  BY <1>1, RecordingLives
<1>6. ReplayOK'
  <2> SUFFICES ASSUME wired = "worker", worker[life] \in Running, NEW k \in 1 .. walk + 1
               PROVE  Occurs(k, sent'[life])
    BY <1>1 DEF ReplayOK
  <2>1. sent[life] \in Seq(Seqs) /\ sent'[life] = Append(sent[life], walk + 1)
    BY <1>0, <1>1, <1>2 DEF HostOK, TypeOK
  <2>2. k = walk + 1 \/ k \in 1 .. walk
    BY <1>1
  <2>3. k \in 1 .. walk => Occurs(k, sent[life])
    BY <1>1 DEF IInv, ReplayOK
  <2> QED BY <1>1, <2>1, <2>2, <2>3, OccursAppend
<1> QED BY <1>3, <1>4, <1>5, <1>6 DEF IInv

\* A step of the host that touches no channel and no worker.
LEMMA HostMove ==
  ASSUME IInv, TypeOK', HostOK', ReplayOK', ReplayCatchesUp',
         UNCHANGED <<worker, queue, current, sent, settled>>,
         \A l \in Life : SenderAlive(l)' => SenderAlive(l),
         \A l \in Life : l > life' \/ (l = life' /\ engine' # "closed" /\ wired' # "worker")
                          => worker[l] = "none"
  PROVE  IInv'
<1>1. ASSUME NEW l \in Life PROVE LifeOK(l)'
  <2>1. LifeOK(l) /\ InHand(l)' = InHand(l)
    BY DEF IInv, InHand
  <2>2. /\ worker'[l] \in Running => sent'[l] = settled'[l] \o InHand(l)' \o queue'[l]
        /\ worker'[l] = "flushed" => settled'[l] = sent'[l] /\ ~SenderAlive(l)'
        /\ worker'[l] \in {"applying", "backoff"} <=> current'[l] # 0
        /\ worker'[l] = "none" => queue'[l] = <<>> /\ sent'[l] = <<>> /\ settled'[l] = <<>>
    BY <2>1 DEF LifeOK
  <2> QED BY <2>2 DEF LifeOK
<1> QED BY <1>1 DEF IInv

\* A new life of the engine, which is wired to nothing yet.
LEMMA openStep ==
  ASSUME IInv, open
  PROVE  IInv'
<1>0. TypeOK /\ HostOK /\ \A l \in Life : LifeOK(l)
  BY DEF IInv
<1>1. /\ engine = "closed" /\ engine' = "open" /\ life' = life + 1 /\ life < MaxLives
      /\ UNCHANGED <<setting, committed, wired, walk, caughtUp, buffer, worker, queue, current,
                     attempt, backoff_ms, sent, settled, accepted>>
  BY DEF open, retryVars
<1>2. life' \in Life /\ life' \in 0 .. MaxLives /\ life \in Nat
  BY <1>0, <1>1, WorkerAssumption DEF TypeOK, Life
<1>3. TypeOK'
  BY <1>0, <1>1, <1>2 DEF TypeOK
<1>4. HostOK' /\ ReplayOK' /\ ReplayCatchesUp'
  BY <1>0, <1>1, <1>2 DEF HostOK, ReplayOK, ReplayCatchesUp
<1>5. \A l \in Life : ~SenderAlive(l)'
  BY <1>0, <1>1 DEF HostOK, SenderAlive
<1>6. ASSUME NEW l \in Life, l >= life' PROVE worker[l] = "none"
  <2>1. l > life
    BY <1>1, <1>2, <1>6 DEF Life
  <2> QED BY <1>0, <2>1 DEF LifeOK
<1>7. \A l \in Life : l > life' \/ l = life' => worker[l] = "none"
  BY <1>2, <1>6 DEF Life
<1> QED BY <1>1, <1>3, <1>4, <1>5, <1>7, HostMove

\* The engine of this life is wired to a buffer.
LEMMA with_mutation_logStep ==
  ASSUME IInv, with_mutation_log
  PROVE  IInv'
<1>0. TypeOK /\ HostOK /\ (\A l \in Life : LifeOK(l)) /\ ReplayOK /\ ReplayCatchesUp
  BY DEF IInv
<1>1. /\ engine = "open" /\ wired = "none" /\ wired' = "buffer"
      /\ UNCHANGED <<setting, committed, life, engine, walk, caughtUp, buffer, worker, queue,
                     current, attempt, backoff_ms, sent, settled, accepted>>
  BY DEF with_mutation_log, retryVars
<1>2. TypeOK'
  BY <1>0, <1>1 DEF TypeOK
<1>3. HostOK' /\ ReplayOK' /\ ReplayCatchesUp'
  BY <1>0, <1>1 DEF HostOK, ReplayOK, ReplayCatchesUp
<1>4. \A l \in Life : ~SenderAlive(l)'
  BY <1>1 DEF SenderAlive
<1>5. \A l \in Life : l > life \/ l = life => worker[l] = "none"
  BY <1>0, <1>1 DEF LifeOK
<1> QED BY <1>1, <1>2, <1>3, <1>4, <1>5, HostMove

\* The worker of this life is new: nothing was sent to it.
LEMMA spawnStep ==
  ASSUME IInv, spawn_controller_worker
  PROVE  IInv'
<1>0. TypeOK /\ HostOK /\ (\A l \in Life : LifeOK(l)) /\ ReplayOK /\ ReplayCatchesUp
  BY DEF IInv
<1>1. /\ engine = "open" /\ wired # "worker" /\ wired' = "worker"
      /\ worker' = [worker EXCEPT ![life] = "connecting"]
      /\ UNCHANGED <<setting, committed, life, engine, walk, caughtUp, buffer, queue, current,
                     attempt, backoff_ms, sent, settled, accepted>>
  BY DEF spawn_controller_worker, retryVars
<1>2. life \in Life /\ worker[life] = "none" /\ ~caughtUp
  BY <1>0, <1>1 DEF HostOK, LifeOK
<1>3. /\ worker' \in [Life -> States] /\ worker'[life] = "connecting"
      /\ \A l \in Life \ {life} : worker'[l] = worker[l]
  BY <1>0, <1>1, <1>2 DEF TypeOK, States, Running
<1>4. TypeOK'
  BY <1>0, <1>1, <1>3 DEF TypeOK, States
<1>5. HostOK' /\ ReplayOK' /\ ReplayCatchesUp'
  BY <1>0, <1>1, <1>2 DEF HostOK, ReplayOK, ReplayCatchesUp
<1>6. ASSUME NEW l \in Life PROVE LifeOK(l)'
  <2>0. LifeOK(l) /\ InHand(l)' = InHand(l)
    BY <1>0, <1>1 DEF InHand
  <2>1. CASE l = life
    <3>1. queue[l] = <<>> /\ sent[l] = <<>> /\ settled[l] = <<>> /\ current[l] = 0
      BY <1>2, <2>0, <2>1 DEF LifeOK
    <3>2. InHand(l) = <<>> /\ <<>> = <<>> \o <<>> \o <<>>
      BY <3>1 DEF InHand
    <3>3. sent'[l] = settled'[l] \o InHand(l)' \o queue'[l]
      BY <1>1, <2>0, <3>1, <3>2
    <3>4. ~(l > life') /\ wired' = "worker"
      BY <1>0, <1>1, <2>1 DEF TypeOK
    <3> QED BY <1>1, <1>3, <2>1, <3>1, <3>3, <3>4 DEF LifeOK
  <2>2. CASE l # life
    <3>1. worker'[l] = worker[l] /\ ~SenderAlive(l)'
      BY <1>1, <1>3, <2>2 DEF SenderAlive
    <3> QED BY <1>1, <2>0, <2>2, <3>1 DEF LifeOK
  <2> QED BY <2>1, <2>2
<1> QED BY <1>4, <1>5, <1>6 DEF IInv

\* The host drains the buffer; no channel is involved.
LEMMA take_bufferStep ==
  ASSUME IInv, take_buffer
  PROVE  IInv'
<1>0. TypeOK /\ HostOK /\ (\A l \in Life : LifeOK(l)) /\ ReplayOK /\ ReplayCatchesUp
  BY DEF IInv
<1>1. /\ buffer' = <<>>
      /\ UNCHANGED <<setting, committed, life, engine, wired, walk, caughtUp, worker, queue,
                     current, attempt, backoff_ms, sent, settled, accepted>>
  BY DEF take_buffer, retryVars
<1>2. TypeOK'
  BY <1>0, <1>1 DEF TypeOK
<1>3. HostOK' /\ ReplayOK' /\ ReplayCatchesUp'
  BY <1>0, <1>1 DEF HostOK, ReplayOK, ReplayCatchesUp
<1>4. \A l \in Life : SenderAlive(l)' => SenderAlive(l)
  BY <1>1 DEF SenderAlive
<1>5. \A l \in Life : l > life \/ (l = life /\ engine # "closed" /\ wired # "worker")
                       => worker[l] = "none"
  BY <1>0 DEF LifeOK
<1> QED BY <1>1, <1>2, <1>3, <1>4, <1>5, HostMove

\* replay_unconfirmed begins: nothing of its walk is sent yet.
LEMMA StartReplayStep ==
  ASSUME IInv, StartReplay
  PROVE  IInv'
<1>0. TypeOK /\ HostOK /\ (\A l \in Life : LifeOK(l)) /\ ReplayOK /\ ReplayCatchesUp
  BY DEF IInv
<1>1. /\ engine = "open" /\ ~caughtUp /\ engine' = "replay" /\ walk' = 0
      /\ UNCHANGED <<setting, committed, life, wired, caughtUp, buffer, worker, queue, current,
                     attempt, backoff_ms, sent, settled, accepted>>
  BY DEF StartReplay, retryVars
<1>2. TypeOK'
  BY <1>0, <1>1 DEF TypeOK
<1>3. HostOK' /\ ReplayOK' /\ ReplayCatchesUp'
  BY <1>0, <1>1 DEF HostOK, ReplayOK, ReplayCatchesUp
<1>4. \A l \in Life : SenderAlive(l)' => SenderAlive(l)
  BY <1>1 DEF SenderAlive
<1>5. \A l \in Life : l > life \/ (l = life /\ wired # "worker") => worker[l] = "none"
  BY <1>0, <1>1 DEF LifeOK
<1> QED BY <1>1, <1>2, <1>3, <1>4, <1>5, HostMove

\* A replay that went through has sent everything.
LEMMA EndReplayStep ==
  ASSUME IInv, EndReplay
  PROVE  IInv'
<1>0. TypeOK /\ HostOK /\ (\A l \in Life : LifeOK(l)) /\ ReplayOK /\ ReplayCatchesUp
  BY DEF IInv
<1>1. /\ engine = "replay" /\ walk = committed /\ engine' = "open"
      /\ caughtUp' = (wired = "worker")
      /\ UNCHANGED <<setting, committed, life, wired, walk, buffer, worker, queue, current,
                     attempt, backoff_ms, sent, settled, accepted>>
  BY DEF EndReplay, retryVars
<1>2. TypeOK'
  BY <1>0, <1>1 DEF TypeOK
<1>3. HostOK' /\ ReplayOK'
  BY <1>0, <1>1 DEF HostOK, ReplayOK
<1>4. ReplayCatchesUp'
  BY <1>0, <1>1 DEF ReplayOK, ReplayCatchesUp
<1>5. \A l \in Life : SenderAlive(l)' => SenderAlive(l)
  BY <1>1 DEF SenderAlive
<1>6. \A l \in Life : l > life \/ (l = life /\ wired # "worker") => worker[l] = "none"
  BY <1>0, <1>1 DEF LifeOK
<1> QED BY <1>1, <1>2, <1>3, <1>4, <1>5, <1>6, HostMove

\* The engine is dropped; its worker runs on with what it has.
LEMMA DropEngineStep ==
  ASSUME IInv, DropEngine
  PROVE  IInv'
<1>0. TypeOK /\ HostOK /\ \A l \in Life : LifeOK(l)
  BY DEF IInv
<1>1. /\ engine' = "closed" /\ wired' = "none" /\ walk' = 0 /\ caughtUp' = FALSE
      /\ buffer' = <<>>
      /\ UNCHANGED <<setting, committed, life, worker, queue, current, attempt, backoff_ms, sent,
                     settled, accepted>>
  BY DEF DropEngine, LoseEngine, retryVars
<1>2. TypeOK'
  <2>1. walk' \in 0 .. committed' /\ buffer' \in Seq(Seqs)
    BY <1>0, <1>1 DEF TypeOK
  <2> QED BY <1>0, <1>1, <2>1 DEF TypeOK
<1>3. HostOK' /\ ReplayOK' /\ ReplayCatchesUp'
  BY <1>1 DEF HostOK, ReplayOK, ReplayCatchesUp
<1>4. \A l \in Life : ~SenderAlive(l)'
  BY <1>1 DEF SenderAlive
<1>5. \A l \in Life : l > life => worker[l] = "none"
  BY <1>0 DEF LifeOK
<1> QED BY <1>1, <1>2, <1>3, <1>4, <1>5, HostMove

\* The process dies with all workers and channels.
LEMMA CrashStep ==
  ASSUME IInv, Crash
  PROVE  IInv'
<1>0. TypeOK /\ HostOK /\ \A l \in Life : LifeOK(l)
  BY DEF IInv
<1>1. /\ engine' = "closed" /\ wired' = "none" /\ walk' = 0 /\ caughtUp' = FALSE
      /\ buffer' = <<>>
      /\ worker' = [l \in Life |-> IF worker[l] \in Running THEN "dead" ELSE worker[l]]
      /\ queue' = [l \in Life |-> <<>>] /\ current' = [l \in Life |-> 0]
      /\ attempt' = [l \in Life |-> 0] /\ backoff_ms' = [l \in Life |-> first_backoff_ms]
      /\ UNCHANGED <<setting, committed, life, sent, settled, accepted>>
  BY DEF Crash, LoseEngine
<1>2. TypeOK'
  <2>1. walk' \in 0 .. committed' /\ buffer' \in Seq(Seqs)
    BY <1>0, <1>1 DEF TypeOK
  <2>2. worker' \in [Life -> States]
    BY <1>0, <1>1 DEF TypeOK, States
  <2>3. queue' \in [Life -> Seq(Seqs)]
    BY <1>1
  <2>4. current' \in [Life -> 0 .. MaxSeq] /\ attempt' \in [Life -> 0 .. U32Max]
    BY <1>1, WorkerAssumption
  <2>5. backoff_ms' \in [Life -> 0 .. U64Max]
    BY <1>1, WorkerAssumption
  <2> QED BY <1>0, <1>1, <2>1, <2>2, <2>3, <2>4, <2>5 DEF TypeOK, States
<1>3. HostOK' /\ ReplayOK' /\ ReplayCatchesUp'
  BY <1>1 DEF HostOK, ReplayOK, ReplayCatchesUp
<1>4. ASSUME NEW l \in Life PROVE LifeOK(l)'
  <2>1. LifeOK(l)
    BY <1>0
  <2>2. /\ worker'[l] = IF worker[l] \in Running THEN "dead" ELSE worker[l]
        /\ queue'[l] = <<>> /\ current'[l] = 0
    BY <1>1
  <2> QED BY <1>1, <2>1, <2>2 DEF LifeOK, SenderAlive, Running
<1> QED BY <1>2, <1>3, <1>4 DEF IInv

-----------------------------------------------------------------------------
(* The worker of a life *)

\* A step of the worker of l leaves the host and the other workers alone.
LEMMA WorkerMove ==
  ASSUME IInv, TypeOK', NEW l \in Life, worker[l] \in Running, worker'[l] # "none",
         UNCHANGED <<hostVars, sent>>,
         \A k \in Life \ {l} : /\ worker'[k] = worker[k] /\ queue'[k] = queue[k]
                               /\ current'[k] = current[k] /\ settled'[k] = settled[k],
         worker'[l] \in Running => sent[l] = settled'[l] \o InHand(l)' \o queue'[l],
         worker'[l] = "flushed" => settled'[l] = sent[l] /\ ~SenderAlive(l),
         worker'[l] \in {"applying", "backoff"} <=> current'[l] # 0
  PROVE  IInv'
<1>0. TypeOK /\ HostOK /\ (\A k \in Life : LifeOK(k)) /\ ReplayOK /\ ReplayCatchesUp
  BY DEF IInv
<1>1. UNCHANGED <<committed, life, engine, wired, walk, caughtUp>>
  BY DEF hostVars
<1>2. HostOK'
  BY <1>0, <1>1 DEF HostOK
<1>3. engine # "closed" /\ worker'[life] \in Running => worker[life] \in Running
  <2>1. engine # "closed" => life \in Life
    BY <1>0 DEF HostOK
  <2> QED BY <2>1
<1>4. ReplayOK' /\ ReplayCatchesUp'
  BY <1>0, <1>1, <1>3 DEF HostOK, ReplayOK, ReplayCatchesUp
<1>5. ASSUME NEW k \in Life PROVE LifeOK(k)'
  <2>0. LifeOK(k) /\ (SenderAlive(k)' <=> SenderAlive(k))
    BY <1>0, <1>1 DEF SenderAlive
  <2>1. CASE k # l
    <3>1. InHand(k)' = InHand(k)
      BY <2>1 DEF InHand
    <3> QED BY <1>1, <2>0, <2>1, <3>1 DEF LifeOK
  <2>2. CASE k = l
    <3>1. ~(l > life \/ (l = life /\ engine # "closed" /\ wired # "worker"))
      BY <2>0, <2>2 DEF LifeOK, Running
    <3> QED BY <1>1, <2>0, <2>2, <3>1 DEF LifeOK
  <2> QED BY <2>1, <2>2
<1> QED BY <1>2, <1>4, <1>5 DEF IInv

\* The worker connects, or gives up with its channel.
LEMMA connectStep ==
  ASSUME IInv, NEW l \in Life, connect(l)
  PROVE  IInv'
<1>0. TypeOK /\ LifeOK(l)
  BY DEF IInv
<1>1. /\ worker[l] = "connecting" /\ worker[l] \in Running
      /\ UNCHANGED <<hostVars, setting, committed, life, engine, wired, walk, caughtUp, buffer,
                     current, attempt, backoff_ms, sent, settled, accepted>>
  BY DEF connect, retryVars, hostVars, Running
<1>2. CASE worker' = [worker EXCEPT ![l] = "waiting"] /\ UNCHANGED queue
  <2>1. worker' \in [Life -> States] /\ worker'[l] = "waiting"
    BY <1>0, <1>2 DEF TypeOK, States, Running
  <2>2. TypeOK'
    BY <1>0, <1>1, <1>2, <2>1 DEF TypeOK, States
  <2>3. \A k \in Life \ {l} : worker'[k] = worker[k]
    BY <1>0, <1>2 DEF TypeOK
  <2>4. InHand(l)' = InHand(l) /\ current[l] = 0
    BY <1>0, <1>1 DEF InHand, LifeOK
  <2>5. sent[l] = settled'[l] \o InHand(l)' \o queue'[l]
    BY <1>0, <1>1, <1>2, <2>4 DEF LifeOK
  <2> QED BY <1>1, <1>2, <2>1, <2>2, <2>3, <2>4, <2>5, WorkerMove
<1>3. CASE /\ worker' = [worker EXCEPT ![l] = "refused"]
           /\ queue' = [queue EXCEPT ![l] = <<>>]
  <2>1. worker' \in [Life -> States] /\ worker'[l] = "refused"
    BY <1>0, <1>3 DEF TypeOK, States, Running
  <2>2. queue' \in [Life -> Seq(Seqs)]
    BY <1>0, <1>3 DEF TypeOK
  <2>3. TypeOK'
    BY <1>0, <1>1, <2>1, <2>2 DEF TypeOK, States
  <2>4. \A k \in Life \ {l} : worker'[k] = worker[k] /\ queue'[k] = queue[k]
    BY <1>0, <1>3 DEF TypeOK
  <2>5. current[l] = 0 /\ worker'[l] \notin Running
    BY <1>0, <1>1, <2>1 DEF LifeOK, Running
  <2> QED BY <1>1, <2>1, <2>3, <2>4, <2>5, WorkerMove
<1> QED BY <1>2, <1>3 DEF connect

\* The worker takes the head of its channel.
LEMMA recvStep ==
  ASSUME IInv, NEW l \in Life, recv(l)
  PROVE  IInv'
<1>0. TypeOK /\ LifeOK(l)
  BY DEF IInv
<1> DEFINE m == Head(queue[l])
           q == Tail(queue[l])
<1>1. /\ worker[l] = "waiting" /\ worker[l] \in Running /\ queue[l] # <<>>
      /\ worker' = [worker EXCEPT ![l] = "applying"] /\ current' = [current EXCEPT ![l] = m]
      /\ queue' = [queue EXCEPT ![l] = q] /\ attempt' = [attempt EXCEPT ![l] = 0]
      /\ backoff_ms' = [backoff_ms EXCEPT ![l] = first_backoff_ms]
      /\ UNCHANGED <<hostVars, setting, committed, life, engine, wired, walk, caughtUp, buffer,
                     sent, settled, accepted>>
  BY DEF recv, hostVars, Running
<1>2. /\ queue[l] \in Seq(Seqs) /\ settled[l] \in Seq(Seqs) /\ m \in Seqs /\ q \in Seq(Seqs)
      /\ settled[l] \o <<>> \o queue[l] = settled[l] \o <<m>> \o q
  <2>1. queue[l] \in Seq(Seqs) /\ settled[l] \in Seq(Seqs)
    BY <1>0 DEF TypeOK
  <2> QED BY <1>1, <2>1, TakeHead
<1> HIDE DEF m, q
<1>3. m \in 0 .. MaxSeq /\ m # 0
  BY <1>2, WorkerAssumption DEF Seqs
<1>4. /\ worker' \in [Life -> States] /\ worker'[l] = "applying"
      /\ current' \in [Life -> 0 .. MaxSeq] /\ current'[l] = m
      /\ queue' \in [Life -> Seq(Seqs)] /\ queue'[l] = q
      /\ \A k \in Life \ {l} : /\ worker'[k] = worker[k] /\ queue'[k] = queue[k]
                               /\ current'[k] = current[k]
  BY <1>0, <1>1, <1>2, <1>3 DEF TypeOK, States, Running
<1>5. attempt' \in [Life -> 0 .. U32Max] /\ backoff_ms' \in [Life -> 0 .. U64Max]
  BY <1>0, <1>1, WorkerAssumption DEF TypeOK
<1>6. TypeOK'
  BY <1>0, <1>1, <1>4, <1>5 DEF TypeOK, States
<1>7. sent[l] = settled'[l] \o InHand(l)' \o queue'[l]
  <2>1. InHand(l) = <<>> /\ InHand(l)' = <<m>>
    BY <1>0, <1>1, <1>3, <1>4 DEF LifeOK, InHand
  <2> QED BY <1>0, <1>1, <1>2, <1>4, <2>1 DEF LifeOK
<1> QED BY <1>1, <1>3, <1>4, <1>6, <1>7, WorkerMove

\* Whatever apply returned, the mutation in hand is settled.
LEMMA Settling ==
  ASSUME IInv, NEW l \in Life, worker[l] = "applying", Settle(l),
         UNCHANGED <<hostVars, queue, sent>>,
         attempt' \in [Life -> 0 .. U32Max], accepted' \in Seq(Seqs)
  PROVE  IInv'
<1>0. TypeOK /\ LifeOK(l)
  BY DEF IInv
<1>1. /\ worker' = [worker EXCEPT ![l] = "waiting"] /\ current' = [current EXCEPT ![l] = 0]
      /\ settled' = [settled EXCEPT ![l] = Append(settled[l], current[l])]
      /\ worker[l] \in Running
      /\ UNCHANGED <<setting, committed, life, engine, wired, walk, caughtUp, buffer, backoff_ms>>
  BY DEF Settle, hostVars, Running
<1>2. current[l] \in Seqs /\ settled[l] \in Seq(Seqs) /\ queue[l] \in Seq(Seqs)
  BY <1>0 DEF TypeOK, LifeOK, Seqs
<1>3. Append(settled[l], current[l]) \in Seq(Seqs)
  BY <1>2
<1>4. /\ worker' \in [Life -> States] /\ worker'[l] = "waiting"
      /\ current' \in [Life -> 0 .. MaxSeq] /\ current'[l] = 0
      /\ settled' \in [Life -> Seq(Seqs)] /\ settled'[l] = Append(settled[l], current[l])
      /\ \A k \in Life \ {l} : /\ worker'[k] = worker[k] /\ current'[k] = current[k]
                               /\ settled'[k] = settled[k]
  BY <1>0, <1>1, <1>3, WorkerAssumption DEF TypeOK, States, Running
<1>5. TypeOK'
  BY <1>0, <1>1, <1>4 DEF TypeOK, States
<1>6. sent[l] = settled'[l] \o InHand(l)' \o queue'[l]
  <2>1. InHand(l) = <<current[l]>> /\ InHand(l)' = <<>>
    BY <1>0, <1>4 DEF LifeOK, InHand
  <2>2. sent[l] = settled[l] \o <<current[l]>> \o queue[l]
    BY <1>0, <1>1, <2>1 DEF LifeOK
  <2>3. settled[l] \o <<current[l]>> \o queue[l]
          = Append(settled[l], current[l]) \o <<>> \o queue[l]
    BY <1>2, SettleNext
  <2> QED BY <1>4, <2>1, <2>2, <2>3
<1> QED BY <1>1, <1>4, <1>5, <1>6, WorkerMove

\* The controller accepts the mutation or refuses it for good.
LEMMA applyStep ==
  ASSUME IInv, NEW l \in Life, apply_ok(l) \/ apply_permanent(l)
  PROVE  IInv'
<1>0. TypeOK /\ LifeOK(l)
  BY DEF IInv
<1>1. /\ worker[l] = "applying" /\ Settle(l) /\ UNCHANGED <<hostVars, queue, attempt, sent>>
      /\ accepted' = accepted \/ accepted' = Append(accepted, current[l])
  BY DEF apply_ok, apply_permanent
<1>2. current[l] \in Seqs /\ accepted \in Seq(Seqs)
  BY <1>0, <1>1 DEF TypeOK, LifeOK, Seqs
<1>3. accepted' \in Seq(Seqs)
  BY <1>1, <1>2
<1>4. attempt' \in [Life -> 0 .. U32Max]
  BY <1>0, <1>1 DEF TypeOK
<1> QED BY <1>1, <1>3, <1>4, Settling

\* A transient error: the worker sleeps, or its budget is spent.
LEMMA apply_transientStep ==
  ASSUME IInv, NEW l \in Life, apply_transient(l)
  PROVE  IInv'
<1>0. TypeOK /\ LifeOK(l)
  BY DEF IInv
<1> DEFINE n == Least(attempt[l] + 1, U32Max)
<1>1. /\ worker[l] = "applying" /\ attempt' = [attempt EXCEPT ![l] = n]
      /\ UNCHANGED <<hostVars, setting, committed, life, engine, wired, walk, caughtUp, buffer,
                     queue, sent, accepted>>
  BY DEF apply_transient, hostVars
<1>2. n \in 0 .. U32Max
  BY <1>0, WorkerAssumption DEF TypeOK, Least
<1> HIDE DEF n
<1>3. attempt' \in [Life -> 0 .. U32Max] /\ accepted' \in Seq(Seqs)
  BY <1>0, <1>1, <1>2 DEF TypeOK
<1>4. CASE Settle(l)
  BY <1>1, <1>3, <1>4, Settling
<1>5. CASE worker' = [worker EXCEPT ![l] = "backoff"] /\ UNCHANGED <<current, backoff_ms, settled>>
  <2>1. /\ worker' \in [Life -> States] /\ worker'[l] = "backoff"
        /\ \A k \in Life \ {l} : worker'[k] = worker[k]
    BY <1>0, <1>5 DEF TypeOK, States, Running
  <2>2. TypeOK'
    BY <1>0, <1>1, <1>3, <1>5, <2>1 DEF TypeOK, States
  <2>3. InHand(l)' = InHand(l) /\ current[l] # 0 /\ worker[l] \in Running
    BY <1>0, <1>1, <1>5 DEF InHand, LifeOK, Running
  <2>4. sent[l] = settled'[l] \o InHand(l)' \o queue'[l]
    BY <1>0, <1>1, <1>5, <2>3 DEF LifeOK
  <2> QED BY <1>1, <1>5, <2>1, <2>2, <2>3, <2>4, WorkerMove
<1> QED BY <1>4, <1>5 DEF apply_transient

\* The worker tries again; the backoff doubles within its bounds.
LEMMA wakeStep ==
  ASSUME IInv, NEW l \in Life, wake(l)
  PROVE  IInv'
<1>0. TypeOK /\ LifeOK(l)
  BY DEF IInv
<1> DEFINE n == Least(Least(2 * backoff_ms[l], U64Max), setting.max_backoff_ms)
<1>1. /\ worker[l] = "backoff" /\ worker' = [worker EXCEPT ![l] = "applying"]
      /\ backoff_ms' = [backoff_ms EXCEPT ![l] = n]
      /\ UNCHANGED <<hostVars, setting, committed, life, engine, wired, walk, caughtUp, buffer,
                     queue, current, attempt, sent, settled, accepted>>
  BY DEF wake, hostVars
<1>2. n \in 0 .. U64Max
  <2>1. setting.max_backoff_ms \in 0 .. U64Max /\ backoff_ms[l] \in 0 .. U64Max
    BY <1>0, WorkerAssumption DEF TypeOK, Setting
  <2> QED BY <2>1, WorkerAssumption DEF Least
<1> HIDE DEF n
<1>3. /\ worker' \in [Life -> States] /\ worker'[l] = "applying"
      /\ \A k \in Life \ {l} : worker'[k] = worker[k]
  BY <1>0, <1>1 DEF TypeOK, States, Running
<1>4. backoff_ms' \in [Life -> 0 .. U64Max]
  BY <1>0, <1>1, <1>2 DEF TypeOK
<1>5. TypeOK'
  BY <1>0, <1>1, <1>3, <1>4 DEF TypeOK, States
<1>6. InHand(l)' = InHand(l) /\ current[l] # 0 /\ worker[l] \in Running
  BY <1>0, <1>1 DEF InHand, LifeOK, Running
<1>7. sent[l] = settled'[l] \o InHand(l)' \o queue'[l]
  BY <1>0, <1>1, <1>6 DEF LifeOK
<1> QED BY <1>1, <1>3, <1>5, <1>6, <1>7, WorkerMove

\* At the end of the channel nothing is queued and nothing in hand.
LEMMA flushStep ==
  ASSUME IInv, NEW l \in Life, flush(l)
  PROVE  IInv'
<1>0. TypeOK /\ LifeOK(l)
  BY DEF IInv
<1>1. /\ worker[l] = "waiting" /\ queue[l] = <<>> /\ ~SenderAlive(l)
      /\ worker' = [worker EXCEPT ![l] = "flushed"]
      /\ UNCHANGED <<hostVars, setting, committed, life, engine, wired, walk, caughtUp, buffer,
                     queue, current, attempt, backoff_ms, sent, settled, accepted>>
  BY DEF flush, hostVars, retryVars
<1>2. /\ worker' \in [Life -> States] /\ worker'[l] = "flushed"
      /\ \A k \in Life \ {l} : worker'[k] = worker[k]
  BY <1>0, <1>1 DEF TypeOK, States, Running
<1>3. TypeOK'
  BY <1>0, <1>1, <1>2 DEF TypeOK, States
<1>4. current[l] = 0 /\ worker[l] \in Running /\ worker'[l] \notin Running
  BY <1>0, <1>1, <1>2 DEF LifeOK, Running
<1>5. settled[l] = sent[l]
  <2>1. sent[l] = settled[l] \o <<>> \o <<>>
    BY <1>0, <1>1, <1>4 DEF LifeOK, InHand
  <2>2. settled[l] \in Seq(Seqs)
    BY <1>0 DEF TypeOK
  <2> QED BY <2>1, <2>2
<1> QED BY <1>1, <1>2, <1>3, <1>4, <1>5, WorkerMove

-----------------------------------------------------------------------------

\* Nothing was ever sent.
LEMMA InitIInv == Init => IInv
<1> SUFFICES ASSUME Init PROVE IInv
  OBVIOUS
<1>1. TypeOK
  <2>1. /\ committed \in 0 .. MaxSeq /\ life \in 0 .. MaxLives /\ walk \in 0 .. committed
        /\ setting \in Settings
    BY WorkerAssumption DEF Init
  <2>2. worker \in [Life -> States]
    BY DEF Init, States
  <2>3. /\ queue \in [Life -> Seq(Seqs)] /\ sent \in [Life -> Seq(Seqs)]
        /\ settled \in [Life -> Seq(Seqs)]
        /\ buffer \in Seq(Seqs) /\ accepted \in Seq(Seqs)
    BY DEF Init
  <2>4. /\ current \in [Life -> 0 .. MaxSeq] /\ attempt \in [Life -> 0 .. U32Max]
        /\ backoff_ms \in [Life -> 0 .. U64Max]
    BY WorkerAssumption DEF Init
  <2> QED BY <2>1, <2>2, <2>3, <2>4 DEF Init, TypeOK, States
<1>2. HostOK /\ ReplayOK /\ ReplayCatchesUp
  BY DEF Init, HostOK, ReplayOK, ReplayCatchesUp
<1>3. \A l \in Life : LifeOK(l)
  BY DEF Init, LifeOK, Running
<1> QED BY <1>1, <1>2, <1>3 DEF IInv

\* Nothing changes.
LEMMA StutterIInv ==
  ASSUME IInv, UNCHANGED vars
  PROVE  IInv'
<1>0. TypeOK /\ HostOK /\ (\A l \in Life : LifeOK(l)) /\ ReplayOK /\ ReplayCatchesUp
  BY DEF IInv
<1>1. UNCHANGED <<setting, committed, life, engine, wired, walk, caughtUp, buffer, worker, queue,
                  current, attempt, backoff_ms, sent, settled, accepted>>
  BY DEF vars
<1>2. TypeOK'
  BY <1>0, <1>1 DEF TypeOK
<1>3. HostOK' /\ ReplayOK' /\ ReplayCatchesUp'
  BY <1>0, <1>1 DEF HostOK, ReplayOK, ReplayCatchesUp
<1>4. \A l \in Life : SenderAlive(l)' => SenderAlive(l)
  BY <1>1 DEF SenderAlive
<1>5. \A l \in Life : l > life \/ (l = life /\ engine # "closed" /\ wired # "worker")
                       => worker[l] = "none"
  BY <1>0 DEF LifeOK
<1> QED BY <1>1, <1>2, <1>3, <1>4, <1>5, HostMove

\* The invariant is inductive.
LEMMA NextIInv == IInv /\ [Next]_vars => IInv'
<1> SUFFICES ASSUME IInv, [Next]_vars PROVE IInv'
  OBVIOUS
<1>1. CASE HostStep
  BY <1>1, openStep, commitStep, with_mutation_logStep, spawnStep, take_bufferStep,
     StartReplayStep, ReplayOneStep, EndReplayStep, DropEngineStep DEF HostStep
<1>2. CASE Crash
  BY <1>2, CrashStep
<1>3. ASSUME NEW l \in Life, WorkerStep(l) PROVE IInv'
  BY <1>3, connectStep, recvStep, applyStep, apply_transientStep, wakeStep, flushStep
     DEF WorkerStep
<1>4. CASE UNCHANGED vars
  BY <1>4, StutterIInv
<1> QED BY <1>1, <1>2, <1>3, <1>4 DEF Next

\* The inductive invariant holds in every state that the engine's lives and their workers
\* can reach.
THEOREM WorkerInvariance == Spec => []IInv
BY InitIInv, NextIInv, PTL DEF Spec

\* The counters of retry_apply saturate within their width, whatever the settings.
THEOREM CountersSaturate == Spec => []TypeOK
<1>1. IInv => TypeOK
  BY DEF IInv
<1> QED BY <1>1, WorkerInvariance, PTL

\* Between record and apply nothing is lost, doubled or reordered.
THEOREM ChannelsAreFifo == Spec => []FifoPerWorker
<1>1. IInv => FifoPerWorker
  BY DEF IInv, LifeOK, FifoPerWorker
<1> QED BY <1>1, WorkerInvariance, PTL

\* A worker flushes only when it has settled everything it was ever sent.
THEOREM FlushIsLast == Spec => []FlushComesLast
<1>1. IInv => FlushComesLast
  BY DEF IInv, LifeOK, FlushComesLast
<1> QED BY <1>1, WorkerInvariance, PTL

\* After a replay, and through the commits that follow it, the worker of the life has been
\* sent every mutation of the durable log, as long as it runs.
THEOREM ReplaySendsAll == Spec => []ReplayCatchesUp
<1>1. IInv => ReplayCatchesUp
  BY DEF IInv
<1> QED BY <1>1, WorkerInvariance, PTL
=============================================================================
