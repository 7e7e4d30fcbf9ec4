-------------------------- MODULE ReleaseFanoutProofs ---------------------------
(***************************************************************************)
(* The fan-out of a batch, for any number of batches, subscriptions,       *)
(* re-tries, failures and toggles, and any limit of a sendBatch: an        *)
(* attempt that ends has left nobody out, and an attempt queues nobody     *)
(* twice.  The inductive invariant says what an attempt still owes: who is *)
(* left to it, and what it may yet queue.                                  *)
(***************************************************************************)
EXTENDS ReleaseFanout, TLAPS

Jobs == [pc : {"none", "waiting", "org", "follows", "send", "done", "dropped"},
         left : SUBSET Subs, tries : Nat]

\* Whom an attempt has yet to queue, or has reached.
Reaches(j, b) ==
    /\ j.pc = "follows" => steady[b] \cap Org \subseteq j.left
    /\ j.pc = "send" => \A s \in steady[b] : s \in j.left \/ delivered[b][s] > 0
    /\ j.pc = "done" => \A s \in steady[b] : delivered[b][s] > 0

\* What an attempt may still queue for s.
Pending(j, s) ==
    IF j.pc \in {"org", "follows"} \/ (j.pc = "send" /\ s \in j.left) THEN 1 ELSE 0

Once(s, c) == IF s \in c THEN 1 ELSE 0

CountInv ==
    \A b \in Batches, s \in Subs :
        delivered[b][s] + Pending(job[b]["queue"], s) + Pending(job[b]["inline"], s)
          <= Attempts(b)

FanoutInv ==
    /\ TypeOK
    /\ \A b \in Batches : steady[b] \subseteq enabled
    /\ \A b \in Batches, v \in Via :
         /\ job[b][v].pc = "none" => job[b][v].tries = 0
         /\ Reaches(job[b][v], b)
    /\ CountInv

-----------------------------------------------------------------------------
(* Lemmas about one attempt.                                               *)

LEMMA JobsTyped == TypeOK => \A b \in Batches, v \in Via : job[b][v] \in Jobs
  BY DEF TypeOK, Jobs

\* A chunk is part of what is left.
LEMMA ChunkPart == ASSUME NEW l PROVE Chunk(l) \subseteq l
  BY DEF Chunk

LEMMA QueuedPoints ==
  ASSUME NEW b \in Batches, NEW c, delivered \in [Batches -> [Subs -> Nat]],
         delivered' = QueuedOnce(delivered, b, c)
  PROVE  /\ delivered' \in [Batches -> [Subs -> Nat]]
         /\ \A s \in Subs : delivered'[b][s] = delivered[b][s] + Once(s, c)
         /\ \A b2 \in Batches : b2 # b => delivered'[b2] = delivered[b2]
  BY DEF QueuedOnce, Once

\* Every step of an attempt at b replaces its job by j and queues the chunk c: it
\* keeps the invariant if j owes no more than the job before it.
LEMMA AttemptStep ==
  ASSUME FanoutInv, NEW b \in Batches, NEW v \in Via, NEW j \in Jobs, NEW c \in SUBSET Subs,
         job' = [job EXCEPT ![b][v] = j],
         delivered' \in [Batches -> [Subs -> Nat]],
         \A s \in Subs : delivered'[b][s] = delivered[b][s] + Once(s, c),
         \A b2 \in Batches : b2 # b => delivered'[b2] = delivered[b2],
         steady' = steady, enabled' = enabled, faults' \in Nat, toggles' \in Nat,
         j.pc = "none" => j.tries = 0,
         j.pc = "follows" => steady[b] \cap Org \subseteq j.left,
         j.pc = "send" => \A s \in steady[b] : s \in j.left \cup c \/ delivered[b][s] > 0,
         j.pc = "done" => \A s \in steady[b] : s \in c \/ delivered[b][s] > 0,
         \A s \in Subs : Once(s, c) + Pending(j, s) + job[b][v].tries
                           <= Pending(job[b][v], s) + j.tries
  PROVE  FanoutInv'
<1>0. /\ TypeOK /\ CountInv
      /\ \A b2 \in Batches : steady[b2] \subseteq enabled
      /\ \A b2 \in Batches, v2 \in Via :
           /\ job[b2][v2].pc = "none" => job[b2][v2].tries = 0
           /\ Reaches(job[b2][v2], b2)
  BY DEF FanoutInv
<1>1. /\ job' \in [Batches -> [Via -> Jobs]]
      /\ job'[b][v] = j
      /\ \A b2 \in Batches, v2 \in Via : b2 # b \/ v2 # v => job'[b2][v2] = job[b2][v2]
  BY <1>0 DEF TypeOK, Jobs
<1>2. TypeOK'
  BY <1>0, <1>1 DEF TypeOK, Jobs
<1>3. \A b2 \in Batches : steady'[b2] \subseteq enabled'
  BY <1>0
<1>4. \A b2 \in Batches, s \in Subs : delivered'[b2][s] >= delivered[b2][s]
  BY <1>0 DEF TypeOK, Once
<1>5. \A s \in Subs : s \in c => delivered'[b][s] > 0
  BY <1>0 DEF TypeOK, Once
<1>6. \A b2 \in Batches : steady[b2] \subseteq Subs
  BY <1>0 DEF TypeOK
<1>7. ASSUME NEW b2 \in Batches, NEW v2 \in Via
      PROVE  /\ job'[b2][v2].pc = "none" => job'[b2][v2].tries = 0
             /\ Reaches(job[b2][v2], b2)'
  <2>1. CASE b2 = b /\ v2 = v
    <3>1. \A s \in steady[b] : delivered[b][s] > 0 => delivered'[b][s] > 0
      BY <1>0, <1>4, <1>6 DEF TypeOK
    <3> QED
      BY <2>1, <3>1, <1>1, <1>5, <1>6 DEF Reaches
  <2>2. CASE b2 # b \/ v2 # v
    <3>1. \A s \in steady[b2] : delivered[b2][s] > 0 => delivered'[b2][s] > 0
      BY <1>0, <1>4, <1>6 DEF TypeOK
    <3>2. job'[b2][v2] = job[b2][v2]
      BY <2>2, <1>1
    <3> QED
      BY <1>0, <3>1, <3>2 DEF Reaches
  <2> QED
    BY <2>1, <2>2
<1>8. CountInv'
  <2> SUFFICES ASSUME NEW b2 \in Batches, NEW s \in Subs
               PROVE  delivered'[b2][s] + Pending(job'[b2]["queue"], s)
                        + Pending(job'[b2]["inline"], s)
                        <= job'[b2]["queue"].tries + job'[b2]["inline"].tries
    BY DEF CountInv, Attempts
  <2> DEFINE P(w) == Pending(job[b2][w], s)
             Q(w) == Pending(job'[b2][w], s)
             T(w) == job[b2][w].tries
             U(w) == job'[b2][w].tries
             D == delivered[b2][s]
             E == delivered'[b2][s]
             O == Once(s, c)
  <2>1. \A w \in Via : P(w) \in {0, 1} /\ Q(w) \in {0, 1}
    BY DEF Pending
  <2>2. \A w \in Via : T(w) \in Nat /\ U(w) \in Nat
    BY <1>0, <1>1, JobsTyped DEF Jobs
  <2>3. D \in Nat /\ E \in Nat /\ O \in {0, 1}
    BY <1>0 DEF TypeOK, Once
  <2>4. D + P("queue") + P("inline") <= T("queue") + T("inline")
    BY <1>0 DEF CountInv, Attempts
  <2>5. CASE b2 # b
    BY <2>4, <2>5, <1>1 DEF Via
  <2>6. CASE b2 = b
    <3>1. E = D + O /\ O + Q(v) + T(v) <= P(v) + U(v)
      BY <2>6, <1>1
    <3>2. \A w \in Via : w # v => Q(w) = P(w) /\ U(w) = T(w)
      BY <2>6, <1>1
    <3>3. "queue" \in Via /\ "inline" \in Via /\ v \in {"queue", "inline"}
      BY DEF Via
    <3> HIDE DEF P, Q, T, U, D, E, O
    <3>4. E + Q("queue") + Q("inline") <= U("queue") + U("inline")
      <4>1. CASE v = "queue"
        BY <4>1, <2>1, <2>2, <2>3, <2>4, <3>1, <3>2, <3>3
      <4>2. CASE v = "inline"
        BY <4>2, <2>1, <2>2, <2>3, <2>4, <3>1, <3>2, <3>3
      <4> QED
        BY <3>3, <4>1, <4>2
    <3> QED
      BY <3>4 DEF Q, U, E
  <2> QED
    BY <2>5, <2>6
<1> QED
  BY <1>2, <1>3, <1>7, <1>8 DEF FanoutInv

-----------------------------------------------------------------------------
(* The steps.                                                              *)

\* A step that queues nothing queues the empty chunk.
LEMMA NothingQueued ==
  ASSUME FanoutInv, NEW b \in Batches, delivered' = delivered
  PROVE  /\ delivered' \in [Batches -> [Subs -> Nat]]
         /\ \A s \in Subs : delivered'[b][s] = delivered[b][s] + Once(s, {})
         /\ \A b2 \in Batches : b2 # b => delivered'[b2] = delivered[b2]
<1>1. delivered \in [Batches -> [Subs -> Nat]]
  BY DEF FanoutInv, TypeOK
<1> QED
  BY <1>1 DEF Once

\* What the invariant says of one job.
LEMMA Parts ==
  ASSUME FanoutInv, NEW b \in Batches, NEW v \in Via
  PROVE  /\ job[b][v] \in Jobs /\ Reaches(job[b][v], b)
         /\ steady[b] \subseteq enabled /\ enabled \subseteq Subs
         /\ faults \in Nat /\ toggles \in Nat
  BY JobsTyped DEF FanoutInv, TypeOK

LEMMA InitFanout == Init => FanoutInv
<1> SUFFICES ASSUME Init PROVE FanoutInv
  OBVIOUS
<1>1. TypeOK
  BY DEF Init, TypeOK, NoJob
<1>2. CountInv
  BY DEF Init, CountInv, NoJob, Via, Attempts, Pending
<1> QED
  BY <1>1, <1>2 DEF Init, FanoutInv, Reaches, NoJob

\* A new batch: no delivery, and at most one attempt.
LEMMA PublishStep ==
  ASSUME FanoutInv, NEW b \in Batches, Publish(b) \/ PublishThrows(b) \/ PublishNothing(b)
  PROVE  FanoutInv'
<1>1. /\ TypeOK /\ CountInv
      /\ \A b2 \in Batches : steady[b2] \subseteq enabled
      /\ \A b2 \in Batches, v2 \in Via :
           /\ job[b2][v2].pc = "none" => job[b2][v2].tries = 0
           /\ Reaches(job[b2][v2], b2)
  BY DEF FanoutInv
<1>2. PICK q \in {Waiting, NoJob, Dropped}, i \in {NoJob, Attempt(NoJob), job[b]["inline"]} :
        /\ job' = [job EXCEPT ![b] = [v \in Via |-> IF v = "queue" THEN q ELSE i]]
        /\ i = Attempt(NoJob) \/ i = job[b]["inline"]
  <2>1. CASE Publish(b)
    <3>1. job' = [job EXCEPT ![b] = [v \in Via |-> IF v = "queue" THEN Waiting
                                                     ELSE job[b]["inline"]]]
      BY <2>1, <1>1 DEF Publish, TypeOK, Via
    <3> QED
      BY <3>1
  <2>2. CASE PublishThrows(b)
    BY <2>2 DEF PublishThrows
  <2>3. CASE PublishNothing(b)
    <3>1. job' = [job EXCEPT ![b] = [v \in Via |-> IF v = "queue" THEN Dropped
                                                     ELSE job[b]["inline"]]]
      BY <2>3, <1>1 DEF PublishNothing, TypeOK, Via
    <3> QED
      BY <3>1
  <2> QED
    BY <2>1, <2>2, <2>3
<1>3. /\ New(b) /\ UNCHANGED <<enabled, delivered, toggles>> /\ faults' \in Nat
      /\ steady' \in {steady, [steady EXCEPT ![b] = enabled]}
  BY <1>1, FanoutAssumption DEF Publish, PublishThrows, PublishNothing, Fault, TypeOK
<1>4. q \in Jobs /\ i \in Jobs
  BY <1>1, <1>2, JobsTyped DEF Jobs, Waiting, NoJob, Dropped, Attempt, Via
<1>5. TypeOK'
  BY <1>1, <1>2, <1>3, <1>4 DEF TypeOK, Jobs
<1>6. job[b]["queue"].pc = "none" /\ job[b]["inline"].pc = "none"
  BY <1>3 DEF New, Via
<1>7. \A s \in Subs : delivered[b][s] = 0
  BY <1>1, <1>6 DEF CountInv, Attempts, Pending, TypeOK, Via
<1>8. /\ job'[b]["queue"] = q /\ job'[b]["inline"] = i
      /\ \A b2 \in Batches : b2 # b => job'[b2] = job[b2] /\ steady'[b2] = steady[b2]
  BY <1>1, <1>2, <1>3 DEF TypeOK, Via
<1>9. \A b2 \in Batches : steady'[b2] \subseteq enabled'
  BY <1>1, <1>3 DEF TypeOK
<1>10. ASSUME NEW b2 \in Batches, NEW v2 \in Via
       PROVE  /\ job'[b2][v2].pc = "none" => job'[b2][v2].tries = 0
              /\ Reaches(job[b2][v2], b2)'
  <2>1. CASE b2 = b
    <3>1. \A j \in {q, i} : j.pc \notin {"follows", "send", "done"}
                             /\ (j.pc = "none" => j.tries = 0)
      BY <1>1, <1>2, <1>6 DEF Waiting, NoJob, Dropped, Attempt, Via
    <3>2. job'[b2][v2] \in {q, i}
      BY <2>1, <1>8 DEF Via
    <3> QED
      BY <3>1, <3>2 DEF Reaches
  <2>2. CASE b2 # b
    BY <2>2, <1>1, <1>3, <1>8 DEF Reaches
  <2> QED
    BY <2>1, <2>2
<1>11. CountInv'
  <2> SUFFICES ASSUME NEW b2 \in Batches, NEW s \in Subs
               PROVE  delivered'[b2][s] + Pending(job'[b2]["queue"], s)
                        + Pending(job'[b2]["inline"], s)
                        <= job'[b2]["queue"].tries + job'[b2]["inline"].tries
    BY DEF CountInv, Attempts
  <2>1. CASE b2 = b
    <3>1. Pending(q, s) = 0 /\ q.tries = 0
      BY <1>2 DEF Pending, Waiting, NoJob, Dropped
    <3>2. Pending(i, s) = i.tries /\ i.tries \in Nat
      BY <1>1, <1>2, <1>6 DEF Pending, NoJob, Attempt, Via
    <3> QED
      BY <2>1, <3>1, <3>2, <1>3, <1>7, <1>8
  <2>2. CASE b2 # b
    BY <2>2, <1>1, <1>3, <1>8 DEF CountInv, Attempts
  <2> QED
    BY <2>1, <2>2
<1> QED
  BY <1>5, <1>9, <1>10, <1>11 DEF FanoutInv

LEMMA TakeStep == ASSUME FanoutInv, NEW b \in Batches, Take(b) PROVE FanoutInv'
<1>1. "queue" \in Via
  BY DEF Via
<1>2. job[b]["queue"] \in Jobs /\ job[b]["queue"].pc = "waiting"
  BY <1>1, Parts DEF Take
<1> DEFINE j == Attempt(job[b]["queue"])
<1>3. job' = [job EXCEPT ![b]["queue"] = j] /\ delivered' = delivered
  BY DEF Take
<1>4. j \in Jobs /\ j.pc = "org" /\ j.tries = job[b]["queue"].tries + 1
  BY <1>2 DEF Jobs, Attempt
<1>5. \A s \in Subs : Once(s, {}) + Pending(j, s) + job[b]["queue"].tries
                        <= Pending(job[b]["queue"], s) + j.tries
  BY <1>2, <1>4 DEF Pending, Once, Jobs
<1>6. steady' = steady /\ enabled' = enabled /\ faults' \in Nat /\ toggles' \in Nat
  BY <1>1, Parts DEF Take
<1> HIDE DEF j
<1> QED
  BY <1>1, <1>3, <1>4, <1>5, <1>6, NothingQueued, AttemptStep

LEMMA LoadOrgStep ==
  ASSUME FanoutInv, NEW b \in Batches, NEW v \in Via, LoadOrg(b, v)
  PROVE  FanoutInv'
<1>1. job[b][v] \in Jobs /\ job[b][v].pc = "org" /\ steady[b] \subseteq enabled
  BY Parts DEF LoadOrg
<1> DEFINE j == [job[b][v] EXCEPT !.left = enabled \cap Org, !.pc = "follows"]
<1>2. job' = [job EXCEPT ![b][v] = j] /\ delivered' = delivered
  <2>1. job \in [Batches -> [Via -> Jobs]]
    BY DEF FanoutInv, TypeOK, Jobs
  <2> QED
    BY <2>1 DEF LoadOrg, Jobs
<1>3. j \in Jobs /\ j.pc = "follows" /\ j.left = enabled \cap Org /\ j.tries = job[b][v].tries
  BY <1>1, Parts DEF Jobs
<1>4. \A s \in Subs : Once(s, {}) + Pending(j, s) + job[b][v].tries
                        <= Pending(job[b][v], s) + j.tries
  BY <1>1, <1>3 DEF Pending, Once, Jobs
<1>5. steady' = steady /\ enabled' = enabled /\ faults' \in Nat /\ toggles' \in Nat
  BY Parts DEF LoadOrg
<1>6. steady[b] \cap Org \subseteq j.left
  BY <1>1, <1>3
<1> HIDE DEF j
<1> QED
  BY <1>2, <1>3, <1>4, <1>5, <1>6, NothingQueued, AttemptStep

\* The two queries together find every subscription that was enabled throughout.
LEMMA LoadFollowsStep ==
  ASSUME FanoutInv, NEW b \in Batches, NEW v \in Via, LoadFollows(b, v)
  PROVE  FanoutInv'
<1>1. /\ job[b][v] \in Jobs /\ job[b][v].pc = "follows" /\ steady[b] \subseteq enabled
      /\ steady[b] \cap Org \subseteq job[b][v].left /\ enabled \subseteq Subs
  BY Parts DEF LoadFollows, Reaches
<1> DEFINE j == [job[b][v] EXCEPT !.left = job[b][v].left \cup (enabled \ Org), !.pc = "send"]
<1>2. job' = [job EXCEPT ![b][v] = j] /\ delivered' = delivered
  <2>1. job \in [Batches -> [Via -> Jobs]]
    BY DEF FanoutInv, TypeOK, Jobs
  <2> QED
    BY <2>1 DEF LoadFollows, Jobs
<1>3. /\ j \in Jobs /\ j.pc = "send" /\ j.tries = job[b][v].tries
      /\ j.left = job[b][v].left \cup (enabled \ Org)
  BY <1>1 DEF Jobs
<1>4. \A s \in Subs : Once(s, {}) + Pending(j, s) + job[b][v].tries
                        <= Pending(job[b][v], s) + j.tries
  BY <1>1, <1>3 DEF Pending, Once, Jobs
<1>5. steady' = steady /\ enabled' = enabled /\ faults' \in Nat /\ toggles' \in Nat
  BY Parts DEF LoadFollows
<1>6. steady[b] \subseteq j.left
  BY <1>1, <1>3
<1> HIDE DEF j
<1> QED
  BY <1>2, <1>3, <1>4, <1>5, <1>6, NothingQueued, AttemptStep

\* A chunk goes from what is left to what is queued.
LEMMA SendChunkStep ==
  ASSUME FanoutInv, NEW b \in Batches, NEW v \in Via, SendChunk(b, v)
  PROVE  FanoutInv'
<1> DEFINE c == Chunk(job[b][v].left)
           j == [job[b][v] EXCEPT !.left = job[b][v].left \ c]
<1>1. /\ job[b][v] \in Jobs /\ job[b][v].pc = "send"
      /\ \A s \in steady[b] : s \in job[b][v].left \/ delivered[b][s] > 0
  BY Parts DEF SendChunk, Reaches
<1>2. c \subseteq job[b][v].left /\ c \in SUBSET Subs
  BY <1>1, ChunkPart DEF Jobs
<1>3. job' = [job EXCEPT ![b][v] = j] /\ delivered' = QueuedOnce(delivered, b, c)
  <2>1. job \in [Batches -> [Via -> Jobs]]
    BY DEF FanoutInv, TypeOK, Jobs
  <2> QED
    BY <2>1 DEF SendChunk, Jobs
<1> HIDE DEF c
<1>4. j \in Jobs /\ j.pc = "send" /\ j.left = job[b][v].left \ c /\ j.tries = job[b][v].tries
  BY <1>1 DEF Jobs
<1>5. \A s \in Subs : Once(s, c) + Pending(j, s) + job[b][v].tries
                        <= Pending(job[b][v], s) + j.tries
  BY <1>1, <1>2, <1>4 DEF Pending, Once, Jobs
<1>6. steady' = steady /\ enabled' = enabled /\ faults' \in Nat /\ toggles' \in Nat
  BY Parts DEF SendChunk
<1>7. \A s \in steady[b] : s \in j.left \cup c \/ delivered[b][s] > 0
  BY <1>1, <1>4
<1>8. delivered \in [Batches -> [Subs -> Nat]]
  BY DEF FanoutInv, TypeOK
<1> HIDE DEF j
<1>9. /\ delivered' \in [Batches -> [Subs -> Nat]]
      /\ \A s \in Subs : delivered'[b][s] = delivered[b][s] + Once(s, c)
      /\ \A b2 \in Batches : b2 # b => delivered'[b2] = delivered[b2]
  BY <1>3, <1>8, QueuedPoints
<1> QED
  BY <1>2, <1>3, <1>4, <1>5, <1>6, <1>7, <1>9, AttemptStep

LEMMA FinishStep ==
  ASSUME FanoutInv, NEW b \in Batches, NEW v \in Via, Finish(b, v)
  PROVE  FanoutInv'
<1>1. /\ job[b][v] \in Jobs /\ job[b][v].pc = "send"
      /\ \A s \in steady[b] : delivered[b][s] > 0
  BY Parts DEF Finish, Reaches
<1> DEFINE j == [job[b][v] EXCEPT !.pc = "done"]
<1>2. job' = [job EXCEPT ![b][v] = j] /\ delivered' = delivered
  <2>1. job \in [Batches -> [Via -> Jobs]]
    BY DEF FanoutInv, TypeOK, Jobs
  <2> QED
    BY <2>1 DEF Finish, Jobs
<1>3. j \in Jobs /\ j.pc = "done" /\ j.tries = job[b][v].tries
  BY <1>1 DEF Jobs
<1>4. \A s \in Subs : Once(s, {}) + Pending(j, s) + job[b][v].tries
                        <= Pending(job[b][v], s) + j.tries
  BY <1>1, <1>3 DEF Pending, Once, Jobs
<1>5. steady' = steady /\ enabled' = enabled /\ faults' \in Nat /\ toggles' \in Nat
  BY Parts DEF Finish
<1> HIDE DEF j
<1> QED
  BY <1>1, <1>2, <1>3, <1>4, <1>5, NothingQueued, AttemptStep

\* A failure may queue a chunk, and owes nothing more.
LEMMA FailsStep ==
  ASSUME FanoutInv, NEW b \in Batches, NEW v \in Via, Fails(b, v)
  PROVE  FanoutInv'
<1>1. job[b][v] \in Jobs /\ job[b][v].pc \in {"org", "follows", "send"}
  BY Parts DEF Fails
<1>2. PICK c \in {{}} \cup (IF job[b][v].pc = "send" THEN {Chunk(job[b][v].left)} ELSE {}) :
        delivered' = QueuedOnce(delivered, b, c)
  BY DEF Fails
<1>3. c \in SUBSET Subs /\ (c # {} => job[b][v].pc = "send" /\ c \subseteq job[b][v].left)
  BY <1>1, <1>2, ChunkPart DEF Jobs
<1> DEFINE j == AfterFailure(job[b][v], v)
<1>4. job' = [job EXCEPT ![b][v] = j]
  BY DEF Fails
<1>5. j \in Jobs /\ j.pc \in {"waiting", "dropped"} /\ j.tries = job[b][v].tries
  BY <1>1 DEF Jobs, AfterFailure
<1>6. \A s \in Subs : Once(s, c) + Pending(j, s) + job[b][v].tries
                        <= Pending(job[b][v], s) + j.tries
  <2> SUFFICES ASSUME NEW s \in Subs
               PROVE  Once(s, c) <= Pending(job[b][v], s) /\ Pending(j, s) = 0
    BY <1>1, <1>5 DEF Pending, Once, Jobs
  <2> QED
    BY <1>1, <1>3, <1>5 DEF Pending, Once
<1>7. steady' = steady /\ enabled' = enabled /\ faults' \in Nat /\ toggles' \in Nat
  BY Parts DEF Fails, Fault
<1>8. delivered \in [Batches -> [Subs -> Nat]]
  BY DEF FanoutInv, TypeOK
<1> HIDE DEF j
<1>9. /\ delivered' \in [Batches -> [Subs -> Nat]]
      /\ \A s \in Subs : delivered'[b][s] = delivered[b][s] + Once(s, c)
      /\ \A b2 \in Batches : b2 # b => delivered'[b2] = delivered[b2]
  BY <1>2, <1>8, QueuedPoints
<1> QED
  BY <1>3, <1>4, <1>5, <1>6, <1>7, <1>9, AttemptStep

\* A toggle can only shorten the list of those enabled throughout.
LEMMA ToggleStep ==
  ASSUME FanoutInv, NEW s \in Subs, Disable(s) \/ Enable(s)
  PROVE  FanoutInv'
<1>1. /\ \A b \in Batches : steady'[b] \subseteq steady[b] /\ steady'[b] \subseteq enabled'
      /\ enabled' \subseteq Subs /\ toggles' \in Nat
      /\ steady' \in [Batches -> SUBSET Subs]
      /\ UNCHANGED <<job, delivered, faults>>
  BY DEF FanoutInv, TypeOK, Disable, Enable
<1>2. TypeOK'
  BY <1>1 DEF FanoutInv, TypeOK
<1>3. CountInv'
  BY <1>1 DEF FanoutInv, CountInv, Attempts, Pending
<1>4. \A b \in Batches, v \in Via : job'[b][v].pc = "none" => job'[b][v].tries = 0
  BY <1>1 DEF FanoutInv
<1>5. \A b \in Batches, v \in Via : Reaches(job[b][v], b)'
  BY <1>1, Parts DEF Reaches
<1> QED
  BY <1>1, <1>2, <1>3, <1>4, <1>5 DEF FanoutInv

LEMMA FanoutSteps == FanoutInv /\ [Next]_vars => FanoutInv'
<1> SUFFICES ASSUME FanoutInv, [Next]_vars PROVE FanoutInv'
  OBVIOUS
<1>1. ASSUME NEW b \in Batches, Publish(b) \/ PublishThrows(b) \/ PublishNothing(b) \/ Take(b)
      PROVE  FanoutInv'
  BY <1>1, PublishStep, TakeStep
<1>2. ASSUME NEW b \in Batches, NEW v \in Via, Works(b, v) \/ Fails(b, v)
      PROVE  FanoutInv'
  BY <1>2, LoadOrgStep, LoadFollowsStep, SendChunkStep, FinishStep, FailsStep DEF Works
<1>3. ASSUME NEW s \in Subs, Disable(s) \/ Enable(s)
      PROVE  FanoutInv'
  BY <1>3, ToggleStep
<1>4. CASE UNCHANGED vars
  BY <1>4 DEF vars, FanoutInv, TypeOK, CountInv, Attempts, Pending, Reaches
<1> QED
  BY <1>1, <1>2, <1>3, <1>4 DEF Next

-----------------------------------------------------------------------------
(* What is proved of every fan-out.                                        *)

\* The invariant holds of every behaviour, for any constants.
THEOREM FanoutInvariance == Spec => []FanoutInv
  BY InitFanout, FanoutSteps, PTL DEF Spec

\* Every variable keeps its type.
THEOREM FanoutTypes == Spec => []TypeOK
<1>1. FanoutInv => TypeOK
  BY DEF FanoutInv
<1> QED
  BY <1>1, FanoutInvariance, PTL

\* A fan-out that ended has queued a delivery for every subscription that was enabled
\* from the publication on (expandAndEnqueue), for any number of re-tries and failures.
THEOREM NobodyIsLeftOut == Spec => []EveryMatchGetsEvent
<1>1. FanoutInv => EveryMatchGetsEvent
  BY DEF FanoutInv, Reaches, EveryMatchGetsEvent
<1> QED
  BY <1>1, FanoutInvariance, PTL

\* No subscription is queued a batch more often than it was attempted: the chunks of
\* one attempt never overlap, whatever fails.
THEOREM AttemptsBoundDuplicates == Spec => []DuplicatesNeedFailures
<1>1. ASSUME FanoutInv, NEW b \in Batches, NEW s \in Subs
      PROVE  delivered[b][s] <= Attempts(b)
  <2>1. \A v \in Via : Pending(job[b][v], s) \in {0, 1} /\ job[b][v].tries \in Nat
    BY <1>1, Parts DEF Pending, Jobs
  <2> QED
    BY <1>1, <2>1 DEF FanoutInv, TypeOK, CountInv, Attempts, Via
<1>2. FanoutInv => DuplicatesNeedFailures
  BY <1>1 DEF DuplicatesNeedFailures
<1> QED
  BY <1>2, FanoutInvariance, PTL
=============================================================================
