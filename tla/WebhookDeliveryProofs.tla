------------------------- MODULE WebhookDeliveryProofs -------------------------
(***************************************************************************)
(* The webhooks worker, for any number of subscriptions, messages and      *)
(* consumers, and any thresholds, re-tries, edits and crashes.  The        *)
(* inductive invariant has two halves: where each message is, and what a   *)
(* subscription's row, its notices and the snapshots of the consumers that *)
(* are about to pause it have to do with each other.                       *)
(***************************************************************************)
EXTENDS WebhookDelivery, FiniteSetTheorems, TLAPS

\* A message that is taken is with exactly one consumer, and one that was given up
\* has used all its deliveries.
Held ==
  \A c \in Consumers :
    /\ pc[c] = "idle" <=> job[c] = NoJob
    /\ job[c] # NoJob => place[job[c]] = "taken"
    /\ \A d \in Consumers : c # d /\ job[c] # NoJob => job[d] # job[c]

Carried ==
  \A m \in Messages :
    /\ place[m] = "taken" => \E c \in Consumers : job[c] = m
    /\ place[m] = "queued" => attempts[m] <= MAX_RETRIES
    /\ place[m] \in {"dlq", "dead"} => attempts[m] = MAX_RETRIES + 1

\* A consumer about to pause holds a snapshot that calls for it.
Called == \A c \in Consumers : pc[c] = "pause" => ShouldAutoDisable(Target(c), seen[c])

\* An enabled subscription has mailed nothing since it was enabled.
Unnoticed == \A s \in Subs : Exists(s) /\ sub[s].enabled => notices[s] = 0

QueueInv  == Held /\ Carried
HealthInv == /\ CountersAreExact /\ NoStalePause /\ OneNoticePerPause /\ ThresholdNotMissed
             /\ Called /\ Unnoticed

DeliveryInv == TypeOK /\ QueueInv /\ HealthInv

health == <<now, sub, edits, spell, notices, wronged>>

-----------------------------------------------------------------------------
LEMMA FreshRow == Fresh \in Row
  BY ConstantsOK DEF Fresh, Row

LEMMA InitDelivery == Init => DeliveryInv
<1> SUFFICES ASSUME Init PROVE DeliveryInv
  OBVIOUS
<1>1. TypeOK
  BY ConstantsOK, FreshRow DEF Init, TypeOK
<1>2. QueueInv
  BY ConstantsOK DEF Init, QueueInv, Held, Carried
<1>3. HealthInv
  BY ConstantsOK DEF Init, HealthInv, CountersAreExact, NoStalePause, OneNoticePerPause,
     ThresholdNotMissed, Crossed, Called, Unnoticed, Exists, Fresh
<1> QED
  BY <1>1, <1>2, <1>3 DEF DeliveryInv

-----------------------------------------------------------------------------
(* Where the messages are.                                                 *)

\* A consumer that is done with its message leaves it acknowledged, queued or
\* dead-lettered, as its attempts allow.
LEMMA FinishStep ==
  ASSUME DeliveryInv, NEW c \in Consumers, pc[c] # "idle",
         NEW p \in {"acked", Requeued(job[c])}, Finish(c, p), attempts' = attempts,
         health' = health, crashes' \in crashes..MaxCrashes,
         pc[c] = "pause" => crashes' > 0
  PROVE  DeliveryInv'
<1> DEFINE m == job[c]
<1>1. /\ TypeOK /\ Held /\ Carried /\ HealthInv
      /\ MAX_RETRIES \in Nat /\ MaxCrashes \in Nat /\ MaxTime \in Nat
  BY ConstantsOK DEF DeliveryInv, QueueInv
<1>2. m \in Messages /\ m # NoJob /\ place[m] = "taken" /\ attempts[m] \in 0..(MAX_RETRIES + 1)
  BY <1>1 DEF TypeOK, Held
<1>3. /\ p \in {"acked", "queued", "dlq"}
      /\ p = "queued" => attempts[m] <= MAX_RETRIES
      /\ p = "dlq" => attempts[m] = MAX_RETRIES + 1
  BY <1>1, <1>2 DEF Requeued
<1>4. TypeOK'
  BY <1>1, <1>2, <1>3, FreshRow DEF TypeOK, Finish, health
<1>5. /\ job' = [job EXCEPT ![c] = NoJob] /\ pc' = [pc EXCEPT ![c] = "idle"]
      /\ place' = [place EXCEPT ![m] = p] /\ seen' = [seen EXCEPT ![c] = Fresh]
  BY DEF Finish
<1>6. Held'
  BY <1>1, <1>2, <1>5 DEF TypeOK, Held
<1>7. Carried'
  BY <1>1, <1>2, <1>3, <1>5 DEF TypeOK, Held, Carried
<1>8. \A d \in Consumers : pc'[d] = "pause" => pc[d] = "pause" /\ job'[d] = job[d] /\ seen'[d] = seen[d]
  BY <1>1, <1>5 DEF TypeOK
<1>9. CountersAreExact' /\ NoStalePause' /\ OneNoticePerPause' /\ Unnoticed'
  BY <1>1 DEF health, HealthInv, CountersAreExact, NoStalePause, OneNoticePerPause, Unnoticed,
     Exists
<1>10. Called'
  BY <1>1, <1>8 DEF health, HealthInv, Called, Target, ShouldAutoDisable
<1>11. ThresholdNotMissed'
  <2> SUFFICES ASSUME NEW s \in Subs, crashes' = 0, Crossed(s)'
               PROVE  \E d \in Consumers : pc'[d] = "pause" /\ Target(d)' = s /\ Unchanged(d)'
    BY DEF ThresholdNotMissed
  <2>1. crashes = 0 /\ pc[c] # "pause" /\ Crossed(s)
    BY <1>1 DEF TypeOK, health, Crossed, Exists
  <2>2. PICK d \in Consumers : pc[d] = "pause" /\ Target(d) = s /\ Unchanged(d)
    BY <1>1, <2>1 DEF HealthInv, ThresholdNotMissed
  <2>3. pc'[d] = "pause" /\ job'[d] = job[d] /\ seen'[d] = seen[d]
    BY <1>1, <1>5, <2>1, <2>2 DEF TypeOK
  <2> QED
    BY <2>2, <2>3 DEF health, Target, Unchanged
<1> QED
  BY <1>4, <1>6, <1>7, <1>9, <1>10, <1>11 DEF DeliveryInv, QueueInv, HealthInv

\* A step of a consumer that touches no row and stops short of a pause.
LEMMA WalkStep ==
  ASSUME DeliveryInv, NEW c \in Consumers, pc[c] \notin {"idle", "pause"},
         NEW l \in {"lookup", "post", "record", "settle"}, pc' = [pc EXCEPT ![c] = l],
         job' = job, place' = place, attempts' = attempts, health' = health,
         crashes' = crashes,
         result' \in [Consumers -> {"success", "perm_fail", "retry"}],
         at' \in [Consumers -> Nat], seen' \in [Consumers -> Row],
         \A d \in Consumers : d # c => seen'[d] = seen[d]
  PROVE  DeliveryInv'
<1>1. TypeOK /\ Held /\ Carried /\ HealthInv
  BY DEF DeliveryInv, QueueInv
<1>2. TypeOK'
  BY <1>1 DEF TypeOK, health
<1>3. Held' /\ Carried'
  BY <1>1 DEF TypeOK, Held, Carried
<1>4. \A d \in Consumers : /\ pc'[d] = "pause" => pc[d] = "pause"
                           /\ pc[d] = "pause" => pc'[d] = "pause" /\ seen'[d] = seen[d]
  BY <1>1 DEF TypeOK
<1>5. CountersAreExact' /\ NoStalePause' /\ OneNoticePerPause' /\ Unnoticed'
  BY <1>1 DEF health, HealthInv, CountersAreExact, NoStalePause, OneNoticePerPause, Unnoticed,
     Exists
<1>6. Called'
  BY <1>1, <1>4 DEF health, HealthInv, Called, Target, ShouldAutoDisable
<1>7. ThresholdNotMissed'
  <2> SUFFICES ASSUME NEW s \in Subs, crashes' = 0, Crossed(s)'
               PROVE  \E d \in Consumers : pc'[d] = "pause" /\ Target(d)' = s /\ Unchanged(d)'
    BY DEF ThresholdNotMissed
  <2>1. PICK d \in Consumers : pc[d] = "pause" /\ Target(d) = s /\ Unchanged(d)
    BY <1>1 DEF HealthInv, ThresholdNotMissed, Crossed, Exists, health
  <2> QED
    BY <1>4, <2>1 DEF health, Target, Unchanged
<1> QED
  BY <1>2, <1>3, <1>5, <1>6, <1>7 DEF DeliveryInv, QueueInv, HealthInv

\* The queue, its dead letters and the clock.
LEMMA TakeStep ==
  ASSUME DeliveryInv, NEW c \in Consumers, NEW m \in Messages, Take(c, m)
  PROVE  DeliveryInv'
<1>1. TypeOK /\ Held /\ Carried /\ HealthInv /\ MAX_RETRIES \in Nat /\ NoJob \notin Messages
  BY ConstantsOK DEF DeliveryInv, QueueInv
<1>2. /\ place' = [place EXCEPT ![m] = "taken"] /\ attempts' = [attempts EXCEPT ![m] = @ + 1]
      /\ job' = [job EXCEPT ![c] = m] /\ pc' = [pc EXCEPT ![c] = "gate"]
      /\ pc[c] = "idle" /\ place[m] = "queued" /\ seen' = seen /\ crashes' = crashes
      /\ health' = health /\ result' = result /\ at' = at
  BY DEF Take, health
<1>3. attempts[m] \in 0..MAX_RETRIES
  BY <1>1, <1>2 DEF TypeOK, Carried
<1>4. TypeOK'
  BY <1>1, <1>2, <1>3 DEF TypeOK, health
<1>5. Held'
  BY <1>1, <1>2 DEF TypeOK, Held
<1>6. Carried'
  BY <1>1, <1>2 DEF TypeOK, Held, Carried
<1>7. \A d \in Consumers : (pc'[d] = "pause" <=> pc[d] = "pause")
                           /\ (pc[d] = "pause" => job'[d] = job[d])
  BY <1>1, <1>2 DEF TypeOK
<1>8. CountersAreExact' /\ NoStalePause' /\ OneNoticePerPause' /\ Unnoticed'
  BY <1>1, <1>2 DEF health, HealthInv, CountersAreExact, NoStalePause, OneNoticePerPause,
     Unnoticed, Exists
<1>9. Called'
  BY <1>1, <1>2, <1>7 DEF health, HealthInv, Called, Target, ShouldAutoDisable
<1>10. ThresholdNotMissed'
  <2> SUFFICES ASSUME NEW s \in Subs, crashes' = 0, Crossed(s)'
               PROVE  \E d \in Consumers : pc'[d] = "pause" /\ Target(d)' = s /\ Unchanged(d)'
    BY DEF ThresholdNotMissed
  <2>1. PICK d \in Consumers : pc[d] = "pause" /\ Target(d) = s /\ Unchanged(d)
    BY <1>1, <1>2 DEF HealthInv, ThresholdNotMissed, Crossed, Exists, health
  <2> QED
    BY <1>2, <1>7, <2>1 DEF health, Target, Unchanged
<1> QED
  BY <1>4, <1>5, <1>6, <1>8, <1>9, <1>10 DEF DeliveryInv, QueueInv, HealthInv

LEMMA BuryStep ==
  ASSUME DeliveryInv, NEW m \in Messages, Bury(m)
  PROVE  DeliveryInv'
<1>1. TypeOK /\ Held /\ Carried /\ HealthInv
  BY DEF DeliveryInv, QueueInv
<1>2. /\ place[m] = "dlq" /\ place' = [place EXCEPT ![m] = "dead"]
      /\ <<now, sub, attempts, job, pc, result, at, seen, edits, crashes, spell, notices,
           wronged>>' = <<now, sub, attempts, job, pc, result, at, seen, edits, crashes, spell,
                          notices, wronged>>
  BY DEF Bury
<1>3. TypeOK' /\ Held' /\ Carried'
  BY <1>1, <1>2 DEF TypeOK, Held, Carried
<1>4. HealthInv'
  BY <1>1, <1>2 DEF HealthInv, CountersAreExact, NoStalePause, OneNoticePerPause,
     ThresholdNotMissed, Crossed, Called, Unnoticed, Exists, Target, Unchanged,
     ShouldAutoDisable
<1> QED
  BY <1>3, <1>4 DEF DeliveryInv, QueueInv

\* What calls for a pause still calls for it later.
LEMMA TickStep ==
  ASSUME DeliveryInv, Tick PROVE DeliveryInv'
<1>1. TypeOK /\ Held /\ Carried /\ HealthInv
  BY DEF DeliveryInv, QueueInv
<1>2. /\ now' = now + 1 /\ now \in Nat /\ now' \in 0..MaxTime
      /\ <<sub, place, attempts, job, pc, result, at, seen, edits, crashes, spell, notices,
           wronged>>' = <<sub, place, attempts, job, pc, result, at, seen, edits, crashes,
                          spell, notices, wronged>>
  BY <1>1, ConstantsOK DEF Tick, TypeOK
<1>3. TypeOK' /\ Held' /\ Carried'
  BY <1>1, <1>2 DEF TypeOK, Held, Carried
<1>4. Called'
  <2> SUFFICES ASSUME NEW c \in Consumers, pc[c] = "pause"
               PROVE  ShouldAutoDisable(Target(c), seen[c])'
    BY <1>2 DEF Called
  <2>1. seen[c] \in Row /\ ShouldAutoDisable(Target(c), seen[c]) /\ USER_AUTO_DISABLE_STREAK \in Nat
    BY <1>1, ConstantsOK DEF TypeOK, HealthInv, Called
  <2>2. seen[c].streak = NoStreak \/ seen[c].streak \in Nat
    BY <2>1 DEF Row
  <2> QED
    BY <1>2, <2>1, <2>2 DEF ShouldAutoDisable, Target
<1>5. CountersAreExact' /\ NoStalePause' /\ OneNoticePerPause' /\ Unnoticed' /\ ThresholdNotMissed'
  BY <1>1, <1>2 DEF HealthInv, CountersAreExact, NoStalePause, OneNoticePerPause, Unnoticed,
     ThresholdNotMissed, Crossed, Exists, Target, Unchanged
<1> QED
  BY <1>3, <1>4, <1>5 DEF DeliveryInv, QueueInv, HealthInv

-----------------------------------------------------------------------------
(* The rows.                                                               *)

\* A step keeps the messages where they are if it moves one consumer on.
LEMMA QueueKept ==
  ASSUME TypeOK, QueueInv, NEW c \in Consumers, pc[c] # "idle",
         NEW l \in {"pause", "settle"}, pc' = [pc EXCEPT ![c] = l],
         job' = job, place' = place, attempts' = attempts
  PROVE  QueueInv'
  BY DEF TypeOK, QueueInv, Held, Carried

LEMMA TargetOf ==
  ASSUME DeliveryInv, NEW c \in Consumers, pc[c] # "idle"
  PROVE  /\ Target(c) \in Subs
         /\ Exists(Target(c)) => sub[Target(c)] \in Row
         /\ spell[Target(c)] \in Nat /\ notices[Target(c)] \in Nat /\ at[c] \in Nat
  BY ConstantsOK DEF DeliveryInv, QueueInv, TypeOK, Held, Target, Exists

\* A recovery takes a row below every threshold.
LEMMA SuccessStep ==
  ASSUME DeliveryInv, NEW c \in Consumers, RecordSuccess(c)
  PROVE  DeliveryInv'
<1> DEFINE t == Target(c)
<1>1. TypeOK /\ QueueInv /\ HealthInv /\ NoStreak \notin Nat
  BY ConstantsOK DEF DeliveryInv
<1>2. /\ pc[c] = "record" /\ pc' = [pc EXCEPT ![c] = "settle"]
      /\ spell' = [spell EXCEPT ![t] = 0]
      /\ <<now, place, attempts, job, result, at, seen, edits, crashes, notices, wronged>>'
           = <<now, place, attempts, job, result, at, seen, edits, crashes, notices, wronged>>
  BY DEF RecordSuccess, Goto
<1>3. t \in Subs /\ (Exists(t) => sub[t] \in Row)
  BY <1>2, TargetOf
<1>4. /\ \A s \in Subs : s # t => sub'[s] = sub[s]
      /\ ~ Exists(t) => sub' = sub
      /\ Exists(t) => /\ sub'[t] = [sub[t] EXCEPT !.fails = 0, !.streak = NoStreak]
                      /\ sub'[t] \in Row
      /\ sub' \in [Subs -> Row \cup {Deleted}]
  BY <1>1, <1>2, <1>3 DEF RecordSuccess, Goto, TypeOK, Row
<1>5. TypeOK'
  BY <1>1, <1>2, <1>3, <1>4 DEF TypeOK
<1>6. QueueInv'
  BY <1>1, <1>2, QueueKept
<1>7. CountersAreExact'
  <2> SUFFICES ASSUME NEW s \in Subs, Exists(s)'
               PROVE  (sub[s].fails = spell[s] /\ (sub[s].streak = NoStreak <=> spell[s] = 0))'
    BY DEF CountersAreExact
  <2>1. CASE s = t
    BY <1>1, <1>2, <1>3, <1>4, <2>1 DEF TypeOK, Row, Exists
  <2>2. CASE s # t
    BY <1>1, <1>2, <1>4, <2>2 DEF TypeOK, HealthInv, CountersAreExact, Exists
  <2> QED
    BY <2>1, <2>2
<1>8. \A s \in Subs : /\ Exists(s)' => Exists(s) /\ sub'[s].enabled = sub[s].enabled
                                       /\ sub'[s].auto = sub[s].auto
  BY <1>3, <1>4 DEF Exists, Row
<1>9. NoStalePause' /\ OneNoticePerPause' /\ Unnoticed'
  BY <1>1, <1>2, <1>8 DEF HealthInv, NoStalePause, OneNoticePerPause, Unnoticed
<1>10. Called'
  BY <1>1, <1>2 DEF TypeOK, HealthInv, Called, Target, ShouldAutoDisable
<1>11. ThresholdNotMissed'
  <2> SUFFICES ASSUME NEW s \in Subs, crashes' = 0, Crossed(s)'
               PROVE  \E d \in Consumers : pc'[d] = "pause" /\ Target(d)' = s /\ Unchanged(d)'
    BY DEF ThresholdNotMissed
  <2>1. s # t
    <3>1. s = t => sub'[s].fails = 0
      BY <1>2, <1>3, <1>4 DEF Crossed, Exists, Row
    <3> QED
      BY <3>1, ConstantsOK DEF Crossed
  <2>2. Crossed(s) /\ sub'[s] = sub[s] /\ crashes = 0
    BY <1>2, <1>4, <2>1 DEF Crossed, Exists
  <2>3. PICK d \in Consumers : pc[d] = "pause" /\ Target(d) = s /\ Unchanged(d)
    BY <1>1, <2>2 DEF HealthInv, ThresholdNotMissed
  <2> QED
    BY <1>1, <1>2, <2>2, <2>3 DEF TypeOK, Target, Unchanged
<1> QED
  BY <1>5, <1>6, <1>7, <1>9, <1>10, <1>11 DEF DeliveryInv, HealthInv

LEMMA FailedRow ==
  ASSUME NEW c, NEW row \in Row, at[c] \in Nat
  PROVE  /\ Failed(c, row) \in Row /\ Failed(c, row).fails = row.fails + 1
         /\ Failed(c, row).streak = (IF row.fails = 0 THEN at[c] ELSE row.streak)
         /\ Failed(c, row).enabled = row.enabled /\ Failed(c, row).auto = row.auto
<1> DEFINE streak == IF row.fails = 0 THEN at[c] ELSE row.streak
<1>1. Failed(c, row) = [row EXCEPT !.fails = row.fails + 1, !.streak = streak]
  BY DEF Failed, Row
<1>2. row.fails + 1 \in Nat /\ streak \in Nat \cup {NoStreak}
  BY DEF Row
<1> HIDE DEF streak
<1>3. ASSUME NEW new, new = [row EXCEPT !.fails = row.fails + 1, !.streak = streak]
      PROVE  /\ new \in Row /\ new.fails = row.fails + 1 /\ new.streak = streak
             /\ new.enabled = row.enabled /\ new.auto = row.auto
  BY <1>2, <1>3 DEF Row
<1>4. /\ Failed(c, row) \in Row /\ Failed(c, row).fails = row.fails + 1
      /\ Failed(c, row).streak = streak
      /\ Failed(c, row).enabled = row.enabled /\ Failed(c, row).auto = row.auto
  BY <1>1, <1>3, Zenon
<1> QED
  BY <1>4 DEF streak

\* The failure that crosses the threshold is its own consumer's to act upon.
LEMMA FailureStep ==
  ASSUME DeliveryInv, NEW c \in Consumers, RecordFailure(c)
  PROVE  DeliveryInv'
<1> DEFINE t == Target(c)
           fresh == Failed(c, sub[t])
           l == IF ShouldAutoDisable(t, fresh) THEN "pause" ELSE "settle"
<1>1. TypeOK /\ QueueInv /\ HealthInv /\ NoStreak \notin Nat
  BY ConstantsOK DEF DeliveryInv
<1>2. /\ pc[c] = "record" /\ Exists(t) /\ pc' = [pc EXCEPT ![c] = l]
      /\ sub' = [sub EXCEPT ![t] = fresh] /\ seen' = [seen EXCEPT ![c] = fresh]
      /\ spell' = [spell EXCEPT ![t] = @ + 1]
      /\ <<now, place, attempts, job, result, at, edits, crashes, notices, wronged>>'
           = <<now, place, attempts, job, result, at, edits, crashes, notices, wronged>>
  BY DEF RecordFailure
<1>3. t \in Subs /\ sub[t] \in Row /\ spell[t] \in Nat /\ at[c] \in Nat
  BY <1>2, TargetOf
<1>4. /\ fresh \in Row /\ fresh.fails = sub[t].fails + 1
      /\ fresh.streak = (IF sub[t].fails = 0 THEN at[c] ELSE sub[t].streak)
      /\ fresh.enabled = sub[t].enabled /\ fresh.auto = sub[t].auto
  BY <1>3, FailedRow
<1>5. /\ sub' \in [Subs -> Row \cup {Deleted}] /\ sub'[t] = fresh /\ seen'[c] = fresh
      /\ \A s \in Subs : s # t => sub'[s] = sub[s] /\ spell'[s] = spell[s]
      /\ \A d \in Consumers : d # c => seen'[d] = seen[d] /\ pc'[d] = pc[d]
      /\ pc'[c] = l /\ spell'[t] = spell[t] + 1
  BY <1>1, <1>2, <1>3, <1>4 DEF TypeOK
<1>6. TypeOK'
  BY <1>1, <1>2, <1>3, <1>4, <1>5 DEF TypeOK
<1>7. QueueInv'
  BY <1>1, <1>2, QueueKept
<1>8. CountersAreExact'
  <2> SUFFICES ASSUME NEW s \in Subs, Exists(s)'
               PROVE  (sub[s].fails = spell[s] /\ (sub[s].streak = NoStreak <=> spell[s] = 0))'
    BY DEF CountersAreExact
  <2>1. CASE s = t
    BY <1>1, <1>2, <1>3, <1>4, <1>5, <2>1 DEF HealthInv, CountersAreExact, Row
  <2>2. CASE s # t
    BY <1>1, <1>5, <2>2 DEF HealthInv, CountersAreExact, Exists
  <2> QED
    BY <2>1, <2>2
<1>9. \A s \in Subs : Exists(s)' => Exists(s) /\ sub'[s].enabled = sub[s].enabled
                                      /\ sub'[s].auto = sub[s].auto
  BY <1>2, <1>4, <1>5 DEF Exists
<1>10. NoStalePause' /\ OneNoticePerPause' /\ Unnoticed'
  BY <1>1, <1>2, <1>9 DEF HealthInv, NoStalePause, OneNoticePerPause, Unnoticed
<1>11. Called'
  <2> SUFFICES ASSUME NEW d \in Consumers, pc'[d] = "pause"
               PROVE  ShouldAutoDisable(Target(d), seen[d])'
    BY DEF Called
  <2>1. CASE d = c
    <3>1. ShouldAutoDisable(t, fresh)
      BY <1>5, <2>1
    <3> QED
      BY <1>2, <1>5, <2>1, <3>1 DEF ShouldAutoDisable, Target
  <2>2. CASE d # c
    BY <1>1, <1>2, <1>5, <2>2 DEF HealthInv, Called, ShouldAutoDisable, Target
  <2> QED
    BY <2>1, <2>2
<1>12. ThresholdNotMissed'
  <2> SUFFICES ASSUME NEW s \in Subs, crashes' = 0, Crossed(s)'
               PROVE  \E d \in Consumers : pc'[d] = "pause" /\ Target(d)' = s /\ Unchanged(d)'
    BY DEF ThresholdNotMissed
  <2>1. CASE s = t
    <3>1. ShouldAutoDisable(t, fresh)
      BY <1>5, <2>1 DEF Crossed, ShouldAutoDisable
    <3> QED
      BY <1>2, <1>5, <2>1, <3>1 DEF Target, Unchanged
  <2>2. CASE s # t
    <3>1. PICK d \in Consumers : pc[d] = "pause" /\ Target(d) = s /\ Unchanged(d)
      BY <1>1, <1>2, <1>5, <2>2 DEF HealthInv, ThresholdNotMissed, Crossed, Exists
    <3>2. d # c
      BY <1>2, <3>1
    <3> QED
      BY <1>2, <1>5, <2>2, <3>1, <3>2 DEF Target, Unchanged
  <2> QED
    BY <2>1, <2>2
<1> QED
  BY <1>6, <1>7, <1>8, <1>10, <1>11, <1>12 DEF DeliveryInv, HealthInv

\* A pause that finds its snapshot current is called for, and the first since the
\* subscription was enabled; the others change nothing.
LEMMA PauseStep ==
  ASSUME DeliveryInv, NEW c \in Consumers, Pause(c)
  PROVE  DeliveryInv'
<1> DEFINE t == Target(c)
           taken == Exists(t) /\ sub[t].enabled /\ Unchanged(c)
           off == [sub[t] EXCEPT !.enabled = FALSE, !.auto = TRUE]
<1>1. TypeOK /\ QueueInv /\ HealthInv
  BY DEF DeliveryInv
<1>2. /\ pc[c] = "pause" /\ pc' = [pc EXCEPT ![c] = "settle"]
      /\ <<now, place, attempts, job, result, at, seen, edits, crashes, spell>>'
           = <<now, place, attempts, job, result, at, seen, edits, crashes, spell>>
  BY DEF Pause, Goto
<1>3. t \in Subs /\ (Exists(t) => sub[t] \in Row) /\ notices[t] \in Nat
  BY <1>2, TargetOf
<1>4. QueueInv'
  BY <1>1, <1>2, QueueKept
<1>5. \A d \in Consumers : pc'[d] = "pause" => d # c /\ pc[d] = "pause"
  BY <1>1, <1>2 DEF TypeOK
<1>6. Called'
  BY <1>1, <1>2, <1>5 DEF HealthInv, Called, ShouldAutoDisable, Target
<1>7. CASE taken
  <2>1. /\ Exists(t) /\ sub[t].enabled /\ Unchanged(c) /\ sub[t] \in Row
        /\ sub' = [sub EXCEPT ![t] = off] /\ notices' = [notices EXCEPT ![t] = @ + 1]
    BY <1>2, <1>3, <1>7 DEF Pause
  <2>2. /\ off \in Row /\ off.fails = sub[t].fails /\ off.streak = sub[t].streak
        /\ ~ off.enabled /\ off.auto
    BY <2>1 DEF Row
  <2>3. ShouldAutoDisable(t, sub[t])
    <3>1. ShouldAutoDisable(t, seen[c])
      BY <1>1, <1>2 DEF HealthInv, Called
    <3> QED
      BY <2>1, <3>1 DEF ShouldAutoDisable, Unchanged
  <2>4. wronged' = wronged
    BY <1>7, <2>3 DEF Pause
  <2>5. notices[t] = 0
    BY <1>1, <1>3, <2>1 DEF HealthInv, Unnoticed
  <2>6. /\ sub' \in [Subs -> Row \cup {Deleted}] /\ sub'[t] = off /\ notices'[t] = 1
        /\ \A s \in Subs : s # t => sub'[s] = sub[s] /\ notices'[s] = notices[s]
    BY <1>1, <1>3, <2>1, <2>2, <2>5 DEF TypeOK
  <2>7. TypeOK'
    BY <1>1, <1>2, <1>3, <2>1, <2>4, <2>6 DEF TypeOK
  <2>8. NoStalePause'
    BY <1>1, <2>4 DEF HealthInv, NoStalePause
  <2>9. CountersAreExact'
    <3> SUFFICES ASSUME NEW s \in Subs, Exists(s)'
                 PROVE  (sub[s].fails = spell[s] /\ (sub[s].streak = NoStreak <=> spell[s] = 0))'
      BY DEF CountersAreExact
    <3>1. Exists(s) /\ sub'[s].fails = sub[s].fails /\ sub'[s].streak = sub[s].streak
      BY <2>1, <2>2, <2>6 DEF Exists
    <3> QED
      BY <1>1, <1>2, <3>1 DEF HealthInv, CountersAreExact
  <2>10. OneNoticePerPause' /\ Unnoticed'
    <3> SUFFICES ASSUME NEW s \in Subs
                 PROVE  /\ notices'[s] <= 1
                        /\ Exists(s)' /\ sub'[s].auto => notices'[s] = 1 /\ ~ sub'[s].enabled
                        /\ Exists(s)' /\ sub'[s].enabled => notices'[s] = 0
      BY DEF OneNoticePerPause, Unnoticed
    <3>1. CASE s = t
      <4>1. notices'[s] = 1 /\ ~ sub'[s].enabled
        BY <2>2, <2>6, <3>1
      <4> QED
        BY <4>1
    <3>2. CASE s # t
      BY <1>1, <2>6, <3>2 DEF HealthInv, OneNoticePerPause, Unnoticed, Exists
    <3> QED
      BY <3>1, <3>2
  <2>11. ThresholdNotMissed'
    <3> SUFFICES ASSUME NEW s \in Subs, crashes' = 0, Crossed(s)'
                 PROVE  \E d \in Consumers : pc'[d] = "pause" /\ Target(d)' = s /\ Unchanged(d)'
      BY DEF ThresholdNotMissed
    <3>1. s # t
      BY <2>2, <2>6 DEF Crossed
    <3>2. PICK d \in Consumers : pc[d] = "pause" /\ Target(d) = s /\ Unchanged(d)
      BY <1>1, <1>2, <2>6, <3>1 DEF HealthInv, ThresholdNotMissed, Crossed, Exists
    <3>3. d # c /\ pc'[d] = "pause"
      BY <1>1, <1>2, <3>1, <3>2 DEF TypeOK
    <3> QED
      BY <1>2, <2>6, <3>1, <3>2, <3>3 DEF Target, Unchanged
  <2> QED
    BY <1>4, <1>6, <2>7, <2>8, <2>9, <2>10, <2>11 DEF DeliveryInv, HealthInv
<1>8. CASE ~ taken
  <2>1. sub' = sub /\ notices' = notices /\ wronged' = wronged
    BY <1>8 DEF Pause
  <2>2. TypeOK'
    BY <1>1, <1>2, <2>1 DEF TypeOK
  <2>3. CountersAreExact' /\ NoStalePause' /\ OneNoticePerPause' /\ Unnoticed'
    BY <1>1, <1>2, <2>1 DEF HealthInv, CountersAreExact, NoStalePause, OneNoticePerPause,
       Unnoticed, Exists
  <2>4. ThresholdNotMissed'
    <3> SUFFICES ASSUME NEW s \in Subs, crashes' = 0, Crossed(s)'
                 PROVE  \E d \in Consumers : pc'[d] = "pause" /\ Target(d)' = s /\ Unchanged(d)'
      BY DEF ThresholdNotMissed
    <3>1. Crossed(s) /\ crashes = 0
      BY <1>2, <2>1 DEF Crossed, Exists
    <3>2. PICK d \in Consumers : pc[d] = "pause" /\ Target(d) = s /\ Unchanged(d)
      BY <1>1, <3>1 DEF HealthInv, ThresholdNotMissed
    <3>3. d # c
      BY <1>8, <3>1, <3>2 DEF Crossed
    <3> QED
      BY <1>1, <1>2, <2>1, <3>2, <3>3 DEF TypeOK, Target, Unchanged
  <2> QED
    BY <1>4, <1>6, <2>2, <2>3, <2>4 DEF DeliveryInv, HealthInv
<1> QED
  BY <1>7, <1>8

\* What an owner does to a subscription takes it below every threshold, or off.
LEMMA EditStep ==
  ASSUME DeliveryInv, NEW s \in Subs, NEW row \in Row \cup {Deleted}, Edit(s, row),
         NEW k \in Nat, NEW n \in Nat,
         spell' = [spell EXCEPT ![s] = k], notices' = [notices EXCEPT ![s] = n],
         row # Deleted => /\ row.fails = k /\ (row.streak = NoStreak <=> k = 0)
                          /\ ~ row.auto /\ (row.enabled => k = 0 /\ n = 0),
         n <= 1
  PROVE  DeliveryInv'
<1>1. TypeOK /\ QueueInv /\ HealthInv
  BY DEF DeliveryInv
<1>2. /\ edits' \in 0..MaxEdits /\ sub' = [sub EXCEPT ![s] = row]
      /\ <<now, place, attempts, job, pc, result, at, seen, crashes, wronged>>'
           = <<now, place, attempts, job, pc, result, at, seen, crashes, wronged>>
  BY <1>1, ConstantsOK DEF Edit, TypeOK
<1>3. /\ sub' \in [Subs -> Row \cup {Deleted}] /\ sub'[s] = row
      /\ spell'[s] = k /\ notices'[s] = n
      /\ \A u \in Subs : u # s => sub'[u] = sub[u] /\ spell'[u] = spell[u]
                                  /\ notices'[u] = notices[u]
  BY <1>1, <1>2 DEF TypeOK
<1>4. TypeOK'
  BY <1>1, <1>2, <1>3 DEF TypeOK
<1>5. QueueInv'
  BY <1>1, <1>2 DEF QueueInv, Held, Carried
<1>6. CountersAreExact' /\ OneNoticePerPause' /\ Unnoticed'
  <2> SUFFICES ASSUME NEW u \in Subs
               PROVE  /\ Exists(u)' => /\ sub'[u].fails = spell'[u]
                                       /\ sub'[u].streak = NoStreak <=> spell'[u] = 0
                      /\ notices'[u] <= 1
                      /\ Exists(u)' /\ sub'[u].auto => notices'[u] = 1 /\ ~ sub'[u].enabled
                      /\ Exists(u)' /\ sub'[u].enabled => notices'[u] = 0
    BY DEF CountersAreExact, OneNoticePerPause, Unnoticed
  <2>1. CASE u = s
    BY <1>3, <2>1 DEF Exists
  <2>2. CASE u # s
    BY <1>1, <1>3, <2>2 DEF HealthInv, CountersAreExact, OneNoticePerPause, Unnoticed, Exists
  <2> QED
    BY <2>1, <2>2
<1>7. NoStalePause' /\ Called'
  BY <1>1, <1>2 DEF HealthInv, NoStalePause, Called, ShouldAutoDisable, Target
<1>8. ThresholdNotMissed'
  <2> SUFFICES ASSUME NEW u \in Subs, crashes' = 0, Crossed(u)'
               PROVE  \E d \in Consumers : pc'[d] = "pause" /\ Target(d)' = u /\ Unchanged(d)'
    BY DEF ThresholdNotMissed
  <2>1. u # s
    BY <1>3, ConstantsOK DEF Crossed, Exists
  <2>2. PICK d \in Consumers : pc[d] = "pause" /\ Target(d) = u /\ Unchanged(d)
    BY <1>1, <1>2, <1>3, <2>1 DEF HealthInv, ThresholdNotMissed, Crossed, Exists
  <2> QED
    BY <1>2, <1>3, <2>1, <2>2 DEF Target, Unchanged
<1> QED
  BY <1>4, <1>5, <1>6, <1>7, <1>8 DEF DeliveryInv, HealthInv

LEMMA OwnerSteps ==
  ASSUME DeliveryInv, NEW s \in Subs, Enable(s) \/ Disable(s) \/ Delete(s)
  PROVE  DeliveryInv'
<1>1. TypeOK /\ HealthInv
  BY DEF DeliveryInv
<1>2. spell[s] \in Nat /\ notices[s] \in Nat /\ notices[s] <= 1
  BY <1>1 DEF TypeOK, HealthInv, OneNoticePerPause
<1>3. /\ spell = [spell EXCEPT ![s] = spell[s]] /\ notices = [notices EXCEPT ![s] = notices[s]]
  BY <1>1 DEF TypeOK
<1>4. CASE Enable(s)
  <2>1. /\ Fresh \in Row /\ Fresh.fails = 0 /\ Fresh.streak = NoStreak /\ ~ Fresh.auto
        /\ 0 \in Nat /\ 0 <= 1
    BY FreshRow DEF Fresh
  <2>2. Edit(s, Fresh) /\ spell' = [spell EXCEPT ![s] = 0] /\ notices' = [notices EXCEPT ![s] = 0]
    BY <1>4 DEF Enable
  <2> QED
    BY <2>1, <2>2, EditStep
<1>5. CASE Disable(s)
  <2> DEFINE row == [sub[s] EXCEPT !.enabled = FALSE, !.auto = FALSE]
  <2>1. Exists(s) /\ sub[s] \in Row /\ Edit(s, row) /\ spell' = spell /\ notices' = notices
    BY <1>1, <1>5 DEF Disable, Edit, Exists, TypeOK
  <2>2. /\ row \in Row /\ row.fails = sub[s].fails /\ row.streak = sub[s].streak
        /\ ~ row.auto /\ ~ row.enabled
    BY <2>1 DEF Row
  <2>3. sub[s].fails = spell[s] /\ (sub[s].streak = NoStreak <=> spell[s] = 0)
    BY <1>1, <2>1 DEF HealthInv, CountersAreExact
  <2> HIDE DEF row
  <2> QED
    BY <1>2, <1>3, <2>1, <2>2, <2>3, EditStep
<1>6. CASE Delete(s)
  <2>1. Edit(s, Deleted) /\ spell' = spell /\ notices' = notices
    BY <1>6 DEF Delete
  <2> QED
    BY <1>2, <1>3, <2>1, EditStep
<1> QED
  BY <1>4, <1>5, <1>6

-----------------------------------------------------------------------------
LEMMA WorkSteps ==
  ASSUME DeliveryInv, NEW c \in Consumers, Work(c) \/ Crash(c)
  PROVE  DeliveryInv'
<1>1. TypeOK /\ MaxCrashes \in Nat
  BY ConstantsOK DEF DeliveryInv
<1>2. crashes \in crashes..MaxCrashes
  BY <1>1 DEF TypeOK
<1>3. CASE Defer(c)
  BY <1>2, <1>3, FinishStep DEF Defer, Retry, health
<1>4. CASE Skip(c)
  BY <1>2, <1>4, FinishStep DEF Skip, Ack, health
<1>5. CASE Settle(c)
  BY <1>2, <1>5, FinishStep DEF Settle, Retry, Ack, health
<1>6. CASE Crash(c)
  <2>1. crashes' \in crashes..MaxCrashes /\ crashes' > 0
    BY <1>1, <1>6 DEF Crash, TypeOK
  <2> QED
    BY <1>6, <2>1, FinishStep DEF Crash, Retry, health
<1>7. CASE Pass(c)
  BY <1>1, <1>7, WalkStep DEF Pass, Goto, health, TypeOK
<1>8. CASE Lookup(c)
  <2>1. Target(c) \in Subs /\ sub[Target(c)] \in Row
    BY <1>8, TargetOf DEF Lookup
  <2>2. seen' \in [Consumers -> Row] /\ \A d \in Consumers : d # c => seen'[d] = seen[d]
    BY <1>1, <1>8, <2>1 DEF Lookup, TypeOK
  <2> QED
    BY <1>1, <1>8, <2>2, WalkStep DEF Lookup, health, TypeOK
<1>9. CASE Post(c)
  <2>1. /\ result' \in [Consumers -> {"success", "perm_fail", "retry"}]
        /\ at' \in [Consumers -> Nat]
    BY <1>1, <1>9, ConstantsOK DEF Post, TypeOK
  <2> QED
    BY <1>1, <1>9, <2>1, WalkStep DEF Post, health, TypeOK
<1>10. CASE RecordGone(c)
  BY <1>1, <1>10, WalkStep DEF RecordGone, Goto, health, TypeOK
<1> QED
  BY <1>3, <1>4, <1>5, <1>6, <1>7, <1>8, <1>9, <1>10, SuccessStep, FailureStep, PauseStep DEF Work

\* The inductive invariant.
THEOREM DeliveryInvariance == Spec => []DeliveryInv
<1>1. DeliveryInv /\ [Next]_vars => DeliveryInv'
  <2> SUFFICES ASSUME DeliveryInv, [Next]_vars PROVE DeliveryInv'
    OBVIOUS
  <2>1. CASE Next
    BY <2>1, WorkSteps, TakeStep, BuryStep, OwnerSteps, TickStep DEF Next
  <2>2. CASE UNCHANGED vars
    BY <2>2 DEF vars, DeliveryInv, TypeOK, QueueInv, Held, Carried, HealthInv,
       CountersAreExact, NoStalePause, OneNoticePerPause, ThresholdNotMissed, Crossed, Called,
       Unnoticed, Exists, Target, Unchanged, ShouldAutoDisable
  <2> QED
    BY <2>1, <2>2
<1> QED
  BY <1>1, InitDelivery, PTL DEF Spec

\* Type correctness of the worker, its queue and the health columns.
THEOREM DeliveryTypes == Spec => []TypeOK
<1>1. DeliveryInv => TypeOK
  BY DEF DeliveryInv
<1> QED
  BY <1>1, DeliveryInvariance, PTL

\* webhook-health.ts: concurrent failures and recoveries are all counted once.
THEOREM CountersStayExact == Spec => []CountersAreExact
<1>1. DeliveryInv => CountersAreExact
  BY DEF DeliveryInv, HealthInv
<1> QED
  BY <1>1, DeliveryInvariance, PTL

\* The compare-and-set on the snapshot never pauses a subscription that recovered.
THEOREM PausesAreCalledFor == Spec => []NoStalePause
<1>1. DeliveryInv => NoStalePause
  BY DEF DeliveryInv, HealthInv
<1> QED
  BY <1>1, DeliveryInvariance, PTL

\* An owner is mailed once for each automatic pause.
THEOREM OwnersAreToldOnce == Spec => []OneNoticePerPause
<1>1. DeliveryInv => OneNoticePerPause
  BY DEF DeliveryInv, HealthInv
<1> QED
  BY <1>1, DeliveryInvariance, PTL

\* While no consumer dies, a threshold that is crossed has a consumer that acts on it.
THEOREM ThresholdsAreActedOn == Spec => []ThresholdNotMissed
<1>1. DeliveryInv => ThresholdNotMissed
  BY DEF DeliveryInv, HealthInv
<1> QED
  BY <1>1, DeliveryInvariance, PTL

\* A message is with one consumer while taken, and given up after its last delivery.
THEOREM MessagesAreKept == Spec => []NoMessageLost
<1>1. DeliveryInv => NoMessageLost
  <2> SUFFICES ASSUME DeliveryInv, NEW m \in Messages
               PROVE  /\ Cardinality({c \in Consumers : job[c] = m})
                           = (IF place[m] = "taken" THEN 1 ELSE 0)
                      /\ place[m] \in {"dlq", "dead"} => attempts[m] = MAX_RETRIES + 1
    BY DEF NoMessageLost
  <2>1. Held /\ Carried /\ m # NoJob
    BY ConstantsOK DEF DeliveryInv, QueueInv
  <2>2. CASE place[m] = "taken"
    <3>1. PICK c \in Consumers : job[c] = m
      BY <2>1, <2>2 DEF Carried
    <3>2. {d \in Consumers : job[d] = m} = {c}
      BY <2>1, <3>1 DEF Held
    <3> QED
      BY <2>2, <3>2, FS_Singleton
  <2>3. CASE place[m] # "taken"
    <3>1. {d \in Consumers : job[d] = m} = {}
      BY <2>1, <2>3 DEF Held
    <3> QED
      BY <2>1, <2>3, <3>1, FS_EmptySet DEF Carried
  <2> QED
    BY <2>2, <2>3
<1> QED
  BY <1>1, DeliveryInvariance, PTL
=============================================================================
