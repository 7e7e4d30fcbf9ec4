--------------------------- MODULE WebhookDelivery ----------------------------
(***************************************************************************)
(* The webhooks worker: concurrent consumers of the webhook-delivery queue *)
(* deliver signed events, keep each subscription's health columns in D1    *)
(* and pause the subscriptions that keep failing; owners edit and delete   *)
(* their subscriptions meanwhile.                                          *)
(*                                                                         *)
(* A consumer handles the messages of a batch one after the other, so a    *)
(* batch is a sequence of single-message jobs.  Its steps are the awaits   *)
(* of the handler: each D1 statement is atomic, and anything may happen    *)
(* between two of them, an exception or an eviction included, which puts   *)
(* an unacknowledged message back on the queue.                            *)
(***************************************************************************)
EXTENDS Integers, FiniteSets

CONSTANTS
  Subs, Messages, Consumers,
  SubOf,              \* the subscription of each message
  UserOwned,          \* the subscriptions with a user_id
  Deleted,            \* no such row
  NoStreak,           \* failure_streak_started_at is null
  NoJob,
  MAX_RETRIES,        \* of the queue, in wrangler.jsonc
  ADMIN_AUTO_DISABLE_FAILURES,
  USER_AUTO_DISABLE_FAILURES,
  USER_AUTO_DISABLE_MIN_FAILURES,
  USER_AUTO_DISABLE_STREAK,
  MaxTime, MaxEdits, MaxCrashes     \* bounds

ASSUME ConstantsOK ==
  /\ SubOf \in [Messages -> Subs]
  /\ UserOwned \subseteq Subs
  /\ MAX_RETRIES \in Nat /\ MaxTime \in Nat /\ MaxEdits \in Nat /\ MaxCrashes \in Nat
  /\ ADMIN_AUTO_DISABLE_FAILURES \in Nat \ {0}
  /\ USER_AUTO_DISABLE_FAILURES \in Nat \ {0}
  /\ USER_AUTO_DISABLE_MIN_FAILURES \in Nat \ {0}
  /\ USER_AUTO_DISABLE_STREAK \in Nat
  /\ NoStreak \notin Nat /\ NoJob \notin Messages

VARIABLES
  now,
  sub,       \* webhook_subscriptions, the health columns
  place,     \* where each message is
  attempts,  \* msg.attempts
  job,       \* the message a consumer is handling, or NoJob
  pc,        \* the await it is about to make
  result,    \* the outcome of its POST
  at,        \* the time it took after the POST
  seen,      \* the row its failure UPDATE returned
  edits, crashes,
  spell,     \* history: failures recorded since the last success or re-enable
  notices,   \* history: auto-pause mails since the last re-enable
  wronged    \* history: subscriptions paused although their row did not call for it

vars == <<now, sub, place, attempts, job, pc, result, at, seen, edits, crashes,
          spell, notices, wronged>>

Row == [enabled : BOOLEAN, auto : BOOLEAN, fails : Nat, streak : Nat \cup {NoStreak}]
Fresh == [enabled |-> TRUE, auto |-> FALSE, fails |-> 0, streak |-> NoStreak]

TypeOK ==
  /\ now \in 0..MaxTime
  /\ sub \in [Subs -> Row \cup {Deleted}]
  /\ place \in [Messages -> {"queued", "taken", "acked", "dlq", "dead"}]
  /\ attempts \in [Messages -> 0..(MAX_RETRIES + 1)]
  /\ job \in [Consumers -> Messages \cup {NoJob}]
  /\ pc \in [Consumers -> {"idle", "gate", "lookup", "post", "record", "pause", "settle"}]
  /\ result \in [Consumers -> {"success", "perm_fail", "retry"}]
  /\ at \in [Consumers -> Nat]
  /\ seen \in [Consumers -> Row]
  /\ edits \in 0..MaxEdits /\ crashes \in 0..MaxCrashes
  /\ spell \in [Subs -> Nat]
  /\ notices \in [Subs -> Nat]
  /\ wronged \subseteq Subs

Init ==
  /\ now = 0
  /\ sub = [s \in Subs |-> Fresh]
  /\ place = [m \in Messages |-> "queued"]
  /\ attempts = [m \in Messages |-> 0]
  /\ job = [c \in Consumers |-> NoJob]
  /\ pc = [c \in Consumers |-> "idle"]
  /\ result = [c \in Consumers |-> "retry"]
  /\ at = [c \in Consumers |-> 0]
  /\ seen = [c \in Consumers |-> Fresh]
  /\ edits = 0 /\ crashes = 0
  /\ spell = [s \in Subs |-> 0]
  /\ notices = [s \in Subs |-> 0]
  /\ wronged = {}

-------------------------------------------------------------------------------
Target(c) == SubOf[job[c]]
Exists(s) == sub[s] # Deleted

\* Fault: the count threshold must be exceeded.
ShouldAutoDisableAbove(s, row) ==
  row.enabled /\ row.fails > (IF s \in UserOwned THEN USER_AUTO_DISABLE_FAILURES
                                                ELSE ADMIN_AUTO_DISABLE_FAILURES)

\* shouldAutoDisableWebhook.
ShouldAutoDisable(s, row) ==
  /\ row.enabled
  /\ IF s \in UserOwned
       THEN \/ row.fails >= USER_AUTO_DISABLE_FAILURES
            \/ /\ row.fails >= USER_AUTO_DISABLE_MIN_FAILURES
               /\ row.streak # NoStreak
               /\ now - row.streak >= USER_AUTO_DISABLE_STREAK
       ELSE row.fails >= ADMIN_AUTO_DISABLE_FAILURES

\* The consumer goes on to l / is done with its message, which is now at p.
Goto(c, l) == pc' = [pc EXCEPT ![c] = l] /\ UNCHANGED <<job, place, result, at, seen>>

Finish(c, p) ==
  /\ place' = [place EXCEPT ![job[c]] = p]
  /\ job' = [job EXCEPT ![c] = NoJob]
  /\ pc' = [pc EXCEPT ![c] = "idle"]
  /\ result' = [result EXCEPT ![c] = "retry"]
  /\ at' = [at EXCEPT ![c] = 0]
  /\ seen' = [seen EXCEPT ![c] = Fresh]

\* Fault: one redelivery too few.
RequeuedTooFew(m) == IF attempts[m] < MAX_RETRIES THEN "queued" ELSE "dlq"
\* The queue redelivers MAX_RETRIES times, then dead-letters.
Requeued(m) == IF attempts[m] <= MAX_RETRIES THEN "queued" ELSE "dlq"

Retry(c) == Finish(c, Requeued(job[c]))
Ack(c) == Finish(c, "acked")

Take(c, m) ==
  /\ pc[c] = "idle"
  /\ place[m] = "queued"
  /\ place' = [place EXCEPT ![m] = "taken"]
  /\ attempts' = [attempts EXCEPT ![m] = @ + 1]
  /\ job' = [job EXCEPT ![c] = m]
  /\ pc' = [pc EXCEPT ![c] = "gate"]
  /\ UNCHANGED <<now, sub, result, at, seen, edits, crashes, spell, notices, wronged>>

\* Fault: a deferred message keeps its retries.
DeferForFree(c) ==
  /\ pc[c] = "gate"
  /\ Finish(c, "queued")
  /\ attempts' = [attempts EXCEPT ![job[c]] = @ - 1]
  /\ UNCHANGED <<now, sub, edits, crashes, spell, notices, wronged>>

\* No signing key, or over the subscriber's rate limit: the message goes back
\* and has used up one of its retries.
Defer(c) ==
  /\ pc[c] = "gate"
  /\ Retry(c)
  /\ UNCHANGED <<now, sub, attempts, edits, crashes, spell, notices, wronged>>

Pass(c) ==
  /\ pc[c] = "gate"
  /\ Goto(c, "lookup")
  /\ UNCHANGED <<now, sub, attempts, edits, crashes, spell, notices, wronged>>

\* A missing or paused subscription's message is skipped.
Skip(c) ==
  /\ pc[c] = "lookup"
  /\ Exists(Target(c)) => ~ sub[Target(c)].enabled
  /\ Ack(c)
  /\ UNCHANGED <<now, sub, attempts, edits, crashes, spell, notices, wronged>>

\* The row as it was read before the POST.
Lookup(c) ==
  /\ pc[c] = "lookup"
  /\ Exists(Target(c)) /\ sub[Target(c)].enabled
  /\ seen' = [seen EXCEPT ![c] = sub[Target(c)]]
  /\ pc' = [pc EXCEPT ![c] = "post"]
  /\ UNCHANGED <<now, sub, attempts, place, job, result, at, edits, crashes, spell,
                 notices, wronged>>

\* deliver(): 2xx, 3xx/4xx or a blocked URL, 5xx / timeout / network error.
Post(c) ==
  /\ pc[c] = "post"
  /\ \E o \in {"success", "perm_fail", "retry"} : result' = [result EXCEPT ![c] = o]
  /\ at' = [at EXCEPT ![c] = now]
  /\ pc' = [pc EXCEPT ![c] = "record"]
  /\ UNCHANGED <<now, sub, attempts, place, job, seen, edits, crashes, spell, notices, wronged>>

\* updateWebhookSubscriptionSummary, success: one UPDATE, whatever `enabled' is.
RecordSuccess(c) ==
  /\ pc[c] = "record" /\ result[c] = "success"
  /\ sub' = IF Exists(Target(c))
              THEN [sub EXCEPT ![Target(c)].fails = 0, ![Target(c)].streak = NoStreak]
              ELSE sub
  /\ spell' = [spell EXCEPT ![Target(c)] = 0]
  /\ Goto(c, "settle")
  /\ UNCHANGED <<now, attempts, edits, crashes, notices, wronged>>

\* Fault: the increment is computed from the row read before the POST.
FailedSinceLookup(c, row) ==
  [row EXCEPT !.fails = seen[c].fails + 1,
              !.streak = IF seen[c].fails = 0 THEN at[c] ELSE seen[c].streak]

\* updateWebhookSubscriptionSummary, error: the increment and the start of the
\* streak are computed by the UPDATE from the row it finds.
Failed(c, row) ==
  [row EXCEPT !.fails = @ + 1, !.streak = IF row.fails = 0 THEN at[c] ELSE @]

RecordFailure(c) ==
  /\ pc[c] = "record" /\ result[c] # "success"
  /\ Exists(Target(c))
  /\ LET fresh == Failed(c, sub[Target(c)]) IN
       /\ sub' = [sub EXCEPT ![Target(c)] = fresh]
       /\ seen' = [seen EXCEPT ![c] = fresh]
       /\ pc' = [pc EXCEPT ![c] = IF ShouldAutoDisable(Target(c), fresh) THEN "pause" ELSE "settle"]
  /\ spell' = [spell EXCEPT ![Target(c)] = @ + 1]
  /\ UNCHANGED <<now, attempts, place, job, result, at, edits, crashes, notices, wronged>>

RecordGone(c) ==
  /\ pc[c] = "record" /\ result[c] # "success"
  /\ ~ Exists(Target(c))
  /\ Goto(c, "settle")
  /\ UNCHANGED <<now, sub, attempts, edits, crashes, spell, notices, wronged>>

\* Fault: the pause is not conditional on the snapshot.
AnySnapshot(c) == TRUE

\* setWebhookSubscriptionEnabled(false), compare-and-set on the snapshot.
Unchanged(c) ==
  /\ sub[Target(c)].fails = seen[c].fails
  /\ sub[Target(c)].streak = seen[c].streak

\* Fault: the notice is not gated on the transition.
PauseAlwaysNotifies(c) ==
  /\ pc[c] = "pause"
  /\ IF Exists(Target(c)) /\ sub[Target(c)].enabled /\ Unchanged(c)
       THEN sub' = [sub EXCEPT ![Target(c)].enabled = FALSE, ![Target(c)].auto = TRUE]
       ELSE sub' = sub
  /\ notices' = [notices EXCEPT ![Target(c)] = @ + 1]
  /\ Goto(c, "settle")
  /\ UNCHANGED <<now, attempts, edits, crashes, spell, wronged>>

Pause(c) ==
  /\ pc[c] = "pause"
  /\ IF Exists(Target(c)) /\ sub[Target(c)].enabled /\ Unchanged(c)
       THEN /\ sub' = [sub EXCEPT ![Target(c)].enabled = FALSE, ![Target(c)].auto = TRUE]
            /\ notices' = [notices EXCEPT ![Target(c)] = @ + 1]
            /\ wronged' = IF ShouldAutoDisable(Target(c), sub[Target(c)])
                            THEN wronged ELSE wronged \cup {Target(c)}
       ELSE UNCHANGED <<sub, notices, wronged>>
  /\ Goto(c, "settle")
  /\ UNCHANGED <<now, attempts, edits, crashes, spell>>

Settle(c) ==
  /\ pc[c] = "settle"
  /\ IF result[c] = "retry" THEN Retry(c) ELSE Ack(c)
  /\ UNCHANGED <<now, sub, attempts, edits, crashes, spell, notices, wronged>>

\* The handler throws or the isolate dies: the message was not acknowledged.
Crash(c) ==
  /\ pc[c] # "idle"
  /\ crashes < MaxCrashes
  /\ crashes' = crashes + 1
  /\ Retry(c)
  /\ UNCHANGED <<now, sub, attempts, edits, spell, notices, wronged>>

\* The webhook-dlq consumer reports and acknowledges.
Bury(m) ==
  /\ place[m] = "dlq"
  /\ place' = [place EXCEPT ![m] = "dead"]
  /\ UNCHANGED <<now, sub, attempts, job, pc, result, at, seen, edits, crashes, spell,
                 notices, wronged>>

-------------------------------------------------------------------------------
(* The owner, through PATCH and DELETE, and the clock.                     *)

Edit(s, row) ==
  /\ Exists(s)
  /\ edits < MaxEdits
  /\ edits' = edits + 1
  /\ sub' = [sub EXCEPT ![s] = row]
  /\ UNCHANGED <<now, place, attempts, job, pc, result, at, seen, crashes, wronged>>

Enable(s) ==
  /\ Edit(s, Fresh)
  /\ spell' = [spell EXCEPT ![s] = 0]
  /\ notices' = [notices EXCEPT ![s] = 0]

Disable(s) ==
  /\ Edit(s, [sub[s] EXCEPT !.enabled = FALSE, !.auto = FALSE])
  /\ UNCHANGED <<spell, notices>>

Delete(s) == Edit(s, Deleted) /\ UNCHANGED <<spell, notices>>

Tick ==
  /\ now < MaxTime
  /\ now' = now + 1
  /\ UNCHANGED <<sub, place, attempts, job, pc, result, at, seen, edits, crashes, spell,
                 notices, wronged>>

Work(c) ==
  \/ Defer(c) \/ Pass(c) \/ Skip(c) \/ Lookup(c) \/ Post(c)
  \/ RecordSuccess(c) \/ RecordFailure(c) \/ RecordGone(c) \/ Pause(c) \/ Settle(c)

Next ==
  \/ \E c \in Consumers : Work(c) \/ Crash(c) \/ \E m \in Messages : Take(c, m)
  \/ \E m \in Messages : Bury(m)
  \/ \E s \in Subs : Enable(s) \/ Disable(s) \/ Delete(s)
  \/ Tick

Spec == Init /\ [][Next]_vars

\* Invocations run to their end or crash, and the queue keeps delivering.
Fairness ==
  /\ \A c \in Consumers : WF_vars(Work(c))
  /\ \A m \in Messages : WF_vars(\E c \in Consumers : Take(c, m)) /\ WF_vars(Bury(m))

FairSpec == Spec /\ Fairness

-------------------------------------------------------------------------------
(* Properties.                                                             *)

\* The health columns count exactly the failures since the last success or
\* re-enable, however many consumers finish at once: no update is lost or
\* counted twice, and a streak has a start exactly while there is one.
CountersAreExact ==
  \A s \in Subs :
    Exists(s) => sub[s].fails = spell[s] /\ (sub[s].streak = NoStreak <=> spell[s] = 0)

\* A webhook that has recovered, or was re-enabled, is not paused by a decision
\* taken before: whenever a consumer pauses a subscription, the row as it is at
\* that moment calls for it.
NoStalePause == wronged = {}

\* One auto-pause, one notice: consumers crossing the threshold together do not
\* mail the owner twice, and none mails without a pause since the re-enable.
OneNoticePerPause ==
  \A s \in Subs :
    /\ notices[s] <= 1
    /\ Exists(s) /\ sub[s].auto => notices[s] = 1 /\ ~ sub[s].enabled

\* The threshold is not missed when several consumers cross it together: an
\* enabled subscription at its count threshold has a consumer about to pause it
\* whose snapshot is still current.  An interrupted consumer may lose its turn.
Crossed(s) ==
  Exists(s) /\ sub[s].enabled
  /\ sub[s].fails >= (IF s \in UserOwned THEN USER_AUTO_DISABLE_FAILURES
                                         ELSE ADMIN_AUTO_DISABLE_FAILURES)

ThresholdNotMissed ==
  \A s \in Subs :
    crashes = 0 /\ Crossed(s) =>
      \E c \in Consumers : pc[c] = "pause" /\ Target(c) = s /\ Unchanged(c)

\* No message is lost or handled twice at once: it is with one consumer exactly
\* while taken, and is given up only after all its deliveries.
NoMessageLost ==
  \A m \in Messages :
    /\ Cardinality({c \in Consumers : job[c] = m}) = (IF place[m] = "taken" THEN 1 ELSE 0)
    /\ place[m] \in {"dlq", "dead"} => attempts[m] = MAX_RETRIES + 1

\* Every message is settled in the end: acknowledged or dead-lettered.
EveryMessageSettles ==
  \A m \in Messages : <>(place[m] \in {"acked", "dead"})

\* docs/webhooks.md: "After 50 consecutive failures the subscription is
\* auto-disabled", said of the subscriptions under /v1/me/webhooks.
\* The code does not keep this (README, section 5).
PausedAtDocumentedThreshold ==
  [][\A s \in Subs :
       Exists(s) /\ Exists(s)' /\ ~ sub[s].auto /\ sub'[s].auto
         => sub[s].fails >= ADMIN_AUTO_DISABLE_FAILURES]_vars
===============================================================================
