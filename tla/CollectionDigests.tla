--------------------------- MODULE CollectionDigests ---------------------------
(***************************************************************************)
(* The weekly digest mails of a collection, for one subscription:          *)
(* sendCollectionDigests queues a message for each subscriber of the week  *)
(* that just closed, and the consumer (processCollectionDigestMessage)     *)
(* claims the week in last_sent_week before it sends, and undoes the claim *)
(* when the send fails.  The step that queues the messages is re-tried by  *)
(* its workflow, and the queue is at-least-once: a message has copies.     *)
(***************************************************************************)
EXTENDS Integers

CONSTANTS
    Weeks,      \* bound: weeks that close
    Copies,     \* bound: messages that are queued for one week
    Retries,    \* max_retries of the digest-delivery consumer
    MaxUpsets   \* bound: calls, invocations and schedules that fail, and
                \* changes of the subscription

ASSUME CollectionAssumption ==
    /\ {Weeks, Copies, Retries, MaxUpsets} \subseteq Nat

VARIABLES
    week,       \* the week that closed last; 0 before the first
    subscribed, \* there is a row for the reader and the collection
    last,       \* its last_sent_week; 0 stands for NULL
    job,        \* the messages
    mailed,     \* how often each week was mailed
    repeats,    \* history: why a week may be mailed again
    abandoned,  \* history: weeks whose claim stood after a send that failed
    upsets

vars == <<week, subscribed, last, job, mailed, repeats, abandoned, upsets>>

Messages == (1..Weeks) \X (1..Copies)
NoMessage == [pc |-> "none", previous |-> 0, was |-> 0, tries |-> 0]
Done == [NoMessage EXCEPT !.pc = "done"]

Init ==
    /\ week = 0 /\ subscribed = TRUE /\ last = 0
    /\ job = [p \in Messages |-> NoMessage]
    /\ mailed = [w \in 1..Weeks |-> 0]
    /\ repeats = 0 /\ abandoned = {} /\ upsets = 0

Upset == upsets < MaxUpsets /\ upsets' = upsets + 1

-----------------------------------------------------------------------------
Settled == \A p \in Messages : job[p].pc \in {"none", "done", "dropped"}

(* A week closes; messages of the week before still wait only when the     *)
(* queue is late by a week.                                                *)
Close ==
    /\ week < Weeks
    /\ week' = week + 1
    /\ IF Settled THEN UNCHANGED upsets ELSE Upset
    /\ UNCHANGED <<subscribed, last, job, mailed, repeats, abandoned>>

(* listCollectionDigestRecipientIds and sendDigestBatch; the step is run   *)
(* again when its answer is lost, or the message is delivered twice.       *)
Enqueue(k) ==
    /\ week > 0 /\ subscribed /\ last < week
    /\ job[<<week, k>>].pc = "none"
    /\ job' = [job EXCEPT ![<<week, k>>] = [NoMessage EXCEPT !.pc = "waiting"]]
    /\ IF k = 1 THEN UNCHANGED upsets ELSE Upset
    /\ UNCHANGED <<week, subscribed, last, mailed, repeats, abandoned>>

(* subscribeCollectionDigest inserts a new row, on which any week is open. *)
Subscribe ==
    /\ ~subscribed
    /\ subscribed' = TRUE /\ last' = 0
    /\ repeats' = repeats + 1
    /\ UNCHANGED <<week, job, mailed, abandoned, upsets>>

Unsubscribe ==
    /\ subscribed /\ Upset
    /\ subscribed' = FALSE /\ last' = 0
    /\ UNCHANGED <<week, job, mailed, repeats, abandoned>>

-----------------------------------------------------------------------------
(* The consumer.  A message p is <<weekStart, copy>>.                      *)
Take(p) ==
    /\ job[p].pc = "waiting"
    /\ job' = [job EXCEPT ![p].pc = "check", ![p].tries = @ + 1]
    /\ UNCHANGED <<week, subscribed, last, mailed, repeats, abandoned, upsets>>

(* not_subscribed, already_sent, or the row's last_sent_week is kept.      *)
Check(p) ==
    /\ job[p].pc = "check"
    /\ job' = [job EXCEPT ![p] = IF subscribed /\ last < p[1]
                                 THEN [@ EXCEPT !.pc = "claim", !.previous = last] ELSE Done]
    /\ UNCHANGED <<week, subscribed, last, mailed, repeats, abandoned, upsets>>

\* Fault: the UPDATE moves any row and counts it.
ClaimAny(p) ==
    /\ job[p].pc = "claim"
    /\ job' = [job EXCEPT ![p].pc = "send", ![p].was = last]
    /\ last' = p[1]
    /\ UNCHANGED <<week, subscribed, mailed, repeats, abandoned, upsets>>

(* claimCollectionDigestSend: one UPDATE, whose RETURNING says who won.    *)
Claim(p) ==
    /\ job[p].pc = "claim"
    /\ IF subscribed /\ last < p[1]
       THEN /\ last' = p[1]
            /\ job' = [job EXCEPT ![p].pc = "send", ![p].was = last]
       ELSE job' = [job EXCEPT ![p] = Done] /\ UNCHANGED last
    /\ UNCHANGED <<week, subscribed, mailed, repeats, abandoned, upsets>>

Send(p) ==
    /\ job[p].pc = "send"
    /\ mailed' = [mailed EXCEPT ![p[1]] = @ + 1]
    /\ job' = [job EXCEPT ![p] = Done]
    /\ UNCHANGED <<week, subscribed, last, repeats, abandoned, upsets>>

(* The provider answers with an error, although the mail may be out.       *)
SendFails(p) ==
    /\ job[p].pc = "send" /\ Upset
    /\ \/ UNCHANGED <<mailed, repeats>>
       \/ mailed' = [mailed EXCEPT ![p[1]] = @ + 1] /\ repeats' = repeats + 1
    /\ job' = [job EXCEPT ![p].pc = "release"]
    /\ UNCHANGED <<week, subscribed, last, abandoned>>

Again(p) ==
    [job EXCEPT ![p] = IF job[p].tries <= Retries
                       THEN [NoMessage EXCEPT !.pc = "waiting", !.tries = job[p].tries]
                       ELSE [NoMessage EXCEPT !.pc = "dropped"]]

\* Fault: the message is re-tried with its claim in place.
ReleaseNothing(p) ==
    /\ job[p].pc = "release"
    /\ job' = Again(p)
    /\ UNCHANGED <<week, subscribed, last, mailed, repeats, abandoned, upsets>>

(* releaseCollectionDigestSend: only while the row is at this week, back   *)
(* to what it was when the message was checked.                            *)
Undo(p) ==
    IF subscribed /\ last = p[1]
    THEN /\ last' = job[p].previous
         /\ IF job[p].previous = job[p].was
            THEN UNCHANGED <<repeats, abandoned>>
            ELSE repeats' = repeats + 1 /\ abandoned' = abandoned \cup {job[p].previous}
    ELSE /\ abandoned' = abandoned \cup {p[1]}
         /\ UNCHANGED <<last, repeats>>

Release(p) ==
    /\ job[p].pc = "release"
    /\ Undo(p)
    /\ job' = Again(p)
    /\ UNCHANGED <<week, subscribed, mailed, upsets>>

-----------------------------------------------------------------------------
(* A statement throws, although it may have been executed, or the          *)
(* invocation dies: the message is re-tried.                               *)
ReadFails(p) ==
    /\ job[p].pc \in {"check", "claim"} /\ Upset
    /\ job' = Again(p)
    /\ UNCHANGED <<week, subscribed, last, mailed, repeats, abandoned>>

ClaimAnswerLost(p) ==
    /\ job[p].pc = "claim" /\ subscribed /\ last < p[1] /\ Upset
    /\ last' = p[1]
    /\ abandoned' = abandoned \cup {p[1]}
    /\ job' = Again(p)
    /\ UNCHANGED <<week, subscribed, mailed, repeats>>

DiesInSend(p) ==
    /\ job[p].pc = "send" /\ Upset
    /\ mailed' \in {mailed, [mailed EXCEPT ![p[1]] = @ + 1]}
    /\ abandoned' = abandoned \cup {p[1]}
    /\ job' = Again(p)
    /\ UNCHANGED <<week, subscribed, last, repeats>>

ReleaseFails(p) ==
    /\ job[p].pc = "release" /\ Upset
    /\ \/ Undo(p)
       \/ abandoned' = abandoned \cup {p[1]} /\ UNCHANGED <<last, repeats>>
    /\ job' = Again(p)
    /\ UNCHANGED <<week, subscribed, mailed>>

-----------------------------------------------------------------------------
Next ==
    \/ Close \/ Subscribe \/ Unsubscribe
    \/ \E k \in 1..Copies : Enqueue(k)
    \/ \E p \in Messages : \/ Take(p) \/ Check(p) \/ Claim(p) \/ Send(p) \/ SendFails(p)
                           \/ Release(p) \/ ReadFails(p) \/ ClaimAnswerLost(p)
                           \/ DiesInSend(p) \/ ReleaseFails(p)

Spec == Init /\ [][Next]_vars

-----------------------------------------------------------------------------
TypeOK ==
    /\ week \in 0..Weeks /\ subscribed \in BOOLEAN /\ last \in 0..Weeks
    /\ job \in [Messages -> [pc : {"none", "waiting", "check", "claim", "send", "release",
                                   "done", "dropped"},
                             previous : 0..Weeks, was : 0..Weeks, tries : Nat]]
    /\ mailed \in [1..Weeks -> Nat]
    /\ repeats \in Nat /\ abandoned \subseteq 0..Weeks /\ upsets \in Nat

(* collection-digest-consumer.ts:68-69, "so a redelivered or duplicated    *)
(* message can't mail twice": a week is mailed once more only when a mail  *)
(* that went out was reported as failed, when the reader subscribed anew,  *)
(* or when a release put back a week that had been overtaken.              *)
WeekMailedOnce == \A w \in 1..Weeks : mailed[w] <= 1 + repeats

(* A week that stands as sent and was not mailed is being sent, or its     *)
(* invocation died after the claim, a later week overtook its release, or  *)
(* a stale release put it back: a send that fails never uses up a week.    *)
ClaimIsKeptBySend ==
    last > 0 /\ mailed[last] = 0 =>
        \/ last \in abandoned
        \/ \E k \in 1..Copies : job[<<last, k>>].pc \in {"send", "release"}
================================================================================
