----------------------------- MODULE ReleaseFanout -----------------------------
(***************************************************************************)
(* The fan-out of published releases to webhook subscriptions.             *)
(* publishReleaseEvents sends each publish batch as one message of the     *)
(* release-events queue; the queue's consumer reads the subscriptions and  *)
(* sends one webhook-delivery message for each match, a hundred at a time. *)
(* When the send throws, the publisher does the same fan-out itself,       *)
(* inline and once.  The queue is at-least-once, re-tries a message a      *)
(* bounded number of times and has no dead-letter queue.                   *)
(*                                                                         *)
(* A subscription that matches the batch is a number, in the order the     *)
(* messages are expanded in: those of the organisation, then the follows.  *)
(***************************************************************************)
EXTENDS Integers, FiniteSets

CONSTANTS
    Batches,    \* publish batches, each the releases one source inserted
    OrgSubs,    \* the number of matching subscriptions of the organisation
    FollowSubs, \* the number of matching follows-scoped subscriptions
    Limit,      \* QUEUE_BATCH_LIMIT
    Retries,    \* max_retries of the release-events consumer
    MaxFaults,  \* bound: calls and invocations that fail
    MaxToggles  \* bound: subscriptions switched off or on

ASSUME FanoutAssumption ==
    /\ {OrgSubs, FollowSubs, Retries, MaxFaults, MaxToggles} \subseteq Nat
    /\ Limit \in Nat \ {0}

VARIABLES
    enabled,    \* the subscriptions that are enabled
    job,        \* each batch's fan-out by the queue and inline
    delivered,  \* how many webhook-delivery messages each pair was queued
    steady,     \* history: subscriptions enabled ever since the batch was published
    faults,
    toggles

vars == <<enabled, job, delivered, steady, faults, toggles>>

Org == 1..OrgSubs
Subs == 1..(OrgSubs + FollowSubs)
Via == {"queue", "inline"}

NoJob == [pc |-> "none", left |-> {}, tries |-> 0]

Init ==
    /\ enabled \in SUBSET Subs
    /\ job = [b \in Batches |-> [v \in Via |-> NoJob]]
    /\ delivered = [b \in Batches |-> [s \in Subs |-> 0]]
    /\ steady = [b \in Batches |-> {}]
    /\ faults = 0 /\ toggles = 0

Fault == faults < MaxFaults /\ faults' = faults + 1

Waiting == [NoJob EXCEPT !.pc = "waiting"]
Dropped == [NoJob EXCEPT !.pc = "dropped"]
Attempt(j) == [pc |-> "org", left |-> {}, tries |-> j.tries + 1]

-----------------------------------------------------------------------------
(* The publisher.                                                          *)
New(b) == \A v \in Via : job[b][v].pc = "none"

(* The send succeeds.                                                      *)
Publish(b) ==
    /\ New(b)
    /\ job' = [job EXCEPT ![b]["queue"] = Waiting]
    /\ steady' = [steady EXCEPT ![b] = enabled]
    /\ UNCHANGED <<enabled, delivered, faults, toggles>>

(* The send throws, although the queue may have taken the message.         *)
PublishThrows(b) ==
    /\ New(b) /\ Fault
    /\ \E q \in {Waiting, NoJob} :
          job' = [job EXCEPT ![b] = [v \in Via |-> IF v = "queue" THEN q ELSE Attempt(NoJob)]]
    /\ steady' = [steady EXCEPT ![b] = enabled]
    /\ UNCHANGED <<enabled, delivered, toggles>>

(* The source is hidden or deleted, its visibility cannot be read, or the  *)
(* publisher dies: the batch is not fanned out.                            *)
PublishNothing(b) ==
    /\ New(b)
    /\ job' = [job EXCEPT ![b]["queue"] = Dropped]
    /\ UNCHANGED <<enabled, delivered, steady, faults, toggles>>

-----------------------------------------------------------------------------
(* expandAndEnqueue.                                                       *)

\* Fault: a message that was attempted before is taken for done.
TakeFresh(b) ==
    /\ job[b]["queue"].pc = "waiting" /\ job[b]["queue"].tries = 0
    /\ job' = [job EXCEPT ![b]["queue"] = Attempt(@)]
    /\ UNCHANGED <<enabled, delivered, steady, faults, toggles>>

Take(b) ==
    /\ job[b]["queue"].pc = "waiting"
    /\ job' = [job EXCEPT ![b]["queue"] = Attempt(@)]
    /\ UNCHANGED <<enabled, delivered, steady, faults, toggles>>

LoadOrg(b, v) ==
    /\ job[b][v].pc = "org"
    /\ job' = [job EXCEPT ![b][v].left = enabled \cap Org, ![b][v].pc = "follows"]
    /\ UNCHANGED <<enabled, delivered, steady, faults, toggles>>

LoadFollows(b, v) ==
    /\ job[b][v].pc = "follows"
    /\ job' = [job EXCEPT ![b][v].left = @ \cup (enabled \ Org), ![b][v].pc = "send"]
    /\ UNCHANGED <<enabled, delivered, steady, faults, toggles>>

(* messages.slice(i, i + QUEUE_BATCH_LIMIT): the first of those left.      *)
Chunk(left) == {s \in left : Cardinality({t \in left : t < s}) < Limit}

QueuedOnce(d, b, c) == [d EXCEPT ![b] = [s \in Subs |-> @[s] + IF s \in c THEN 1 ELSE 0]]

\* Fault: the last message of a chunk is in the next one too.
SendChunkOverlaps(b, v) ==
    /\ job[b][v].pc = "send" /\ job[b][v].left # {}
    /\ LET c == Chunk(job[b][v].left) IN
          /\ delivered' = QueuedOnce(delivered, b, c)
          /\ job' = [job EXCEPT ![b][v].left =
                       @ \ {s \in c : c = @ \/ \E t \in c : t > s}]
    /\ UNCHANGED <<enabled, steady, faults, toggles>>

SendChunk(b, v) ==
    /\ job[b][v].pc = "send" /\ job[b][v].left # {}
    /\ LET c == Chunk(job[b][v].left) IN
          /\ delivered' = QueuedOnce(delivered, b, c)
          /\ job' = [job EXCEPT ![b][v].left = @ \ c]
    /\ UNCHANGED <<enabled, steady, faults, toggles>>

(* handleQueueBatch acknowledges the message; the inline fan-out returns.  *)
Finish(b, v) ==
    /\ job[b][v].pc = "send" /\ job[b][v].left = {}
    /\ job' = [job EXCEPT ![b][v].pc = "done"]
    /\ UNCHANGED <<enabled, delivered, steady, faults, toggles>>

-----------------------------------------------------------------------------
(* Failures.                                                               *)

\* Fault: the queue's fan-out logs its error like the inline one.
AfterFailureSwallowed(j, v) ==
    [j EXCEPT !.left = {}, !.pc = IF v = "queue" THEN "done" ELSE "dropped"]

(* throwOnError: the message is re-tried, or dropped after its last try;   *)
(* the inline fan-out only logs the error.                                 *)
AfterFailure(j, v) ==
    [j EXCEPT !.left = {},
              !.pc = IF v = "queue" /\ j.tries <= Retries THEN "waiting" ELSE "dropped"]

(* A query or a sendBatch throws, although its chunk may have been taken,  *)
(* or the invocation dies.                                                 *)
Fails(b, v) ==
    /\ job[b][v].pc \in {"org", "follows", "send"} /\ Fault
    /\ \E c \in {{}} \cup (IF job[b][v].pc = "send" THEN {Chunk(job[b][v].left)} ELSE {}) :
          delivered' = QueuedOnce(delivered, b, c)
    /\ job' = [job EXCEPT ![b][v] = AfterFailure(@, v)]
    /\ UNCHANGED <<enabled, steady, toggles>>

-----------------------------------------------------------------------------
(* The owners of the subscriptions.                                        *)
Disable(s) ==
    /\ s \in enabled /\ toggles < MaxToggles
    /\ enabled' = enabled \ {s}
    /\ steady' = [b \in Batches |-> steady[b] \ {s}]
    /\ toggles' = toggles + 1
    /\ UNCHANGED <<job, delivered, faults>>

Enable(s) ==
    /\ s \notin enabled /\ toggles < MaxToggles
    /\ enabled' = enabled \cup {s}
    /\ toggles' = toggles + 1
    /\ UNCHANGED <<job, delivered, steady, faults>>

-----------------------------------------------------------------------------
Works(b, v) == LoadOrg(b, v) \/ LoadFollows(b, v) \/ SendChunk(b, v) \/ Finish(b, v)

Next ==
    \/ \E b \in Batches : Publish(b) \/ PublishThrows(b) \/ PublishNothing(b) \/ Take(b)
    \/ \E b \in Batches, v \in Via : Works(b, v) \/ Fails(b, v)
    \/ \E s \in Subs : Disable(s) \/ Enable(s)

Spec == Init /\ [][Next]_vars

(* The queue delivers a message that waits, and an invocation runs on.     *)
FairSpec ==
    /\ Spec
    /\ \A b \in Batches : WF_vars(Take(b))
    /\ \A b \in Batches, v \in Via : WF_vars(Works(b, v))

-----------------------------------------------------------------------------
TypeOK ==
    /\ enabled \subseteq Subs
    /\ job \in [Batches -> [Via -> [pc : {"none", "waiting", "org", "follows", "send",
                                          "done", "dropped"},
                                    left : SUBSET Subs, tries : Nat]]]
    /\ delivered \in [Batches -> [Subs -> Nat]]
    /\ steady \in [Batches -> SUBSET Subs]
    /\ faults \in Nat /\ toggles \in Nat

(* A fan-out that ends without being dropped, by the queue after whatever  *)
(* re-tries or inline, has queued a delivery for every subscription that   *)
(* was enabled from the publication on, toggles of the others between its  *)
(* two queries and its chunks notwithstanding.                             *)
EveryMatchGetsEvent ==
    \A b \in Batches : (\E v \in Via : job[b][v].pc = "done")
                         => \A s \in steady[b] : delivered[b][s] > 0

Attempts(b) == job[b]["queue"].tries + job[b]["inline"].tries

(* A subscription is queued a batch once for each attempt that was made at *)
(* it, at most: the chunks of one attempt never overlap, so that only a    *)
(* failure makes a duplicate.                                              *)
DuplicatesNeedFailures ==
    \A b \in Batches, s \in Subs : delivered[b][s] <= Attempts(b)

(* A batch that waits or is being fanned out comes to an end.              *)
Busy == {"waiting", "org", "follows", "send"}
EveryBatchSettles ==
    \A b \in Batches, v \in Via : job[b][v].pc \in Busy ~> job[b][v].pc \in {"done", "dropped"}
================================================================================
