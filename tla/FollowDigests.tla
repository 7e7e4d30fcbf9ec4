----------------------------- MODULE FollowDigests -----------------------------
(***************************************************************************)
(* The digest mails of followed releases, for one reader: the crons        *)
(* (sendDigests), the digest-delivery queue and its consumer               *)
(* (processDigestDeliveryMessage), and the fallback that sends inline.     *)
(* A run mails the releases ingested in (after, runStart], `after' being   *)
(* the reader's watermark, and then moves the watermark to runStart.       *)
(*                                                                         *)
(* Time is counted in what the windows compare: the starts of the runs and *)
(* the moments the reader switches the digest on.  On Mondays a daily and  *)
(* a weekly run start at the same time.  A release is stamped with the     *)
(* time of its ingestion (fetched_at) and visible when that INSERT is      *)
(* committed; one stamped after time t and not after t + 1 counts as t + 1.*)
(***************************************************************************)
EXTENDS Integers, FiniteSets

CONSTANTS
    Releases,   \* the releases of what the reader follows
    MaxTime,    \* bound: runs and switches
    MaxPerMail, \* DIGEST_MAX_RELEASES
    Retries,    \* max_retries of the digest-delivery consumer
    MaxUpsets   \* bound: calls, invocations and schedules that fail, and
                \* the reader's changes of cadence

ASSUME DigestAssumption ==
    /\ {MaxTime, Retries, MaxUpsets} \subseteq Nat
    /\ MaxPerMail \in Nat \ {0}

VARIABLES
    now,
    due,        \* the runs <<runStart, cadence>> that have not listed their recipients
    cadence,    \* user_digest_prefs.cadence
    mark,       \* user_digest_prefs.last_digest_at
    stamp,      \* releases.fetched_at; 0 before the ingestion
    visible,    \* the releases whose INSERT is committed
    job,        \* the reader's part of each run, by queue and inline
    mailed,     \* how often each release was mailed to the reader
    joined,     \* history: when the reader last switched the digest on
    late,       \* history: committed after the run for its stamp had started
    over,       \* history: left out of a mail that was full
    upsets

vars == <<now, due, cadence, mark, stamp, visible, job, mailed, joined, late, over,
          upsets>>

reader == <<cadence, mark, joined>>
ingest == <<stamp, visible, late>>

Cadences == {"daily", "weekly"}
Via == {"queue", "inline"}
Parts == (1..MaxTime) \X Cadences \X Via

NoPart == [pc |-> "none", after |-> 0, got |-> {}, tries |-> 0]

Init ==
    /\ now = 0 /\ due = {}
    /\ cadence \in Cadences \cup {"off"} /\ mark = 0 /\ joined = 0
    /\ stamp = [i \in Releases |-> 0] /\ visible = {} /\ late = {}
    /\ job = [p \in Parts |-> NoPart]
    /\ mailed = [i \in Releases |-> 0] /\ over = {}
    /\ upsets = 0

Upset == upsets < MaxUpsets /\ upsets' = upsets + 1

-----------------------------------------------------------------------------
(* Ingestion and the reader's preferences.                                 *)
Stamp(i) ==
    /\ stamp[i] = 0
    /\ stamp' = [stamp EXCEPT ![i] = now + 1]
    /\ UNCHANGED <<now, due, reader, visible, late, job, mailed, over, upsets>>

Commit(i) ==
    /\ stamp[i] # 0 /\ i \notin visible
    /\ visible' = visible \cup {i}
    /\ late' = IF stamp[i] <= now THEN late \cup {i} ELSE late
    /\ UNCHANGED <<now, due, reader, stamp, job, mailed, over, upsets>>

(* setDigestCadence, unsubscribeByToken: the watermark is stamped with the *)
(* time only when the digest is switched on.                               *)
Switch(c) ==
    /\ c # cadence /\ Upset
    /\ cadence' = c
    /\ IF cadence = "off"
       THEN /\ now < MaxTime
            /\ now' = now + 1 /\ joined' = now + 1 /\ mark' = now + 1
       ELSE UNCHANGED <<now, joined, mark>>
    /\ UNCHANGED <<due, ingest, job, mailed, over>>

-----------------------------------------------------------------------------
(* The crons.                                                              *)
Settled == \A p \in Parts : job[p].pc \in {"none", "done", "dropped"}

(* The next scheduled time; a run before it may still be under way only    *)
(* when the queue or the platform was late by a day.                       *)
Schedule ==
    /\ now < MaxTime
    /\ \E cs \in {{"daily"}, Cadences} : due' = {now + 1} \X cs
    /\ now' = now + 1
    /\ IF due = {} /\ Settled THEN UNCHANGED upsets ELSE Upset
    /\ UNCHANGED <<reader, ingest, job, mailed, over>>

Queued == [NoPart EXCEPT !.pc = "waiting", !.after = mark]
Inline == [NoPart EXCEPT !.pc = "list"]
Done == [NoPart EXCEPT !.pc = "done"]

(* sendDigests lists the recipients and queues a message for each, up to   *)
(* DIGEST_MAX_PER_RUN; the run may also die.                               *)
List(r) ==
    /\ r \in due
    /\ due' = due \ {r}
    /\ \/ UNCHANGED job
       \/ cadence = r[2] /\ job' = [job EXCEPT ![<<r[1], r[2], "queue">>] = Queued]
    /\ UNCHANGED <<now, reader, ingest, mailed, over, upsets>>

(* The batch throws, whether or not it was queued: all are sent inline.    *)
ListThrows(r) ==
    /\ r \in due /\ Upset
    /\ due' = due \ {r}
    /\ \E q \in {NoPart} \cup (IF cadence = r[2] THEN {Queued} ELSE {}) :
          job' = [job EXCEPT ![<<r[1], r[2], "queue">>] = q,
                             ![<<r[1], r[2], "inline">>] = Inline]
    /\ UNCHANGED <<now, reader, ingest, mailed, over>>

(* sendDigestsInline lists the recipients again.                           *)
ListInline(p) ==
    /\ job[p].pc = "list"
    /\ job' = [job EXCEPT ![p] = IF cadence = p[2]
                                 THEN [@ EXCEPT !.pc = "gather", !.after = mark] ELSE Done]
    /\ UNCHANGED <<now, due, reader, ingest, mailed, over, upsets>>

-----------------------------------------------------------------------------
(* The consumer.  A part p is <<runStart, cadence, via>>.                  *)
Take(p) ==
    /\ job[p].pc = "waiting"
    /\ job' = [job EXCEPT ![p].pc = "check", ![p].tries = @ + 1]
    /\ UNCHANGED <<now, due, reader, ingest, mailed, over, upsets>>

(* Not a recipient any more, or already_sent.                              *)
Check(p) ==
    /\ job[p].pc = "check"
    /\ job' = [job EXCEPT ![p] = IF cadence # p[2] \/ mark >= p[1]
                                 THEN Done ELSE [@ EXCEPT !.pc = "gather"]]
    /\ UNCHANGED <<now, due, reader, ingest, mailed, over, upsets>>

\* Fault: the window is closed at both ends.
WindowClosed(p) == {i \in visible : job[p].after <= stamp[i] /\ stamp[i] <= p[1]}

\* fetched_at > after AND fetched_at <= runStart.
Window(p) == {i \in visible : job[p].after < stamp[i] /\ stamp[i] <= p[1]}

(* The query's LIMIT takes the newest by date of publication, which is not *)
(* the order of ingestion; a mail without releases is not sent.            *)
Gather(p) ==
    /\ job[p].pc = "gather"
    /\ \E got \in SUBSET Window(p) :
          /\ Cardinality(got) <= MaxPerMail
          /\ got # Window(p) => Cardinality(got) = MaxPerMail
          /\ over' = over \cup (Window(p) \ got)
          /\ job' = [job EXCEPT ![p] = IF got = {} THEN Done
                                       ELSE [@ EXCEPT !.pc = "send", !.got = got]]
    /\ UNCHANGED <<now, due, reader, ingest, mailed, upsets>>

Mail(got) == [i \in Releases |-> mailed[i] + IF i \in got THEN 1 ELSE 0]

Send(p) ==
    /\ job[p].pc = "send"
    /\ mailed' = Mail(job[p].got)
    /\ job' = [job EXCEPT ![p].pc = "advance"]
    /\ UNCHANGED <<now, due, reader, ingest, over, upsets>>

\* Fault: the watermark is moved to the time of the mail.
AdvanceToNow(p) ==
    /\ job[p].pc = "advance"
    /\ mark' = now + 1
    /\ job' = [job EXCEPT ![p] = Done]
    /\ UNCHANGED <<now, due, cadence, joined, ingest, mailed, over, upsets>>

(* advanceDigestWatermark: whatever the watermark is by now.               *)
Advance(p) ==
    /\ job[p].pc = "advance"
    /\ mark' = p[1]
    /\ job' = [job EXCEPT ![p] = Done]
    /\ UNCHANGED <<now, due, cadence, joined, ingest, mailed, over, upsets>>

-----------------------------------------------------------------------------
(* Failures: a message is re-tried, or dropped after its last try; the     *)
(* inline loop leaves a reader it could not mail to the next run.          *)
AfterFailure(p) ==
    [job EXCEPT ![p] = IF p[3] = "queue" /\ job[p].tries <= Retries
                       THEN [@ EXCEPT !.pc = "waiting", !.got = {}]
                       ELSE [NoPart EXCEPT !.pc = "dropped"]]

(* A query throws or the invocation dies; a mail may be out all the same.  *)
Fails(p) ==
    /\ job[p].pc \in {"list", "check", "gather", "send"} /\ Upset
    /\ mailed' \in {mailed, Mail(job[p].got)}
    /\ job' = AfterFailure(p)
    /\ UNCHANGED <<now, due, reader, ingest, over>>

(* The mail is out and the watermark is not moved, or its answer is lost.  *)
AdvanceFails(p) ==
    /\ job[p].pc = "advance" /\ Upset
    /\ mark' \in {mark, p[1]}
    /\ job' = AfterFailure(p)
    /\ UNCHANGED <<now, due, cadence, joined, ingest, mailed, over>>

-----------------------------------------------------------------------------
Next ==
    \/ Schedule
    \/ \E i \in Releases : Stamp(i) \/ Commit(i)
    \/ \E c \in Cadences \cup {"off"} : Switch(c)
    \/ \E r \in due : List(r) \/ ListThrows(r)
    \/ \E p \in Parts : \/ ListInline(p) \/ Take(p) \/ Check(p) \/ Gather(p) \/ Send(p)
                        \/ Advance(p) \/ Fails(p) \/ AdvanceFails(p)

Spec == Init /\ [][Next]_vars

-----------------------------------------------------------------------------
TypeOK ==
    /\ now \in 0..MaxTime /\ mark \in 0..MaxTime /\ joined \in 0..MaxTime
    /\ due \subseteq (1..MaxTime) \X Cadences /\ cadence \in Cadences \cup {"off"}
    /\ stamp \in [Releases -> 0..(MaxTime + 1)]
    /\ visible \subseteq Releases /\ late \subseteq Releases /\ over \subseteq Releases
    /\ job \in [Parts -> [pc : {"none", "waiting", "list", "check", "gather", "send",
                                "advance", "done", "dropped"},
                          after : 0..MaxTime, got : SUBSET Releases, tries : Nat]]
    /\ mailed \in [Releases -> Nat]
    /\ upsets \in Nat

(* The watermark passes no release that was not mailed, whatever is lost,  *)
(* re-tried or overlaps: except one that a full mail left out, one whose   *)
(* INSERT was committed after the run for its time had started, and those  *)
(* from before the reader joined.                                          *)
WatermarkSkipsNothing ==
    \A i \in visible \ (late \cup over) :
        joined < stamp[i] /\ stamp[i] <= mark => mailed[i] > 0

(* send-digests.ts:114-115, "delivers every row exactly once": a release   *)
(* is mailed once more only for a failure, for a run that overlaps the one *)
(* of another day, or for a change of cadence in the middle of a run.      *)
CopiesNeedFailures ==
    \A i \in Releases : mailed[i] <= 1 + upsets
================================================================================
