----------------------------- MODULE Idempotency ------------------------------
(***************************************************************************)
(* The Idempotency-Key middleware of the API worker and the D1 table       *)
(* idempotency_records it shares with every other request and with the     *)
(* daily sweep.                                                            *)
(*                                                                         *)
(* A request is a sequence of single D1 statements; between two of them    *)
(* any other request, the sweep, or the clock may move, the worker may be  *)
(* evicted, and a statement may throw, before or after it was applied.     *)
(* `stamp' is the one `new Date()' the middleware takes: everything the    *)
(* request does later, the admission loop and the retention included,      *)
(* compares against that value, however old it has become.                 *)
(***************************************************************************)
EXTENDS Integers, FiniteSets

CONSTANTS
  Keys,                     \* (principal_hash, key_hash), the primary key
  Requests,                 \* HTTP requests; a request is its own attempt_id
  Hashes,                   \* request fingerprints
  NoRow,                    \* no record under this key
  NoStamp,                  \* the sweep is not running
  RETENTION,                \* RETENTION_MS, in ticks
  MAX_ADMISSION_ATTEMPTS,
  SWEEP_LIMIT,
  MaxTime                   \* bound on the clock

\* A record; its response columns are those of the attempt that completed it.
Row == [hash : Hashes, state : {"processing", "completed"}, attempt : Requests, expires : Nat]

ASSUME ConstantsOK ==
  /\ RETENTION \in Nat \ {0}
  /\ MAX_ADMISSION_ATTEMPTS \in Nat \ {0}
  /\ SWEEP_LIMIT \in Nat \ {0}
  /\ MaxTime \in Nat
  /\ NoRow \notin Row
  /\ NoStamp \notin Nat

VARIABLES
  now,        \* wall clock
  rows,       \* idempotency_records: key -> row or NoRow
  pc,         \* the statement a request will send next
  call,       \* what a request is: key, fingerprint, stamp
  tries,      \* admissionAttempt, completed iterations
  retaining,  \* the request is in confirmedRetention's admission loop
  answer,     \* what the client was told
  replayOf,   \* whose recorded response a replay carried
  sweepAt,    \* the cutoff the running sweep captured, or NoStamp
  ran,        \* history: what became of the request's handler
  ranAt       \* history: when its handler was let run

vars == <<now, rows, pc, call, tries, retaining, answer, replayOf, sweepAt, ran, ranAt>>

Call == [key : Keys, hash : Hashes, stamp : Nat]
PC   == {"idle", "insert", "select", "delete", "handler", "release", "complete", "confirm", "done"}
Answers == {"none", "refused", "conflict", "in_progress", "unavailable", "replayed",
            "rejected", "failed", "ok", "lost"}

TypeOK ==
  /\ now \in Nat
  /\ rows \in [Keys -> Row \cup {NoRow}]
  /\ pc \in [Requests -> PC]
  /\ call \in [Requests -> Call]
  /\ tries \in [Requests -> 0..(MAX_ADMISSION_ATTEMPTS - 1)]
  /\ retaining \in [Requests -> BOOLEAN]
  /\ answer \in [Requests -> Answers]
  /\ replayOf \in [Requests -> Requests]
  /\ sweepAt \in Nat \cup {NoStamp}
  /\ ran \in [Requests -> {"no", "running", "rejected", "effect"}]
  /\ ranAt \in [Requests -> Nat]

Init ==
  /\ now = 0
  /\ rows = [k \in Keys |-> NoRow]
  /\ pc = [r \in Requests |-> "idle"]
  /\ call \in [Requests -> [key : Keys, hash : Hashes, stamp : {0}]]
  /\ tries = [r \in Requests |-> 0]
  /\ retaining = [r \in Requests |-> FALSE]
  /\ answer = [r \in Requests |-> "none"]
  /\ replayOf = [r \in Requests |-> r]
  /\ sweepAt = NoStamp
  /\ ran = [r \in Requests |-> "no"]
  /\ ranAt = [r \in Requests |-> 0]

-------------------------------------------------------------------------------
Key(r)   == call[r].key
Stamp(r) == call[r].stamp
RowOf(r) == rows[Key(r)]

\* The row a claim writes, for the first time or to retain its guard.
Guard(r) == [hash |-> call[r].hash, state |-> "processing", attempt |-> r,
             expires |-> Stamp(r) + RETENTION]

\* The scope of every statement an attempt sends about its own row.
OwnsGuard(r) == RowOf(r) # NoRow /\ RowOf(r).attempt = r /\ RowOf(r).state = "processing"

\* The request goes on to l, or is over and its locals with it.
Goto(r, l) == pc' = [pc EXCEPT ![r] = l] /\ UNCHANGED <<answer, tries, retaining>>

Respond(r, a) ==
  /\ pc' = [pc EXCEPT ![r] = "done"]
  /\ answer' = [answer EXCEPT ![r] = a]
  /\ tries' = [tries EXCEPT ![r] = 0]
  /\ retaining' = [retaining EXCEPT ![r] = FALSE]

SetRow(r, row) == rows' = [rows EXCEPT ![Key(r)] = row]

\* A request that never reaches the table: malformed key, no principal, no
\* encryption key, unreadable or oversized body, preclaim's own answer.
Refuse(r) ==
  /\ pc[r] = "idle"
  /\ Respond(r, "refused")
  /\ UNCHANGED <<now, rows, call, replayOf, sweepAt, ran, ranAt>>

\* The request fixes its stamp and enters the admission loop.
Arrive(r) ==
  /\ pc[r] = "idle"
  /\ Goto(r, "insert")
  /\ call' = [call EXCEPT ![r].stamp = now]
  /\ UNCHANGED <<now, rows, replayOf, sweepAt, ran, ranAt>>

-------------------------------------------------------------------------------
(* claimIdempotency, one D1 statement at a time.                           *)

\* Fault: retention polls until the key is its own.
VerdictPolls(r, a) == IF retaining[r] THEN Goto(r, "confirm") ELSE Respond(r, a)

\* The answer the loop's kinds get from the middleware.  confirmedRetention
\* discards the kind: its caller answers 503 whatever it was.
Verdict(r, a) == Respond(r, IF retaining[r] THEN "unavailable" ELSE a)

\* INSERT ... ON CONFLICT DO NOTHING writes the row; the claim may be lost on
\* the way back, and then the handler is not run.
InsertGuard(r) ==
  /\ pc[r] = "insert"
  /\ RowOf(r) = NoRow
  /\ SetRow(r, Guard(r))
  /\ \/ /\ ~ retaining[r]
        /\ Goto(r, "handler")
        /\ ran' = [ran EXCEPT ![r] = "running"]
        /\ ranAt' = [ranAt EXCEPT ![r] = now]
     \/ Respond(r, "unavailable") /\ UNCHANGED <<ran, ranAt>>
  /\ UNCHANGED <<now, call, replayOf, sweepAt>>

InsertConflicts(r) ==
  /\ pc[r] = "insert"
  /\ RowOf(r) # NoRow
  /\ Goto(r, "select")
  /\ UNCHANGED <<now, rows, call, replayOf, sweepAt, ran, ranAt>>

\* `continue', or the end of the loop.
NextAttempt(r) ==
  IF tries[r] + 1 < MAX_ADMISSION_ATTEMPTS
    THEN /\ pc' = [pc EXCEPT ![r] = "insert"]
         /\ tries' = [tries EXCEPT ![r] = @ + 1]
         /\ UNCHANGED <<answer, retaining>>
    ELSE Respond(r, "unavailable")

SelectMissing(r) ==
  /\ pc[r] = "select"
  /\ RowOf(r) = NoRow
  /\ NextAttempt(r)
  /\ UNCHANGED <<now, rows, call, replayOf, sweepAt, ran, ranAt>>

SelectExpired(r) ==
  /\ pc[r] = "select"
  /\ RowOf(r) # NoRow
  /\ RowOf(r).expires <= Stamp(r)
  /\ Goto(r, "delete")
  /\ UNCHANGED <<now, rows, call, replayOf, sweepAt, ran, ranAt>>

\* An unexpired row decides: another fingerprint, still processing, or the
\* recorded response, which may fail to decrypt.
Live(r) == pc[r] = "select" /\ RowOf(r) # NoRow /\ RowOf(r).expires > Stamp(r)
\* Fault: the fingerprint is not compared.
AnyRequest(r) == r \in Requests

SameRequest(r) == RowOf(r).hash = call[r].hash

SelectConflict(r) ==
  /\ Live(r)
  /\ ~ SameRequest(r)
  /\ Verdict(r, "conflict")
  /\ UNCHANGED <<now, rows, call, replayOf, sweepAt, ran, ranAt>>

SelectProcessing(r) ==
  /\ Live(r)
  /\ SameRequest(r)
  /\ RowOf(r).state = "processing"
  /\ Verdict(r, "in_progress")
  /\ UNCHANGED <<now, rows, call, replayOf, sweepAt, ran, ranAt>>

SelectCompleted(r) ==
  /\ Live(r)
  /\ SameRequest(r)
  /\ RowOf(r).state = "completed"
  /\ \/ /\ ~ retaining[r]
        /\ Respond(r, "replayed")
        /\ replayOf' = [replayOf EXCEPT ![r] = RowOf(r).attempt]
     \/ Respond(r, "unavailable") /\ UNCHANGED replayOf
  /\ UNCHANGED <<now, rows, call, sweepAt, ran, ranAt>>

\* Fault: the DELETE trusts the SELECT that came before it.
DeleteBlindly(r) ==
  /\ pc[r] = "delete"
  /\ SetRow(r, NoRow)
  /\ NextAttempt(r)
  /\ UNCHANGED <<now, call, replayOf, sweepAt, ran, ranAt>>

\* DELETE ... WHERE expires_at <= now: the row may have changed hands since the
\* SELECT.  An answer lost after the DELETE ends the claim.
DeleteExpired(r) ==
  /\ pc[r] = "delete"
  /\ IF RowOf(r) # NoRow /\ RowOf(r).expires <= Stamp(r)
       THEN SetRow(r, NoRow)
       ELSE UNCHANGED rows
  /\ \/ NextAttempt(r)
     \/ Respond(r, "unavailable")
  /\ UNCHANGED <<now, call, replayOf, sweepAt, ran, ranAt>>

\* A statement of the loop throws before it is applied.
ClaimThrows(r) ==
  /\ pc[r] \in {"insert", "select", "delete"}
  /\ Respond(r, "unavailable")
  /\ UNCHANGED <<now, rows, call, replayOf, sweepAt, ran, ranAt>>

-------------------------------------------------------------------------------
(* The handler and what the middleware does with its outcome.              *)

\* A 3xx or 4xx, returned or thrown as a ReleasesError: nothing was done.
HandlerRejects(r) ==
  /\ pc[r] = "handler"
  /\ ran' = [ran EXCEPT ![r] = "rejected"]
  /\ Goto(r, "release")
  /\ UNCHANGED <<now, rows, call, replayOf, sweepAt, ranAt>>

\* Fault: a 5xx releases the guard too.
FailureReleases(r) ==
  /\ pc[r] = "handler"
  /\ ran' = [ran EXCEPT ![r] = "effect"]
  /\ Goto(r, "release")
  /\ UNCHANGED <<now, rows, call, replayOf, sweepAt, ranAt>>

\* A 5xx, or an unknown error: the effect may have happened; the row stays.
HandlerFails(r) ==
  /\ pc[r] = "handler"
  /\ ran' = [ran EXCEPT ![r] = "effect"]
  /\ Respond(r, "failed")
  /\ UNCHANGED <<now, rows, call, replayOf, sweepAt, ranAt>>

\* A 2xx, recordable or not (content type, size, UTF-8, encryption).
HandlerSucceeds(r) ==
  /\ pc[r] = "handler"
  /\ ran' = [ran EXCEPT ![r] = "effect"]
  /\ \E l \in {"complete", "confirm"} : Goto(r, l)
  /\ UNCHANGED <<now, rows, call, replayOf, sweepAt, ranAt>>

\* releaseIdempotency.  Only an acknowledged release of one row frees the
\* client; otherwise the guard must be confirmed or put back.
Release(r) ==
  /\ pc[r] = "release"
  /\ IF OwnsGuard(r)
       THEN /\ SetRow(r, NoRow)
            /\ \/ Respond(r, "rejected")
               \/ Goto(r, "confirm")
       ELSE UNCHANGED rows /\ Goto(r, "confirm")
  /\ UNCHANGED <<now, call, replayOf, sweepAt, ran, ranAt>>

\* completeIdempotency: the response becomes the record in one statement.
Complete(r) ==
  /\ pc[r] = "complete"
  /\ IF OwnsGuard(r)
       THEN /\ SetRow(r, [RowOf(r) EXCEPT !.state = "completed"])
            /\ \/ Respond(r, "ok")
               \/ Goto(r, "confirm")
       ELSE UNCHANGED rows /\ Goto(r, "confirm")
  /\ UNCHANGED <<now, call, replayOf, sweepAt, ran, ranAt>>

\* Fault: the statement's failure is swallowed and the client told as if it held.
SettleSwallows(r) ==
  /\ pc[r] \in {"release", "complete"}
  /\ Respond(r, IF pc[r] = "release" THEN "rejected" ELSE "ok")
  /\ UNCHANGED <<now, rows, call, replayOf, sweepAt, ran, ranAt>>

\* Either statement throws before it is applied.
SettleThrows(r) ==
  /\ pc[r] \in {"release", "complete"}
  /\ Goto(r, "confirm")
  /\ UNCHANGED <<now, rows, call, replayOf, sweepAt, ran, ranAt>>

\* confirmedRetention: isGuardActive, and the whole admission loop again when
\* the guard is gone.  Every way out of it is a 503.
ConfirmActive(r) ==
  /\ pc[r] = "confirm"
  /\ OwnsGuard(r)
  /\ Respond(r, "unavailable")
  /\ UNCHANGED <<now, rows, call, replayOf, sweepAt, ran, ranAt>>

ConfirmMissing(r) ==
  /\ pc[r] = "confirm"
  /\ ~ OwnsGuard(r)
  /\ pc' = [pc EXCEPT ![r] = "insert"]
  /\ tries' = [tries EXCEPT ![r] = 0]
  /\ retaining' = [retaining EXCEPT ![r] = TRUE]
  /\ UNCHANGED <<now, rows, call, answer, replayOf, sweepAt, ran, ranAt>>

ConfirmThrows(r) ==
  /\ pc[r] = "confirm"
  /\ Respond(r, "unavailable")
  /\ UNCHANGED <<now, rows, call, replayOf, sweepAt, ran, ranAt>>

\* The isolate is evicted: no statement follows, and the client hears nothing.
\* A handler it interrupts may have had its effect.
Crash(r) ==
  /\ pc[r] \notin {"idle", "done"}
  /\ Respond(r, "lost")
  /\ ran' = [ran EXCEPT ![r] = IF @ = "running" THEN "effect" ELSE @]
  /\ UNCHANGED <<now, rows, call, replayOf, sweepAt, ranAt>>

-------------------------------------------------------------------------------
(* The daily sweep, and the clock.                                         *)

\* nowIso is captured before the cron's bookkeeping.
SweepStart ==
  /\ sweepAt = NoStamp
  /\ sweepAt' = now
  /\ UNCHANGED <<now, rows, pc, call, tries, retaining, answer, replayOf, ran, ranAt>>

\* Faults: the sweep comes a tick early; it misses the boundary.
ExpiredEarly(t) == {k \in Keys : rows[k] # NoRow /\ rows[k].expires <= t + 1}
ExpiredStrictly(t) == {k \in Keys : rows[k] # NoRow /\ rows[k].expires < t}

Expired(t) == {k \in Keys : rows[k] # NoRow /\ rows[k].expires <= t}

\* ORDER BY expires_at LIMIT SWEEP_LIMIT.
SweepBatch(t) ==
  {S \in SUBSET Expired(t) :
     /\ Cardinality(S) <= SWEEP_LIMIT
     /\ S = Expired(t) \/ Cardinality(S) = SWEEP_LIMIT
     /\ \A k \in S, j \in Expired(t) \ S : rows[k].expires <= rows[j].expires}

SweepRun ==
  /\ sweepAt # NoStamp
  /\ \E S \in SweepBatch(sweepAt) :
       rows' = [k \in Keys |-> IF k \in S THEN NoRow ELSE rows[k]]
  /\ sweepAt' = NoStamp
  /\ UNCHANGED <<now, pc, call, tries, retaining, answer, replayOf, ran, ranAt>>

Tick ==
  /\ now < MaxTime
  /\ now' = now + 1
  /\ UNCHANGED <<rows, pc, call, tries, retaining, answer, replayOf, sweepAt, ran, ranAt>>

Claim(r) ==
  \/ InsertGuard(r) \/ InsertConflicts(r)
  \/ SelectMissing(r) \/ SelectExpired(r)
  \/ SelectConflict(r) \/ SelectProcessing(r) \/ SelectCompleted(r)
  \/ DeleteExpired(r) \/ ClaimThrows(r)

Settle(r) ==
  \/ Release(r) \/ Complete(r) \/ SettleThrows(r)
  \/ ConfirmActive(r) \/ ConfirmMissing(r) \/ ConfirmThrows(r)

Handler(r) == HandlerRejects(r) \/ HandlerFails(r) \/ HandlerSucceeds(r)

Sweep == SweepStart \/ SweepRun

Next ==
  \/ \E r \in Requests : Refuse(r) \/ Arrive(r) \/ Claim(r) \/ Handler(r) \/ Settle(r) \/ Crash(r)
  \/ Sweep
  \/ Tick

Spec == Init /\ [][Next]_vars

\* A request in flight goes on (its isolate runs or is evicted), handlers
\* return, and the cron fires every day.
Fairness ==
  /\ \A r \in Requests : WF_vars(Claim(r) \/ Handler(r) \/ Settle(r))
  /\ WF_vars(SweepStart)
  /\ WF_vars(SweepRun)

FairSpec == Spec /\ Fairness

-------------------------------------------------------------------------------
(* Properties.                                                             *)

\* The handler of r had, or may still have, its effect.
MayHaveEffect(r) == ran[r] \in {"running", "effect"}

\* A retry never runs the operation again while the first run counts: of two
\* requests under one key whose handlers may both have had an effect, one was
\* let run no earlier than 24 hours after the other's stamp.
AtMostOneEffect ==
  \A r, s \in Requests :
    r # s /\ Key(r) = Key(s) /\ MayHaveEffect(r) /\ MayHaveEffect(s) =>
      ranAt[r] >= Stamp(s) + RETENTION \/ ranAt[s] >= Stamp(r) + RETENTION

\* The row that bars the retry is there for as long as it must be: whoever may
\* have had an effect owns its key's row until its 24 hours are over, through
\* releases, lost answers, retentions, sweeps and other requests' deletes.
EffectKeepsItsRow ==
  \A r \in Requests :
    MayHaveEffect(r) /\ now < Stamp(r) + RETENTION =>
      RowOf(r) # NoRow /\ RowOf(r).attempt = r

\* A replay carries the response of a request with the same key and the same
\* fingerprint, one that did run and did not merely fail or get rejected.
ReplayIsOfSameRequest ==
  \A r \in Requests :
    answer[r] = "replayed" =>
      LET s == replayOf[r] IN
      /\ s # r
      /\ Key(s) = Key(r) /\ call[s].hash = call[r].hash
      /\ ran[s] = "effect" /\ ran[r] = "no"

\* A client that was told 2xx can count on the record: until it expires the
\* row is completed and is its own, so every retry replays what it was told.
AcknowledgedIsReplayable ==
  \A r \in Requests :
    answer[r] = "ok" /\ now < Stamp(r) + RETENTION =>
      RowOf(r) # NoRow /\ RowOf(r).attempt = r /\ RowOf(r).state = "completed"

\* A client that was told 4xx may use the key again at once: no row of its own
\* attempt is left behind, nor can one come back.
RejectionFreesKey ==
  \A r \in Requests :
    answer[r] = "rejected" => RowOf(r) = NoRow \/ RowOf(r).attempt # r

\* A recorded response is never lost or altered before it expires: not by a
\* late release, a stale delete, a retention or a sweep.
CompletedIsStable ==
  [][\A k \in Keys :
       rows[k] # NoRow /\ rows[k].state = "completed" /\ now < rows[k].expires
         => rows'[k] = rows[k]]_vars

\* Every request that enters the admission loop is answered or lost with its
\* isolate: the loop and the retention after it cannot go round for ever.
EveryRequestEnds ==
  \A r \in Requests : pc[r] = "insert" ~> pc[r] = "done"

\* Every expired row is eventually gone, however many expire at once: the
\* bounded sweep starves none.
ExpiredRowsLeave ==
  \A k \in Keys :
    rows[k] # NoRow /\ rows[k].expires <= now ~> rows[k] = NoRow \/ rows[k].expires > now

\* The inductive invariant behind the above.  A request's phase fixes what its
\* handler has done (the first two conjuncts); a row is its attempt's guard,
\* with the attempt's own expiry, and is completed only after an effect; no one
\* compares against a time that has not come yet.
PhaseInv ==
  \A r \in Requests :
    /\ pc[r] = "idle" => ran[r] = "no"
    /\ pc[r] \in {"insert", "select", "delete"} /\ ~ retaining[r] => ran[r] = "no"
    /\ ran[r] = "running" <=> pc[r] = "handler"
    /\ pc[r] = "release" => ran[r] = "rejected"
    /\ pc[r] = "complete" => ran[r] = "effect"
    /\ answer[r] # "none" => pc[r] = "done"
    /\ answer[r] = "ok" => ran[r] = "effect"

RowInv ==
  \A k \in Keys :
    rows[k] # NoRow =>
      LET a == rows[k].attempt IN
      /\ pc[a] # "idle" /\ Key(a) = k
      /\ rows[k].hash = call[a].hash
      /\ rows[k].expires = Stamp(a) + RETENTION
      /\ rows[k].state = "completed" => ran[a] = "effect"

ClockInv ==
  /\ \A r \in Requests : Stamp(r) <= now
  /\ sweepAt # NoStamp => sweepAt <= now

Inv ==
  /\ TypeOK
  /\ PhaseInv
  /\ RowInv
  /\ ClockInv
  /\ AtMostOneEffect
  /\ EffectKeepsItsRow
  /\ ReplayIsOfSameRequest
  /\ AcknowledgedIsReplayable
  /\ RejectionFreesKey

\* The contract: under the mapping below the middleware is an AtMostOnce.
Contract ==
  INSTANCE AtMostOnce WITH
    holds <- {[key |-> Key(r), by |-> r, until |-> Stamp(r) + RETENTION] :
                r \in {q \in Requests : MayHaveEffect(q)}}

ImplementsContract == Contract!Spec
===============================================================================
