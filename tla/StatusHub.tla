------------------------------- MODULE StatusHub -------------------------------
(***************************************************************************)
(* The StatusHub Durable Object: one row per session, moved by the events  *)
(* its producers post, by a sweep on the read path that times out silent   *)
(* sessions, and by a retention alarm.                                     *)
(*                                                                         *)
(* A handler only awaits the object's own storage, so it is one step.      *)
(* Producers are remote: their events may be late, repeated or never come. *)
(* Time is kept as the age of each row's last update.                      *)
(***************************************************************************)
EXTENDS Integers

CONSTANTS
  Sessions,
  NoRow,
  STALE_SESSION,    \* STALE_SESSION_MS
  RETENTION         \* RETENTION_MS

ASSUME AgesOK == STALE_SESSION \in Nat /\ RETENTION \in Nat /\ STALE_SESSION <= RETENTION

VARIABLES
  row,       \* the session: keys
  first      \* history: the first end reported for the row since its last start

hubVars == <<row, first>>

Terminal == {"complete", "error", "cancelled"}
Row == [status : {"running"} \cup Terminal,
        swept : BOOLEAN,             \* error = STALE_TIMEOUT_ERROR, errorSource = "us"
        cancelRequested : BOOLEAN,
        age : 0..(RETENTION + 1)]    \* now - lastUpdatedAt, capped

ASSUME NoRowOK == NoRow \notin Row

HubTypeOK ==
  /\ row \in [Sessions -> Row \cup {NoRow}]
  /\ first \in [Sessions -> Terminal \cup {"none"}]

HubInit ==
  /\ row = [s \in Sessions |-> NoRow]
  /\ first = [s \in Sessions |-> "none"]

-------------------------------------------------------------------------------
(* handleEvent.                                                            *)

Exists(s) == row[s] # NoRow

NewRow(status) == [status |-> status, swept |-> FALSE, cancelRequested |-> FALSE, age |-> 0]

\* Its end: reported, or guessed by the sweep.
Ended(x, end, guess) == [x EXCEPT !.status = end, !.swept = guess, !.age = 0]

OnStart(s) ==
  /\ row' = [row EXCEPT ![s] = NewRow("running")]
  /\ first' = [first EXCEPT ![s] = "none"]

OnProgress(s) ==
  /\ row' = IF Exists(s) THEN [row EXCEPT ![s].age = 0] ELSE row
  /\ UNCHANGED first

\* Fault: the sweep's guess is as final as a report.
BlocksEvenGuess(s) == row[s].status \in Terminal

\* blocksLateTerminal: the sweep's timeout is a guess, any other end is final.
BlocksLateTerminal(s) == row[s].status \in Terminal /\ ~ row[s].swept

OnEnd(s, end) ==
  /\ row' = IF Exists(s) /\ ~ BlocksLateTerminal(s)
              THEN [row EXCEPT ![s] = Ended(@, end, FALSE)]
              ELSE row
  /\ first' = IF Exists(s) /\ first[s] = "none" THEN [first EXCEPT ![s] = end] ELSE first

\* An error for an unknown session leaves a row of its own.
OnError(s) ==
  /\ row' = IF ~ Exists(s) THEN [row EXCEPT ![s] = NewRow("error")]
            ELSE IF row[s].status \in Terminal THEN row
            ELSE [row EXCEPT ![s] = Ended(@, "error", FALSE)]
  /\ first' = IF first[s] = "none" THEN [first EXCEPT ![s] = "error"] ELSE first

OnReport(s, end) == IF end = "error" THEN OnError(s) ELSE OnEnd(s, end)

-------------------------------------------------------------------------------
(* The other requests, the alarm and the clock.                            *)

\* Fault: a session whose cancellation was requested is left alone.
StaleUnlessCancelled(s) ==
  /\ Exists(s)
  /\ row[s].status = "running" /\ ~ row[s].cancelRequested /\ row[s].age > STALE_SESSION

Stale(s) == Exists(s) /\ row[s].status = "running" /\ row[s].age > STALE_SESSION

\* GET /sessions times out every stale session it reads.
List ==
  /\ row' = [s \in Sessions |->
               IF Stale(s) THEN Ended(row[s], "error", TRUE) ELSE row[s]]
  /\ UNCHANGED first

\* POST /sessions/:id/cancel only leaves a mark.
RequestCancel(s) ==
  /\ Exists(s) /\ row[s].status = "running"
  /\ row' = [row EXCEPT ![s].cancelRequested = TRUE]
  /\ UNCHANGED first

\* Faults: the retention alarm does not look at the status; it has the sweep's limit.
ExpiredAny(s) == Exists(s) /\ row[s].age > STALE_SESSION
ExpiredEarly(s) == Exists(s) /\ row[s].status # "running" /\ row[s].age > STALE_SESSION

Expired(s) == Exists(s) /\ row[s].status # "running" /\ row[s].age > RETENTION

Alarm ==
  /\ row' = [s \in Sessions |-> IF Expired(s) THEN NoRow ELSE row[s]]
  /\ first' = [s \in Sessions |-> IF Expired(s) THEN "none" ELSE first[s]]

Older(x) == IF x = NoRow \/ x.age > RETENTION THEN x ELSE [x EXCEPT !.age = @ + 1]

Age == row' = [s \in Sessions |-> Older(row[s])] /\ UNCHANGED first

-------------------------------------------------------------------------------
(* The hub by itself, with producers that post anything.                   *)

HubNext ==
  \/ \E s \in Sessions :
       \/ OnStart(s) \/ OnProgress(s) \/ RequestCancel(s)
       \/ \E end \in Terminal : OnReport(s, end)
  \/ List \/ Alarm \/ Age

HubSpec == HubInit /\ [][HubNext]_hubVars

\* Time passes, and somebody keeps listing the sessions: nothing is assumed of the
\* producers, which may have died.
FairHubSpec == HubSpec /\ WF_hubVars(Age) /\ WF_hubVars(List)

\* The first end reported for a session stands against every later one, and
\* against a sweep before or after it; only an error that comes after a sweep may
\* still be taken over, since the row then does not say it was reported.
FirstReportStands ==
  \A s \in Sessions :
    first[s] # "none" /\ Exists(s) =>
      row[s].status = first[s] \/ (first[s] = "error" /\ row[s].status # "running")

\* No sweep, no late event and no alarm makes a finished session look alive, or
\* changes how it finished: it takes a new start, or the end of its retention.
FinishedIsFinal ==
  [][\A s \in Sessions :
       /\ Exists(s) /\ row[s].status \in Terminal /\ ~ row[s].swept
       /\ row'[s] # row[s]
       =>
         \/ row'[s] = NoRow /\ row[s].age > RETENTION
         \/ row'[s] # NoRow /\ row'[s].status = row[s].status
         \/ row'[s] = NewRow("running")]_hubVars

\* A running session never vanishes: whoever holds its id sees how it ended.
RunningIsNotForgotten ==
  [][\A s \in Sessions :
       Exists(s) /\ row[s].status = "running" => row'[s] # NoRow]_hubVars

\* Whatever was lost and whoever died: a session whose producer has fallen silent
\* is not shown as running for ever.
SilentSessionsSettle ==
  \A s \in Sessions :
    <>[][~ OnStart(s) /\ ~ OnProgress(s)]_hubVars
      => <>[](row[s] = NoRow \/ row[s].status # "running")
===============================================================================
