----------------------------- MODULE SourceActor -----------------------------
(***************************************************************************)
(* The fetch timer of one source: the SourceActor Durable Object           *)
(* (apps/api/src/source-actor.ts) with what it reads and wakes up: the     *)
(* source's row in D1, the poll-and-fetch workflow instances it starts,    *)
(* the hourly heartbeat that re-seeds a source whose alarm is missing, and *)
(* the users who pause, resume and fetch by hand.                          *)
(*                                                                         *)
(* Time is counted in ticks, each far longer than one handler and at most  *)
(* as long as the re-try delay; every stored time is a countdown or an     *)
(* age.  An alarm or handler that is due runs before the next tick, unless *)
(* the platform dropped the alarm.  Each await on D1 or on the Workflows   *)
(* binding is a step boundary: other calls on the object run there.        *)
(***************************************************************************)
EXTENDS Integers, FiniteSets

CONSTANTS
    None,       \* no alarm, no time, no mark
    Window,     \* SAFETY_WINDOW_MS, and the width of an instance-id bucket
    Retry,      \* CREATE_FAILURE_RETRY_MS
    Interval,   \* the tier interval
    Jitter,     \* seedJitterMs of this source
    Backoff,    \* the nextFetchAfter a run may leave behind
    Life,       \* bound: an instance ends before it is this many buckets old
    Mishaps      \* bound: crashes, lost answers and calls, dropped alarms,
                \* and the pauses, resumes and fetches made by users

ASSUME TimerAssumption ==
    /\ {Window, Retry, Interval, Backoff, Life} \subseteq Nat \ {0}
    /\ Jitter \in 0..Interval
    /\ Retry < Window /\ Window < Interval
    /\ Mishaps \in Nat
    /\ None \notin Int

VARIABLES
    phase,      \* the present instant, modulo Window
    alarm,      \* ticks until the Durable Object alarm; < 0: in the past
    lost,       \* the platform lost that alarm: it is still stored, never runs
    mark,       \* state.inFlight with state.lastFiredAt, as the age of the fire
    row,        \* sources: age of lastPolledAt, nextFetchAfter, paused
    orgPaused,  \* organizations.fetch_paused
    mirror,     \* sources.actor_managed / actor_next_alarm_at
    handler,    \* the running alarm(): [pc, row] and what it is to write
    call,       \* the pending ensureScheduled or onSourceChanged call
    write,      \* the mirror write that call still has to make
    beat,       \* the cron may run: it has not, since the last tick
    runs,       \* status of the instance of each id bucket, by age of bucket
    mishaps,     \* so many of them happened
    forgot,     \* history: why a run that is still alive lost its mark
    fires       \* history: runs started while paused, since the last pause

actorVars == <<alarm, lost, mark, handler, write>>
userVars  == <<orgPaused, call>>
timerVars == <<phase, alarm, lost, mark, row, orgPaused, mirror, handler, call,
               write, beat, runs, mishaps, forgot, fires>>

Far == Window + Interval + Backoff
OldMark == Window * (Life + 1)

Countdown == (-1)..Far
Rows == [polled : {None} \cup 0..Interval, backoff : 0..Backoff, paused : BOOLEAN]
Status == {"none", "new", "polled", "ended"}
Reasons == {"crash", "lost_answer", "collision", "pause", "not_due"}

Atmost(a, b) == IF a < b THEN a ELSE b
Atleast(a, b) == IF a < b THEN b ELSE a

AlarmIdle == [pc |-> "idle", row |-> [polled |-> None, backoff |-> 0, paused |-> FALSE],
              managed |-> FALSE, next |-> None]

(* The bucket, counted back from the present one, of an instant that is    *)
(* this old: sourceActorWorkflowId divides the epoch by the window.        *)
BucketAge(age) == (age + Window - 1 - phase) \div Window

Live(b) == runs[b] \in {"new", "polled"}
LiveRuns == {b \in DOMAIN runs : Live(b)}

Paused == row.paused \/ orgPaused

TimerInit ==
    /\ phase = 0
    /\ alarm = None /\ lost = FALSE /\ mark = None
    /\ row = [polled |-> None, backoff |-> 0, paused |-> FALSE]
    /\ orgPaused = FALSE
    /\ mirror = [managed |-> FALSE, next |-> None]
    /\ handler = AlarmIdle /\ call = "none" /\ write = None /\ beat = TRUE
    /\ runs = [b \in 0..Life |-> "none"]
    /\ mishaps = 0 /\ forgot = {} /\ fires = 0

-----------------------------------------------------------------------------
(* alarm().                                                                *)

(* Ticks until the source is due; a source never polled is due at once     *)
(* unless a backoff is set.                                                *)
DueIn(r) == IF r.polled = None THEN r.backoff
            ELSE Atleast(Interval - r.polled, r.backoff)

(* The platform runs the alarm, which reads the row.  getAlarm() is null   *)
(* from here until somebody sets it again.                                 *)
AlarmRuns ==
    /\ handler.pc = "idle" /\ alarm \in (-1)..0 /\ ~lost
    /\ alarm' = None
    /\ handler' = [AlarmIdle EXCEPT !.pc = "loaded", !.row = row]
    /\ UNCHANGED <<phase, beat, lost, mark, row, mirror, write, runs, mishaps, forgot, fires, userVars>>

(* A live run whose mark is taken away is forgotten, for this reason.      *)
Forgets(newMark, why) ==
    forgot' = IF newMark = None /\ LiveRuns # {} THEN forgot \cup {why} ELSE forgot

(* scheduleAt: alarm, state, then the mirror, which is a D1 write.         *)
ScheduleAt(at, newMark) ==
    /\ alarm' = at /\ lost' = FALSE
    /\ mark' = newMark
    /\ handler' = [AlarmIdle EXCEPT !.pc = "mirror", !.managed = TRUE, !.next = at]

NoReschedule ==
    /\ handler.pc = "loaded"
    /\ orgPaused \/ handler.row.paused
    /\ alarm' = None /\ lost' = FALSE
    /\ mark' = None
    /\ handler' = [AlarmIdle EXCEPT !.pc = "mirror", !.managed = FALSE, !.next = None]
    /\ Forgets(None, "pause")
    /\ UNCHANGED <<phase, beat, row, mirror, write, runs, mishaps, fires, userVars>>

\* Fault: only the source's own pause is looked at.
ProceedsUnlessSourcePaused == handler.pc = "loaded" /\ ~handler.row.paused

(* The alarm goes on to look at the cadence.                               *)
Proceeds == handler.pc = "loaded" /\ ~orgPaused /\ ~handler.row.paused

NotYetDue ==
    /\ Proceeds
    /\ DueIn(handler.row) > 0
    /\ ScheduleAt(DueIn(handler.row), None)
    /\ Forgets(None, "not_due")
    /\ UNCHANGED <<phase, beat, row, mirror, write, runs, mishaps, fires, userVars>>

\* Fault: the id is derived from the age of the fire, not from its instant.
FoundByAge == mark # None /\ (mark \div Window) \in LiveRuns

(* previousWorkflowAlive: an instance that is not found is not alive, and  *)
(* one whose lookup fails is taken to be.                                  *)
FoundAlive == mark # None /\ BucketAge(mark) \in LiveRuns

Guarded ==
    /\ Proceeds
    /\ DueIn(handler.row) <= 0
    /\ mark # None
    /\ \/ (mark < Window \/ FoundAlive) /\ UNCHANGED mishaps
       \/ mark >= Window /\ mishaps < Mishaps      \* the lookup fails
          /\ mishaps' = mishaps + 1
    /\ ScheduleAt(Window, mark)
    /\ UNCHANGED <<phase, beat, row, mirror, write, runs, forgot, fires, userVars>>

GoesToFire ==
    /\ Proceeds
    /\ DueIn(handler.row) <= 0
    /\ mark \notin 0..(Window - 1) /\ ~FoundAlive
    /\ handler' = [AlarmIdle EXCEPT !.pc = "create"]
    /\ UNCHANGED <<phase, beat, alarm, lost, mark, row, mirror, write, runs, mishaps, forgot, fires, userVars>>

(* wf.create with the id of the present bucket.                            *)
Created ==
    /\ handler.pc = "create" /\ runs[0] = "none"
    /\ runs' = [runs EXCEPT ![0] = "new"]
    /\ fires' = IF Paused THEN fires + 1 ELSE fires
    /\ \/ handler' = [AlarmIdle EXCEPT !.pc = "fired"]
          /\ UNCHANGED <<mishaps, forgot>>
       \/ mishaps < Mishaps /\ mishaps' = mishaps + 1   \* the answer is lost
          /\ handler' = [AlarmIdle EXCEPT !.pc = "failed"]
          /\ forgot' = forgot \cup {"lost_answer"}
    /\ UNCHANGED <<phase, beat, alarm, lost, mark, row, mirror, write, userVars>>

(* The id is taken, or the control plane refuses.                          *)
NotCreated ==
    /\ handler.pc = "create"
    /\ \/ runs[0] # "none" /\ UNCHANGED mishaps
       \/ mishaps < Mishaps /\ mishaps' = mishaps + 1
    /\ handler' = [AlarmIdle EXCEPT !.pc = "failed"]
    /\ UNCHANGED <<phase, beat, alarm, lost, mark, row, mirror, write, runs, forgot, fires, userVars>>

AfterFire ==
    /\ \/ handler.pc = "fired" /\ ScheduleAt(Interval, 0) /\ UNCHANGED forgot
       \/ handler.pc = "failed" /\ ScheduleAt(Retry, None) /\ Forgets(None, "collision")
    /\ UNCHANGED <<phase, beat, row, mirror, write, runs, mishaps, fires, userVars>>

(* mirrorToD1 swallows the error of a failed write.                        *)
AlarmMirrors ==
    /\ handler.pc = "mirror"
    /\ handler' = AlarmIdle
    /\ \/ mirror' = [managed |-> handler.managed, next |-> handler.next] /\ UNCHANGED mishaps
       \/ mishaps < Mishaps /\ mishaps' = mishaps + 1 /\ UNCHANGED mirror
    /\ UNCHANGED <<phase, beat, alarm, lost, mark, row, write, runs, forgot, fires, userVars>>

(* The object dies, or D1 throws, before the handler is done: the platform *)
(* runs the alarm again, unless a new one has been set.                    *)
AlarmCrashes ==
    /\ handler.pc # "idle" /\ mishaps < Mishaps
    /\ mishaps' = mishaps + 1
    /\ \E delay \in {0, 1} : alarm' = IF alarm = None THEN delay ELSE alarm
    /\ forgot' = IF handler.pc \in {"fired", "failed"} /\ LiveRuns # {}
                 THEN forgot \cup {"crash"} ELSE forgot
    /\ handler' = AlarmIdle
    /\ UNCHANGED <<phase, beat, lost, mark, row, mirror, write, runs, fires, userVars>>

AlarmNext ==
    \/ AlarmRuns \/ NoReschedule \/ NotYetDue \/ Guarded \/ GoesToFire
    \/ Created \/ NotCreated \/ AfterFire \/ AlarmMirrors

-----------------------------------------------------------------------------
(* Calls on the object.                                                    *)

\* Fault: a stored alarm in the past counts as pending.
EnsureUnlessStored(force) ==
    IF alarm # None /\ ~force
    THEN /\ write' = alarm
         /\ UNCHANGED <<alarm, lost>>
    ELSE /\ alarm' = Jitter /\ lost' = FALSE
         /\ write' = Jitter

(* ensureScheduled: a live timer is left alone, one in the past is dead.   *)
EnsureScheduled(force) ==
    IF alarm \in Nat /\ ~force
    THEN /\ write' = alarm
         /\ UNCHANGED <<alarm, lost>>
    ELSE /\ alarm' = Jitter /\ lost' = FALSE
         /\ write' = Jitter

(* dueSourcesWhere \/ unmanagedWhere: what the hourly cron seeds.          *)
PollDue == row.backoff = 0 /\ row.polled \notin 0..(Interval - 1)
Unmanaged == ~mirror.managed \/ mirror.next \notin Nat
NeedsSeeding == ~Paused /\ (PollDue \/ Unmanaged)

Heartbeat ==
    /\ beat /\ write = None /\ NeedsSeeding
    /\ beat' = FALSE
    /\ EnsureScheduled(FALSE)
    /\ UNCHANGED <<phase, mark, row, mirror, handler, runs, mishaps, forgot, fires, userVars>>

(* A route's call arrives: onSourceChanged sets the alarm whatever it was, *)
(* as a forced ensureScheduled does.                                       *)
CallArrives ==
    /\ call = "seed" /\ write = None
    /\ call' = "none"
    /\ EnsureScheduled(TRUE)
    /\ UNCHANGED <<phase, beat, mark, row, mirror, handler, runs, mishaps, forgot, fires, orgPaused>>

CallIsLost ==
    /\ call = "seed" /\ mishaps < Mishaps
    /\ call' = "none" /\ mishaps' = mishaps + 1
    /\ UNCHANGED <<phase, beat, row, mirror, runs, forgot, fires, orgPaused, actorVars>>

CallMirrors ==
    /\ write # None
    /\ write' = None
    /\ \/ mirror' = [managed |-> TRUE, next |-> write] /\ UNCHANGED mishaps
       \/ mishaps < Mishaps /\ mishaps' = mishaps + 1 /\ UNCHANGED mirror
    /\ UNCHANGED <<phase, beat, alarm, lost, mark, row, handler, runs, forgot, fires, userVars>>

-----------------------------------------------------------------------------
(* Users.                                                                  *)

UserActs == mishaps < Mishaps /\ call = "none" /\ mishaps' = mishaps + 1

PauseOrg ==
    /\ UserActs /\ ~orgPaused
    /\ orgPaused' = TRUE /\ fires' = 0
    /\ UNCHANGED <<phase, beat, row, mirror, runs, forgot, call, actorVars>>

ResumeOrg ==
    /\ UserActs /\ orgPaused
    /\ orgPaused' = FALSE /\ call' = IF row.paused THEN "none" ELSE "seed"
    /\ UNCHANGED <<phase, beat, row, mirror, runs, forgot, fires, actorVars>>

(* PATCH fetchPriority: the actor is told, whichever way it goes.          *)
PatchSource ==
    /\ UserActs
    /\ row' = [row EXCEPT !.paused = ~row.paused]
    /\ call' = "seed"
    /\ fires' = IF row.paused THEN fires ELSE 0
    /\ UNCHANGED <<phase, beat, mirror, runs, forgot, orgPaused, actorVars>>

(* A fetch by hand stamps lastPolledAt and arms the actor.                 *)
ManualFetch ==
    /\ UserActs
    /\ \E b \in {0, Backoff} : row' = [row EXCEPT !.polled = 0, !.backoff = b]
    /\ call' = "seed"
    /\ UNCHANGED <<phase, beat, mirror, runs, forgot, fires, orgPaused, actorVars>>

UserNext == PauseOrg \/ ResumeOrg \/ PatchSource \/ ManualFetch

-----------------------------------------------------------------------------
(* The workflow instances: after its jitter sleep a run polls, and stamps  *)
(* lastPolledAt; then it ends, leaving a backoff or clearing it.           *)

RunPolls(b) ==
    /\ runs[b] = "new"
    /\ runs' = [runs EXCEPT ![b] = "polled"]
    /\ row' = [row EXCEPT !.polled = 0]
    /\ UNCHANGED <<phase, beat, mirror, mishaps, forgot, fires, userVars, actorVars>>

RunEnds(b) ==
    /\ Live(b)
    /\ runs' = [runs EXCEPT ![b] = "ended"]
    /\ \E left \in {row.backoff, 0, Backoff} :
          row' = [row EXCEPT !.backoff = IF runs[b] = "polled" THEN left ELSE row.backoff]
    /\ forgot' = IF LiveRuns = {b} THEN {} ELSE forgot
    /\ UNCHANGED <<phase, beat, mirror, mishaps, fires, userVars, actorVars>>

-----------------------------------------------------------------------------
(* The clock and the platform.                                             *)

Sooner(t) == IF t = None THEN None ELSE Atleast(t - 1, -1)
Older(t, cap) == IF t = None THEN None ELSE Atmost(t + 1, cap)

(* Nothing that takes less than a tick is left unfinished by one.          *)
Quiet ==
    /\ handler.pc = "idle" /\ write = None /\ call = "none"
    /\ alarm \notin (-1)..0 \/ lost

Tick ==
    /\ Quiet
    /\ phase = Window - 1 => ~Live(Life)
    /\ phase' = (phase + 1) % Window
    /\ beat' = TRUE
    /\ alarm' = Sooner(alarm)
    /\ mark' = Older(mark, OldMark)
    /\ row' = [row EXCEPT !.polled = Older(@, Interval), !.backoff = Atleast(@ - 1, 0)]
    /\ mirror' = [mirror EXCEPT !.next = Sooner(@)]
    /\ runs' = IF phase = Window - 1
               THEN [b \in 0..Life |-> IF b = 0 THEN "none" ELSE runs[b - 1]]
               ELSE runs
    /\ UNCHANGED <<lost, handler, write, mishaps, forgot, fires, userVars>>

DropAlarm ==
    /\ alarm \in (-1)..0 /\ ~lost /\ mishaps < Mishaps
    /\ lost' = TRUE /\ mishaps' = mishaps + 1
    /\ UNCHANGED <<phase, beat, alarm, mark, row, mirror, handler, write, runs, forgot, fires, userVars>>

-----------------------------------------------------------------------------
TimerNext ==
    \/ AlarmNext \/ AlarmCrashes
    \/ Heartbeat \/ CallArrives \/ CallIsLost \/ CallMirrors
    \/ UserNext
    \/ \E b \in 0..Life : RunPolls(b) \/ RunEnds(b)
    \/ Tick \/ DropAlarm

TimerSpec == TimerInit /\ [][TimerNext]_timerVars

(* The platform runs due alarms, delivered calls and workflow steps, the   *)
(* hourly cron runs, and time goes on.                                     *)
TimerFairness ==
    /\ WF_timerVars(AlarmNext)
    /\ WF_timerVars(Heartbeat) /\ WF_timerVars(CallArrives) /\ WF_timerVars(CallMirrors)
    /\ \A b \in 0..Life : WF_timerVars(RunEnds(b))
    /\ WF_timerVars(Tick)

FairTimerSpec == TimerSpec /\ TimerFairness

-----------------------------------------------------------------------------
TimerTypeOK ==
    /\ phase \in 0..(Window - 1)
    /\ alarm \in {None} \cup Countdown /\ lost \in BOOLEAN
    /\ mark \in {None} \cup 0..OldMark
    /\ row \in Rows /\ orgPaused \in BOOLEAN
    /\ mirror \in [managed : BOOLEAN, next : {None} \cup Countdown]
    /\ handler \in [pc : {"idle", "loaded", "create", "fired", "failed", "mirror"},
                    row : Rows, managed : BOOLEAN, next : {None} \cup Countdown]
    /\ call \in {"none", "seed"} /\ write \in {None} \cup Countdown /\ beat \in BOOLEAN
    /\ runs \in [0..Life -> Status]
    /\ mishaps \in 0..Mishaps
    /\ forgot \subseteq Reasons /\ fires \in Nat

(* A second run of a source is started beside one that is still alive only *)
(* if the actor had lost the first one's mark: its create answer was lost, *)
(* the handler crashed, an id collided, a pause or a not-yet-due alarm     *)
(* cleared it.                                                             *)
OneLiveRun == Cardinality(LiveRuns) > 1 => forgot # {}

(* After a source, or its organization, is paused, at most one more run    *)
(* starts while either stays paused: that of the alarm that had already    *)
(* looked.  Each pause counts anew: the alarm reads the source's pause     *)
(* before its organization's, so that one that moves from the second to    *)
(* the first in between escapes it.                                        *)
PauseStopsFetching == fires <= 1

(* source-actor.ts:298-300: past the window, "a run that is still alive    *)
(* keeps the lease instead of starting another", whatever its last alarm.  *)
(* The code does not keep this (README, section 5).                        *)
AliveRunKeepsTheLease == Cardinality(LiveRuns) > 1 => forgot \ {"not_due"} # {}

(* A source that stays fetchable is fetched again and again, whatever      *)
(* alarm was dropped, mirror write failed, call was lost or pause raced it.*)
KeepsFetching == <>[](~Paused) => []<>(runs[0] = "new")
=============================================================================
