-------------------------------- MODULE OrgDrain --------------------------------
(***************************************************************************)
(* The drain of one organization's pages.  A source without a feed is only *)
(* probed and flagged by its poll (cron/poll-fetch.ts); whoever sees the   *)
(* flag arms the OrgActor Durable Object (org-actor.ts), whose alarm picks *)
(* the flagged sources longest without a fetch and starts one update run   *)
(* for them; the run clears the flag of each source it has fetched.        *)
(*                                                                         *)
(* A tick is one poll interval: longer than a lease or an alarm's delay,   *)
(* shorter than the cooldown and the age that forces a flag.  The calls of *)
(* a dispatch are UpdateDispatch's; here it is one step.                   *)
(***************************************************************************)
EXTENDS Integers, FiniteSets

CONSTANTS
    Sources,    \* the organization's pages
    Broken,     \* those that no fetch ever succeeds for
    Updates,    \* bound: update runs under way at once
    Nobody,     \* no source, no owner
    Cap,        \* ORG_DRAIN_CHUNK
    Cooldown,   \* DRAIN_COOLDOWN_MS
    Stale,      \* FORCE_DRAIN_STALE_HOURS
    MaxChanges, \* bound: how often a page changes
    MaxUpsets   \* bound: calls and runs that fail, and requests made by hand

ASSUME DrainAssumption ==
    /\ Broken \subseteq Sources /\ Nobody \notin Sources \cup Updates
    /\ {Cap, Cooldown, Stale} \subseteq Nat \ {0}
    /\ {MaxChanges, MaxUpsets} \subseteq Nat

VARIABLES
    page,       \* "new" to the probe's validators, only "seen", or "stored"
    flagged,    \* the sources with a changeDetectedAt
    age,        \* ticks since lastFetchedAt, or Stale
    cool,       \* ticks that are left of the cooldown after lastDrainAt
    turn,       \* how far each source's poll is in this tick
    orgAlarm,   \* the OrgActor's alarm: none, set, or dead (stored, never run)
    batch,      \* what the running alarm is about to dispatch
    stamp,      \* what it has dispatched and is about to stamp
    lease,      \* the owner of each source's live lease
    update,     \* each update run: what it fetches, and has still to fetch
    changes, upsets

drainVars == <<page, flagged, age, cool, turn, orgAlarm, batch, stamp, lease,
               update, changes, upsets>>
polls == <<page, turn, changes>>

NoUpdate == [todo |-> {}, doing |-> Nobody, current |-> FALSE]
Free(u) == \A s \in Sources : lease[s] # u /\ update[u] = NoUpdate

DrainInit ==
    /\ page = [s \in Sources |-> "stored"] /\ flagged = {}
    /\ age = [s \in Sources |-> IF s \in Broken THEN Stale ELSE 0]
    /\ cool = [s \in Sources |-> 0] /\ turn = [s \in Sources |-> "due"]
    /\ orgAlarm = "none" /\ batch = {} /\ stamp = {}
    /\ lease = [s \in Sources |-> Nobody]
    /\ update = [u \in Updates |-> NoUpdate]
    /\ changes = 0 /\ upsets = 0

Upset == upsets < MaxUpsets /\ upsets' = upsets + 1

-------------------------------------------------------------------------------
(* The publisher.  A fetch under way has read the page as it was before.   *)
PageChanges(s) ==
    /\ changes < MaxChanges /\ changes' = changes + 1
    /\ page' = [page EXCEPT ![s] = "new"]
    /\ update' = [u \in Updates |->
                    IF update[u].doing = s THEN [update[u] EXCEPT !.current = FALSE]
                    ELSE update[u]]
    /\ UNCHANGED <<flagged, age, cool, turn, orgAlarm, batch, stamp, lease, upsets>>

-------------------------------------------------------------------------------
(* The poll of each source.                                                *)

(* ensureDrainScheduled leaves any stored alarm alone; the call may be     *)
(* lost, and its caller goes on.                                           *)
Notify ==
    \/ orgAlarm' = (IF orgAlarm = "none" THEN "set" ELSE orgAlarm) /\ UNCHANGED upsets
    \/ UNCHANGED orgAlarm /\ Upset

(* The source's alarm: it notifies for a flag that is still there, and     *)
(* starts the run that polls.                                              *)
Wake(s) ==
    /\ turn[s] = "due" /\ turn' = [turn EXCEPT ![s] = "woken"]
    /\ IF s \in flagged THEN Notify ELSE UNCHANGED <<orgAlarm, upsets>>
    /\ UNCHANGED <<page, flagged, age, cool, batch, stamp, lease, update, changes>>

(* isStale, with drainSelfFlag.                                            *)
Forced(s) == age[s] = Stale

(* pollScrapeOrAgentByQuirk: a probe that sees a change, or cannot tell    *)
(* (the first one, or an answer that is no use), flags the source; one     *)
(* that fails, or that there is none of, does so only when it is forced.   *)
(* Validators move with the flag, not with the fetch.                      *)
Poll(s) ==
    /\ turn[s] = "woken" /\ turn' = [turn EXCEPT ![s] = "polled"]
    /\ \E probe \in {"told", "first", "unknown", "failed"} :
          /\ page' = [page EXCEPT ![s] =
                        IF probe \in {"told", "first"} /\ @ = "new" THEN "seen" ELSE @]
          /\ IF \/ probe \in {"first", "unknown"} \/ Forced(s)
                \/ probe = "told" /\ page[s] = "new"
             THEN flagged' = flagged \cup {s} /\ Notify
             ELSE UNCHANGED <<flagged, orgAlarm, upsets>>
    /\ UNCHANGED <<age, cool, batch, stamp, lease, update, changes>>

PollDies(s) ==
    /\ turn[s] = "woken" /\ turn' = [turn EXCEPT ![s] = "polled"]
    /\ Upset
    /\ UNCHANGED <<page, flagged, age, cool, orgAlarm, batch, stamp, lease, update, changes>>

(* A fetch by hand of such a source only flags it, and notifies nobody.    *)
FlagByHand(s) ==
    /\ s \notin flagged /\ Upset
    /\ flagged' = flagged \cup {s}
    /\ UNCHANGED <<polls, age, cool, orgAlarm, batch, stamp, lease, update>>

-------------------------------------------------------------------------------
(* OrgActor.alarm.                                                         *)

\* Fault: there is no cooldown.
AnyFlagged == flagged

(* queryCandidates.                                                        *)
Candidates == {s \in flagged : cool[s] = 0}

Batches ==
    {B \in SUBSET Candidates :
        /\ Cardinality(B) <= Cap
        /\ B = Candidates \/ Cardinality(B) = Cap
        /\ \A s \in B, other \in Candidates \ B : age[s] >= age[other]}

(* The alarm is gone before the query: who flags from now on sets another. *)
DrainAlarm ==
    /\ orgAlarm = "set" /\ batch = {} /\ stamp = {}
    /\ orgAlarm' = "none"
    /\ batch' \in Batches
    /\ UNCHANGED <<polls, flagged, age, cool, stamp, lease, update, upsets>>

Leased(B) == \E s \in B : lease[s] # Nobody

Starts(u, B) ==
    /\ Free(u) /\ ~Leased(B)
    /\ lease' = [s \in Sources |-> IF s \in B THEN u ELSE lease[s]]
    /\ update' = [update EXCEPT ![u].todo = B]

Dispatched(u) ==
    /\ batch # {} /\ Starts(u, batch)
    /\ batch' = {} /\ stamp' = batch
    /\ UNCHANGED <<polls, flagged, age, cool, orgAlarm, upsets>>

(* One leased source refuses the batch, and the refusal is dropped.        *)
Superseded ==
    /\ Leased(batch) /\ batch' = {}
    /\ UNCHANGED <<polls, flagged, age, cool, orgAlarm, stamp, lease, update, upsets>>

(* The spend cap or the kill switch refuses, a call throws, or the object  *)
(* dies, when the platform may or may not run the deleted alarm again.     *)
DispatchFails ==
    /\ batch # {} /\ Upset
    /\ batch' = {}
    /\ orgAlarm' \in {orgAlarm, "set"}
    /\ UNCHANGED <<polls, flagged, age, cool, stamp, lease, update>>

(* last_drain_at, unless the write fails.                                  *)
Stamps ==
    /\ stamp # {} /\ stamp' = {}
    /\ \/ cool' = [s \in Sources |-> IF s \in stamp THEN Cooldown ELSE cool[s]]
          /\ UNCHANGED upsets
       \/ UNCHANGED cool /\ Upset
    /\ UNCHANGED <<polls, flagged, age, orgAlarm, batch, lease, update>>

(* The scheduler loses the alarm, which stays stored.                      *)
DrainAlarmDies ==
    /\ orgAlarm = "set" /\ Upset
    /\ orgAlarm' = "dead"
    /\ UNCHANGED <<polls, flagged, age, cool, batch, stamp, lease, update>>

-------------------------------------------------------------------------------
(* The update runs.                                                        *)

UpdateByHand(u, s) ==
    /\ Starts(u, {s}) /\ Upset
    /\ UNCHANGED <<polls, flagged, age, cool, orgAlarm, batch, stamp>>

FetchStarts(u, s) ==
    /\ update[u].doing = Nobody /\ s \in update[u].todo
    /\ update' = [update EXCEPT ![u] =
                    [todo |-> @.todo \ {s}, doing |-> s, current |-> TRUE]]
    /\ UNCHANGED <<polls, flagged, age, cool, orgAlarm, batch, stamp, lease, upsets>>

Turns(u) == update' = [update EXCEPT ![u] = [@ EXCEPT !.doing = Nobody, !.current = FALSE]]

(* finalize: the rows are inserted, and completeSourceFetch clears the     *)
(* flag, whatever was flagged since the page was read.                     *)
Fetches(u, s) ==
    /\ update[u].doing = s /\ s \notin Broken
    /\ page' = [page EXCEPT ![s] = IF update[u].current THEN "stored" ELSE @]
    /\ flagged' = flagged \ {s}
    /\ age' = [age EXCEPT ![s] = 0]
    /\ Turns(u)
    /\ UNCHANGED <<turn, changes, cool, orgAlarm, batch, stamp, lease, upsets>>

(* A failure leaves the flag; the loop goes on with the next source.       *)
FetchFails(u, s) ==
    /\ update[u].doing = s
    /\ IF s \in Broken THEN UNCHANGED upsets ELSE Upset
    /\ Turns(u)
    /\ UNCHANGED <<polls, flagged, age, cool, orgAlarm, batch, stamp, lease>>

GivenBack(u) == lease' = [s \in Sources |-> IF lease[s] = u THEN Nobody ELSE lease[s]]

UpdateEnds(u) ==
    /\ update[u] = NoUpdate /\ ~Free(u)
    /\ GivenBack(u)
    /\ UNCHANGED <<polls, flagged, age, cool, orgAlarm, batch, stamp, update, upsets>>

(* Its leases run out before the next poll: UpdateEnds then stands for     *)
(* their end.                                                              *)
UpdateDies(u) ==
    /\ update[u] # NoUpdate /\ Upset
    /\ update' = [update EXCEPT ![u] = NoUpdate]
    /\ UNCHANGED <<polls, flagged, age, cool, orgAlarm, batch, stamp, lease>>

-------------------------------------------------------------------------------
(* Within a tick every source is polled and a live alarm runs; an update   *)
(* run may outlast it, and then its leases.                                *)
DrainTick ==
    /\ \A s \in Sources : turn[s] = "polled"
    /\ orgAlarm # "set" /\ batch = {} /\ stamp = {}
    /\ turn' = [s \in Sources |-> "due"]
    /\ lease' = [s \in Sources |-> Nobody]
    /\ cool' = [s \in Sources |-> IF cool[s] = 0 THEN 0 ELSE cool[s] - 1]
    /\ age' = [s \in Sources |-> IF age[s] = Stale THEN Stale ELSE age[s] + 1]
    /\ UNCHANGED <<page, flagged, orgAlarm, batch, stamp, update, changes, upsets>>

ActorWorks == DrainAlarm \/ (\E u \in Updates : Dispatched(u)) \/ Superseded \/ Stamps

UpdateWorks(u) ==
    UpdateEnds(u) \/ \E s \in Sources : FetchStarts(u, s) \/ Fetches(u, s) \/ FetchFails(u, s)

DrainNext ==
    \/ ActorWorks \/ DispatchFails \/ DrainAlarmDies \/ DrainTick
    \/ \E s \in Sources : PageChanges(s) \/ Wake(s) \/ Poll(s) \/ PollDies(s) \/ FlagByHand(s)
    \/ \E u \in Updates :
          UpdateWorks(u) \/ UpdateDies(u) \/ \E s \in Sources : UpdateByHand(u, s)

DrainSpec == DrainInit /\ [][DrainNext]_drainVars

(* Sources are polled, alarms run unless they are lost, runs take their    *)
(* steps, and time goes on.  No probe need ever see a change.              *)
DrainFairness ==
    /\ \A s \in Sources : WF_drainVars(Wake(s)) /\ WF_drainVars(Poll(s))
    /\ WF_drainVars(ActorWorks)
    /\ \A u \in Updates : WF_drainVars(UpdateWorks(u))
    /\ WF_drainVars(DrainTick)

-------------------------------------------------------------------------------
DrainTypeOK ==
    /\ page \in [Sources -> {"new", "seen", "stored"}]
    /\ turn \in [Sources -> {"due", "woken", "polled"}]
    /\ {flagged, batch, stamp} \subseteq SUBSET Sources
    /\ age \in [Sources -> 0..Stale] /\ cool \in [Sources -> 0..Cooldown]
    /\ orgAlarm \in {"none", "set", "dead"}
    /\ lease \in [Sources -> Updates \cup {Nobody}]
    /\ update \in [Updates -> [todo : SUBSET Sources, doing : Sources \cup {Nobody},
                               current : BOOLEAN]]
    /\ changes \in 0..MaxChanges /\ upsets \in 0..MaxUpsets

(* Every page that can be fetched is stored as it stands in the end: no    *)
(* broken source holds its place in the capped batch for ever, and no      *)
(* refusal, failure or flag cleared for a change the fetch had not read is *)
(* the last word.  Only an OrgActor alarm that is lost ends it, since      *)
(* ensureDrainScheduled takes it for pending.                              *)
EveryPageIsStored ==
    [](orgAlarm # "dead") => \A s \in Sources \ Broken : []<>(page[s] = "stored")
===============================================================================
