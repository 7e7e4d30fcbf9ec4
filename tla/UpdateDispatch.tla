----------------------------- MODULE UpdateDispatch -----------------------------
(***************************************************************************)
(* An update of several sources, from the request to the end of its        *)
(* workflow: the dispatcher claims the lease each source's actor keeps,    *)
(* creates the workflow, and registers the session with the StatusHub; the *)
(* workflow fetches, reports how it went to the same hub, and gives the    *)
(* leases back. Every call crosses a network, so runs interleave at every  *)
(* await, a call may fail with or without its effect, and a dispatcher or  *)
(* a workflow may die between two of them.                                 *)
(*                                                                         *)
(* A run is named by its session id. Time is kept as what each lease has   *)
(* left and as the age of each session row; both advance together.         *)
(***************************************************************************)
EXTENDS StatusHub

CONSTANTS
  Runs,
  Sources,
  NoOne,
  LEASE,        \* SCRAPE_LOCK_LEASE_MS
  MaxFaults     \* bound: failed calls, deaths and evictions in one behaviour

ASSUME DispatchOK ==
  LEASE \in Nat \ {0} /\ MaxFaults \in Nat /\ Sessions = Runs /\ NoOne \notin Runs

VARIABLES
  lock,     \* each SourceActor's scrapeLock: its owner, and the time left to expiresAt
  dpc,      \* where each run's dispatcher is
  wants,    \* sourceIdentifiers
  got,      \* tryAcquireSourceLocks: acquired
  denied,   \* tryAcquireSourceLocks: conflicts
  dfree,    \* releases the dispatcher still has to make
  wpc,      \* where each run's workflow is
  memo,     \* how the fetch steps, which are kept across replays, came out
  wfree,    \* releases the workflow still has to make
  over,     \* history: leases of a run that were granted and have ended
  threw,    \* history: sources at which a lock call of the run failed
  faults

locks      == <<lock, over, threw>>
dispatcher == <<dpc, wants, got, denied, dfree>>
workflow   == <<wpc, memo, wfree>>
vars       == <<hubVars, locks, dispatcher, workflow, faults>>

CallsTypeOK ==
  /\ lock \in [Sources -> [owner : Runs \cup {NoOne}, left : 0..LEASE]]
  /\ dpc \in [Runs -> {"idle", "acquiring", "rollback", "creating", "starting",
                       "started", "refused", "dead"}]
  /\ wpc \in [Runs -> {"none", "new", "unconfigured", "fetching", "reporting",
                       "releasing", "ended"}]
  /\ memo \in [Runs -> {"none", "complete", "error"}]
  /\ \A x \in {wants, got, denied, dfree, wfree, over, threw} : x \in [Runs -> SUBSET Sources]
  /\ faults \in 0..MaxFaults

TypeOK == HubTypeOK /\ CallsTypeOK

Empty == [r \in Runs |-> {}]
Free  == [owner |-> NoOne, left |-> 0]

Init ==
  /\ HubInit
  /\ lock = [s \in Sources |-> Free] /\ over = Empty /\ threw = Empty
  /\ dpc = [r \in Runs |-> "idle"]
  /\ wants = Empty /\ got = Empty /\ denied = Empty /\ dfree = Empty
  /\ wpc = [r \in Runs |-> "none"] /\ memo = [r \in Runs |-> "none"] /\ wfree = Empty
  /\ faults = 0

Fault == faults < MaxFaults /\ faults' = faults + 1

At(pc, r, from, to) == pc[r] = from /\ pc' = [pc EXCEPT ![r] = to]

-------------------------------------------------------------------------------
(* SourceActor's lock: each call is one step of the actor.                 *)

\* Fault: the actor reclaims whatever it finds.
ContendedNever(s) == FALSE

Contended(s) == lock[s].left > 0

Claim(r, s) == lock' = [lock EXCEPT ![s] = [owner |-> r, left |-> LEASE]]

Release(r, s) ==
  /\ lock' = IF lock[s].owner = r THEN [lock EXCEPT ![s] = Free] ELSE lock
  /\ over' = [over EXCEPT ![r] = @ \cup {s}]

\* A call that throws may have reached the actor or not.
ReleaseThrows(r, s) ==
  /\ Fault
  /\ threw' = [threw EXCEPT ![r] = @ \cup {s}]
  /\ \/ Release(r, s)
     \/ UNCHANGED <<lock, over>>

-------------------------------------------------------------------------------
(* startDeterministicUpdate.                                               *)

\* A bad shape, the kill switch, the spend cap or a missing binding.
Gate(r) ==
  /\ At(dpc, r, "idle", "refused")
  /\ UNCHANGED <<hubVars, locks, workflow, wants, got, denied, dfree, faults>>

Begin(r) ==
  /\ At(dpc, r, "idle", "acquiring")
  /\ \E ids \in SUBSET Sources \ {{}} : wants' = [wants EXCEPT ![r] = ids]
  /\ UNCHANGED <<hubVars, locks, workflow, got, denied, dfree, faults>>

\* One of the parallel tryAcquireScrapeLock calls is answered.
Acquire(r, s) ==
  /\ dpc[r] = "acquiring" /\ s \in wants[r] \ (got[r] \cup denied[r])
  /\ IF Contended(s)
       THEN denied' = [denied EXCEPT ![r] = @ \cup {s}] /\ UNCHANGED <<lock, got>>
       ELSE got' = [got EXCEPT ![r] = @ \cup {s}] /\ Claim(r, s) /\ UNCHANGED denied
  /\ UNCHANGED <<hubVars, over, threw, workflow, dpc, wants, dfree, faults>>

AcquireThrows(r, s) ==
  /\ dpc[r] = "acquiring" /\ s \in wants[r] \ (got[r] \cup denied[r])
  /\ Fault
  /\ denied' = [denied EXCEPT ![r] = @ \cup {s}]
  /\ threw' = [threw EXCEPT ![r] = @ \cup {s}]
  /\ \/ ~ Contended(s) /\ Claim(r, s)
     \/ UNCHANGED lock
  /\ UNCHANGED <<hubVars, over, workflow, dpc, wants, got, dfree>>

\* Fault: a refused batch gives nothing back.
RollBackNothing(r) == {}

\* Rolled back after a conflict: what was acquired, not what threw.
RollBack(r) == got[r]

Decide(r) ==
  /\ got[r] \cup denied[r] = wants[r]
  /\ \/ /\ denied[r] = {}
        /\ At(dpc, r, "acquiring", "creating") /\ UNCHANGED dfree
     \/ /\ denied[r] # {}
        /\ At(dpc, r, "acquiring", "rollback")
        /\ dfree' = [dfree EXCEPT ![r] = RollBack(r)]
  /\ UNCHANGED <<hubVars, locks, workflow, wants, got, denied, faults>>

GiveBack(r, s) ==
  /\ dpc[r] = "rollback" /\ s \in dfree[r]
  /\ dfree' = [dfree EXCEPT ![r] = @ \ {s}]
  /\ \/ Release(r, s) /\ UNCHANGED <<threw, faults>>
     \/ ReleaseThrows(r, s)
  /\ UNCHANGED <<hubVars, workflow, dpc, wants, got, denied>>

Refuse(r) ==
  /\ dfree[r] = {} /\ At(dpc, r, "rollback", "refused")
  /\ UNCHANGED <<hubVars, locks, workflow, wants, got, denied, dfree, faults>>

Create(r) ==
  /\ At(dpc, r, "creating", "starting")
  /\ wpc' = [wpc EXCEPT ![r] = "new"]
  /\ UNCHANGED <<hubVars, locks, memo, wfree, wants, got, denied, dfree, faults>>

\* create throws, though the instance may have been created.
CreateThrows(r) ==
  /\ At(dpc, r, "creating", "rollback") /\ Fault
  /\ dfree' = [dfree EXCEPT ![r] = wants[r]]
  /\ wpc' \in {wpc, [wpc EXCEPT ![r] = "new"]}
  /\ UNCHANGED <<hubVars, locks, memo, wfree, wants, got, denied>>

\* session:start, sent when the workflow may already be running.
NotifyStart(r) ==
  /\ At(dpc, r, "starting", "started")
  /\ \/ OnStart(r) /\ UNCHANGED faults
     \/ Fault /\ UNCHANGED hubVars
  /\ UNCHANGED <<locks, workflow, wants, got, denied, dfree>>

DispatcherDies(r) ==
  /\ \E pc \in {"acquiring", "rollback", "creating", "starting"} : At(dpc, r, pc, "dead")
  /\ Fault
  /\ UNCHANGED <<hubVars, locks, workflow, wants, got, denied, dfree>>

Dispatch(r) ==
  \/ Gate(r) \/ Begin(r) \/ Decide(r) \/ Refuse(r) \/ Create(r) \/ CreateThrows(r)
  \/ NotifyStart(r) \/ DispatcherDies(r)
  \/ \E s \in Sources : Acquire(r, s) \/ AcquireThrows(r, s) \/ GiveBack(r, s)

-------------------------------------------------------------------------------
(* DeterministicUpdateWorkflow.run. A replay starts it again with the      *)
(* results of its steps, and nothing else, kept.                           *)

Configure(r) ==
  /\ At(wpc, r, "new", "fetching") \/ At(wpc, r, "new", "unconfigured")
  /\ UNCHANGED <<hubVars, locks, dispatcher, memo, wfree, faults>>

\* runScrapeFetchLoop turns a failed step into a failed source, so the loop ends.
Fetched(r) ==
  /\ At(wpc, r, "fetching", "reporting")
  /\ \/ memo[r] # "none" /\ UNCHANGED memo
     \/ memo[r] = "none" /\ \E end \in {"complete", "error"} : memo' = [memo EXCEPT ![r] = end]
  /\ UNCHANGED <<hubVars, locks, dispatcher, wfree, faults>>

\* What run awaits outside its steps may throw out of it, past the report: before
\* the fetches, or setting up the post-insert steps of a source that got rows.
RunThrows(r) ==
  /\ Fault
  /\ \/ At(wpc, r, "new", "releasing") /\ UNCHANGED memo
     \/ /\ memo[r] # "error" /\ At(wpc, r, "fetching", "releasing")
        /\ memo' = [memo EXCEPT ![r] = "complete"]
  /\ wfree' = [wfree EXCEPT ![r] = wants[r]]
  /\ UNCHANGED <<hubVars, locks, dispatcher>>

\* session:complete or session:error, then the finally block.
Report(r) ==
  /\ \E pc \in {"unconfigured", "reporting"} :
       /\ At(wpc, r, pc, "releasing")
       /\ \/ OnReport(r, IF pc = "reporting" THEN memo[r] ELSE "error") /\ UNCHANGED faults
          \/ Fault /\ UNCHANGED hubVars
  /\ wfree' = [wfree EXCEPT ![r] = wants[r]]
  /\ UNCHANGED <<locks, dispatcher, memo>>

Finally(r, s) ==
  /\ wpc[r] = "releasing" /\ s \in wfree[r]
  /\ wfree' = [wfree EXCEPT ![r] = @ \ {s}]
  /\ \/ Release(r, s) /\ UNCHANGED <<threw, faults>>
     \/ ReleaseThrows(r, s)
  /\ UNCHANGED <<hubVars, dispatcher, wpc, memo>>

End(r) ==
  /\ wfree[r] = {} /\ At(wpc, r, "releasing", "ended")
  /\ UNCHANGED <<hubVars, locks, dispatcher, memo, wfree, faults>>

\* The platform evicts the instance, and replays it or gives it up.
Evict(r) ==
  /\ wpc[r] \notin {"none", "ended"} /\ Fault
  /\ wpc' \in {[wpc EXCEPT ![r] = "new"], [wpc EXCEPT ![r] = "ended"]}
  /\ wfree' = [wfree EXCEPT ![r] = {}]
  /\ UNCHANGED <<hubVars, locks, dispatcher, memo>>

Work(r) ==
  \/ Configure(r) \/ Fetched(r) \/ RunThrows(r) \/ Report(r) \/ End(r) \/ Evict(r)
  \/ \E s \in Sources : Finally(r, s)

-------------------------------------------------------------------------------
\* Leases run down and rows grow older together.
Tick ==
  /\ Age
  /\ lock' = [s \in Sources |-> [lock[s] EXCEPT !.left = IF @ = 0 THEN 0 ELSE @ - 1]]
  /\ over' = [r \in Runs |-> over[r] \cup {s \in Sources : lock[s] = [owner |-> r, left |-> 1]}]
  /\ UNCHANGED <<threw, dispatcher, workflow, faults>>

\* The hub's own requests. Its alarm waits for thirty days and is left to StatusHub.
Viewer ==
  /\ List \/ \E r \in Runs : RequestCancel(r)
  /\ UNCHANGED <<locks, dispatcher, workflow, faults>>

Next == (\E r \in Runs : Dispatch(r) \/ Work(r)) \/ Tick \/ Viewer

Spec == Init /\ [][Next]_vars

-------------------------------------------------------------------------------
Fetching(r) == wpc[r] = "fetching" /\ memo[r] = "none"

\* Two runs fetch a source at once only if one of them has outlived its lease on
\* it, or has had it given back after a create that failed too late.
LeasesExclude ==
  \A r1, r2 \in Runs : \A s \in wants[r1] \cap wants[r2] :
    r1 # r2 /\ Fetching(r1) /\ Fetching(r2) => s \in over[r1] \cup over[r2]

\* A refused request holds no lease, except where a lock call of its own failed.
RefusedHoldsNothing ==
  \A r \in Runs, s \in Sources :
    dpc[r] = "refused" /\ s \notin threw[r] => lock[s].owner # r

\* "stops two update runs for the same source at once" (source-actor.ts).
\* The code does not keep this (README, section 5).
OneRunPerSource ==
  \A r1, r2 \in Runs : \A s \in wants[r1] \cap wants[r2] :
    ~ (r1 # r2 /\ Fetching(r1) /\ Fetching(r2))

\* "A finished session stays finished." (status-hub.ts)
\* The code does not keep this (README, section 5).
FinishedStaysFinished ==
  [][\A r \in Runs :
       Exists(r) /\ row[r].status \in Terminal /\ ~ row[r].swept => row'[r].status # "running"]_vars
===============================================================================
