------------------------- MODULE UpdateDispatchProofs --------------------------
(***************************************************************************)
(* The session rows of the StatusHub, for every set of sessions and every  *)
(* limit: what their producers reported first stands.  Then the leases of  *)
(* an update, for every number of runs, sources and faults: a lease that   *)
(* is still live excludes every other run from its source, and a refused   *)
(* request holds nothing but what a failed call may have left behind.  The *)
(* rows' lemmas are used again for the composition.                        *)
(***************************************************************************)
EXTENDS UpdateDispatch, TLAPS

-----------------------------------------------------------------------------
(* The hub's rows.                                                         *)

\* How a row and the first report of its session belong together: a session that
\* nobody ended runs or was swept, and one that was completed or cancelled says so.
EndsAgree ==
  \A s \in Sessions :
    /\ ~ Exists(s) => first[s] = "none"
    /\ Exists(s) =>
         /\ row[s].swept => row[s].status = "error"
         /\ first[s] = "none" => row[s].status = "running" \/ row[s].swept
         /\ first[s] = "error" => row[s].status \in Terminal
         /\ first[s] \in {"complete", "cancelled"} => row[s].status = first[s] /\ ~ row[s].swept

HubInv == HubTypeOK /\ EndsAgree

\* Nothing is in the empty object.
LEMMA InitHub == HubInit => HubInv
  BY NoRowOK DEF HubInit, HubInv, HubTypeOK, EndsAgree, Exists

\* What the rows are made of.
LEMMA RowsAreRows ==
  ASSUME HubTypeOK, NEW s \in Sessions, Exists(s)
  PROVE  /\ row[s] \in Row
         /\ row[s].age \in 0..(RETENTION + 1)
         /\ row[s].status \in {"running"} \cup Terminal
         /\ row[s].swept \in BOOLEAN /\ row[s].cancelRequested \in BOOLEAN
  BY DEF HubTypeOK, Exists, Row

LEMMA NewRowsAreRows == \A status \in {"running"} \cup Terminal : NewRow(status) \in Row
  BY AgesOK DEF NewRow, Row

\* The row of a session that a report or the sweep ends.
LEMMA EndedRows ==
  ASSUME NEW x \in Row, NEW end \in Terminal, NEW guess \in BOOLEAN
  PROVE  /\ Ended(x, end, guess) \in Row /\ Ended(x, end, guess) # NoRow
         /\ Ended(x, end, guess).status = end /\ Ended(x, end, guess).swept = guess
<1>1. end \in {"running"} \cup Terminal /\ 0 \in 0..(RETENTION + 1)
  BY AgesOK
<1>2. Ended(x, end, guess) \in Row
  BY <1>1 DEF Ended, Row
<1>3. Ended(x, end, guess).status = end /\ Ended(x, end, guess).swept = guess
  BY DEF Ended, Row
<1> QED
  BY <1>2, <1>3, NoRowOK

\* Each event of handleEvent.
LEMMA OnStartStep == ASSUME NEW s \in Sessions, HubInv, OnStart(s) PROVE HubInv'
<1>1. NewRow("running") \in Row /\ NewRow("running") # NoRow
  BY NewRowsAreRows, NoRowOK
<1>2. HubTypeOK'
  BY <1>1 DEF HubInv, HubTypeOK, OnStart
<1>3. EndsAgree'
  BY <1>1 DEF HubInv, HubTypeOK, EndsAgree, OnStart, Exists, NewRow
<1> QED
  BY <1>2, <1>3 DEF HubInv

LEMMA OnProgressStep == ASSUME NEW s \in Sessions, HubInv, OnProgress(s) PROVE HubInv'
<1>1. CASE ~ Exists(s)
  BY <1>1 DEF HubInv, HubTypeOK, EndsAgree, OnProgress, Exists
<1>2. CASE Exists(s)
  <2>1. row[s] \in Row /\ [row[s] EXCEPT !.age = 0] \in Row /\ [row[s] EXCEPT !.age = 0] # NoRow
    BY <1>2, RowsAreRows, AgesOK, NoRowOK DEF HubInv, Row
  <2>2. row' = [row EXCEPT ![s] = [row[s] EXCEPT !.age = 0]] /\ first' = first
    BY <1>2 DEF OnProgress
  <2>3. HubTypeOK'
    BY <2>1, <2>2 DEF HubInv, HubTypeOK
  <2>4. EndsAgree'
    BY <1>2, <2>1, <2>2 DEF HubInv, HubTypeOK, EndsAgree, Exists, Row
  <2> QED
    BY <2>3, <2>4 DEF HubInv
<1> QED
  BY <1>1, <1>2

LEMMA OnEndStep ==
  ASSUME NEW s \in Sessions, NEW end \in {"complete", "cancelled"}, HubInv, OnEnd(s, end)
  PROVE  HubInv'
<1>1. CASE ~ Exists(s)
  BY <1>1 DEF HubInv, HubTypeOK, EndsAgree, OnEnd, Exists
<1>2. CASE Exists(s) /\ BlocksLateTerminal(s)
  BY <1>2 DEF HubInv, HubTypeOK, EndsAgree, OnEnd, Exists, BlocksLateTerminal, Terminal
<1>3. CASE Exists(s) /\ ~ BlocksLateTerminal(s)
  <2> DEFINE ended == Ended(row[s], end, FALSE)
  <2>0. row[s] \in Row
    BY <1>3, RowsAreRows DEF HubInv
  <2>1. ended \in Row /\ ended # NoRow /\ ended.status = end /\ ended.swept = FALSE
    <3>1. end \in Terminal
      BY DEF Terminal
    <3> QED
      BY <2>0, <3>1, EndedRows
  <2>2. /\ row' = [row EXCEPT ![s] = ended]
        /\ first' = IF first[s] = "none" THEN [first EXCEPT ![s] = end] ELSE first
    BY <1>3 DEF OnEnd
  <2>3. HubTypeOK'
    BY <2>1, <2>2 DEF HubInv, HubTypeOK, Terminal
  <2>4. first[s] \in {"none", "error"}
    BY <1>3 DEF HubInv, HubTypeOK, EndsAgree, BlocksLateTerminal, Terminal
  <2> HIDE DEF ended
  <2>5. EndsAgree'
    BY <1>3, <2>0, <2>1, <2>2, <2>4 DEF HubInv, HubTypeOK, EndsAgree, Exists, Terminal
  <2> QED
    BY <2>3, <2>5 DEF HubInv
<1> QED
  BY <1>1, <1>2, <1>3

LEMMA OnErrorStep == ASSUME NEW s \in Sessions, HubInv, OnError(s) PROVE HubInv'
<1>0. first' = IF first[s] = "none" THEN [first EXCEPT ![s] = "error"] ELSE first
  BY DEF OnError
<1>1. CASE ~ Exists(s)
  <2>1. row' = [row EXCEPT ![s] = NewRow("error")]
    BY <1>1 DEF OnError
  <2>2. NewRow("error") \in Row /\ NewRow("error") # NoRow
    BY NewRowsAreRows, NoRowOK DEF Terminal
  <2>3. NewRow("error").status = "error" /\ NewRow("error").swept = FALSE
    BY DEF NewRow
  <2>4. first[s] = "none"
    BY <1>1 DEF HubInv, EndsAgree
  <2>5. HubTypeOK'
    BY <1>0, <2>1, <2>2 DEF HubInv, HubTypeOK, Terminal
  <2>6. EndsAgree'
    BY <1>0, <2>1, <2>2, <2>3, <2>4 DEF HubInv, HubTypeOK, EndsAgree, Exists, Terminal
  <2> QED
    BY <2>5, <2>6 DEF HubInv
<1>2. CASE Exists(s) /\ row[s].status \in Terminal
  BY <1>0, <1>2 DEF HubInv, HubTypeOK, EndsAgree, OnError, Exists, Terminal
<1>3. CASE Exists(s) /\ row[s].status \notin Terminal
  <2> DEFINE failed == Ended(row[s], "error", FALSE)
  <2>1. row[s] \in Row /\ failed \in Row /\ failed # NoRow
    BY <1>3, RowsAreRows, EndedRows DEF HubInv, Terminal
  <2>2. row' = [row EXCEPT ![s] = failed]
    BY <1>3 DEF OnError
  <2>3. failed.status = "error" /\ failed.swept = FALSE
    BY <2>1, EndedRows DEF Terminal
  <2>4. first[s] = "none"
    BY <1>3 DEF HubInv, HubTypeOK, EndsAgree, Terminal
  <2> HIDE DEF failed
  <2>5. HubTypeOK'
    BY <1>0, <2>1, <2>2 DEF HubInv, HubTypeOK, Terminal
  <2>6. EndsAgree'
    BY <1>0, <1>3, <2>1, <2>2, <2>3, <2>4 DEF HubInv, HubTypeOK, EndsAgree, Exists, Terminal
  <2> QED
    BY <2>5, <2>6 DEF HubInv
<1> QED
  BY <1>1, <1>2, <1>3

LEMMA OnReportStep ==
  ASSUME NEW s \in Sessions, NEW end \in Terminal, HubInv, OnReport(s, end) PROVE HubInv'
  BY OnEndStep, OnErrorStep DEF OnReport, Terminal

\* The other requests, the alarm and the clock.
LEMMA RequestCancelStep == ASSUME NEW s \in Sessions, HubInv, RequestCancel(s) PROVE HubInv'
<1> DEFINE marked == [row[s] EXCEPT !.cancelRequested = TRUE]
<1>1. Exists(s) /\ row' = [row EXCEPT ![s] = marked] /\ first' = first
  BY DEF RequestCancel
<1>2. row[s] \in Row /\ marked \in Row /\ marked # NoRow
  BY <1>1, RowsAreRows, NoRowOK DEF HubInv, Row
<1>3. marked.status = row[s].status /\ marked.swept = row[s].swept
  BY <1>2 DEF Row
<1> HIDE DEF marked
<1>4. HubTypeOK'
  BY <1>1, <1>2 DEF HubInv, HubTypeOK
<1>5. EndsAgree'
  BY <1>1, <1>2, <1>3 DEF HubInv, HubTypeOK, EndsAgree, Exists
<1> QED
  BY <1>4, <1>5 DEF HubInv

LEMMA ListStep == HubInv /\ List => HubInv'
<1> SUFFICES ASSUME HubInv, List PROVE HubInv'
  OBVIOUS
<1> DEFINE swept(s) == Ended(row[s], "error", TRUE)
<1>1. first' = first /\ row' = [s \in Sessions |-> IF Stale(s) THEN swept(s) ELSE row[s]]
  BY DEF List
<1>2. ASSUME NEW s \in Sessions, Stale(s)
      PROVE  /\ swept(s) \in Row /\ swept(s) # NoRow
             /\ swept(s).status = "error" /\ swept(s).swept = TRUE
             /\ first[s] = "none"
  <2>1. Exists(s) /\ row[s] \in Row /\ row[s].status = "running"
    BY <1>2, RowsAreRows DEF Stale, HubInv
  <2>2. /\ swept(s) \in Row /\ swept(s) # NoRow
        /\ swept(s).status = "error" /\ swept(s).swept = TRUE
    BY <2>1, EndedRows DEF Terminal
  <2>3. first[s] = "none"
    BY <2>1 DEF HubInv, HubTypeOK, EndsAgree, Terminal
  <2> QED
    BY <2>2, <2>3
<1> HIDE DEF swept
<1>3. HubTypeOK'
  BY <1>1, <1>2 DEF HubInv, HubTypeOK
<1>4. EndsAgree'
  BY <1>1, <1>2 DEF HubInv, EndsAgree, Exists, Terminal
<1> QED
  BY <1>3, <1>4 DEF HubInv

LEMMA AlarmStep == HubInv /\ Alarm => HubInv'
  BY DEF HubInv, HubTypeOK, EndsAgree, Alarm, Exists

\* The clock leaves all but the age.
LEMMA OlderRows ==
  ASSUME NEW x \in Row
  PROVE  Older(x) \in Row /\ Older(x).status = x.status /\ Older(x).swept = x.swept
<1>1. CASE x.age > RETENTION
  BY <1>1 DEF Older
<1>2. CASE ~ x.age > RETENTION
  <2>1. x.age + 1 \in 0..(RETENTION + 1)
    BY <1>2, AgesOK DEF Row
  <2> QED
    BY <1>2, <2>1, NoRowOK DEF Older, Row
<1> QED
  BY <1>1, <1>2

LEMMA AgeStep == HubInv /\ Age => HubInv'
<1> SUFFICES ASSUME HubInv, Age PROVE HubInv'
  OBVIOUS
<1>1. ASSUME NEW s \in Sessions
      PROVE  IF Exists(s) THEN /\ row'[s] \in Row /\ row'[s] # NoRow
                               /\ row'[s].status = row[s].status
                               /\ row'[s].swept = row[s].swept
             ELSE row'[s] = NoRow
  <2>1. row'[s] = Older(row[s])
    BY DEF Age
  <2>2. CASE Exists(s)
    BY <2>1, <2>2, OlderRows, RowsAreRows, NoRowOK DEF HubInv
  <2>3. CASE ~ Exists(s)
    BY <2>1, <2>3 DEF Exists, Older
  <2> QED
    BY <2>2, <2>3
<1>2. first' = first /\ row' = [s \in Sessions |-> row'[s]]
  BY DEF Age
<1>3. HubTypeOK'
  BY <1>1, <1>2 DEF HubInv, HubTypeOK
<1>4. EndsAgree'
  BY <1>1, <1>2 DEF HubInv, EndsAgree, Exists
<1> QED
  BY <1>3, <1>4 DEF HubInv

-------------------------------------------------------------------------------
LEMMA HubSteps == HubInv /\ [HubNext]_hubVars => HubInv'
<1> SUFFICES ASSUME HubInv, [HubNext]_hubVars PROVE HubInv'
  OBVIOUS
<1>1. CASE UNCHANGED hubVars
  BY <1>1 DEF hubVars, HubInv, HubTypeOK, EndsAgree, Exists
<1>2. CASE \E s \in Sessions : OnStart(s) \/ OnProgress(s) \/ RequestCancel(s)
  BY <1>2, OnStartStep, OnProgressStep, RequestCancelStep
<1>3. CASE \E s \in Sessions, end \in Terminal : OnReport(s, end)
  BY <1>3, OnReportStep
<1>4. CASE List \/ Alarm \/ Age
  BY <1>4, ListStep, AlarmStep, AgeStep
<1> QED
  BY <1>1, <1>2, <1>3, <1>4 DEF HubNext

\* Every row is one the code can read, and agrees with the first report: the
\* inductive invariant of the hub, for every set of sessions and every limit.
THEOREM HubInvariance == HubSpec => []HubInv
<1> QED
  BY InitHub, HubSteps, PTL DEF HubSpec

\* The hub's state has its type.
THEOREM HubTypes == HubSpec => []HubTypeOK
<1>1. HubInv => HubTypeOK
  BY DEF HubInv
<1> QED
  BY <1>1, HubInvariance, PTL

LEMMA AgreedEndsStand == HubInv => FirstReportStands
  BY DEF HubInv, HubTypeOK, EndsAgree, FirstReportStands, Terminal

\* The first end reported for a session stands, whatever comes late, twice or
\* after a sweep (handleEvent and getSessions).
THEOREM FirstReportsStand == HubSpec => []FirstReportStands
  BY HubInvariance, AgreedEndsStand, PTL

-------------------------------------------------------------------------------
(* What a step may do to a finished row, and to a running one.             *)

\* The row of s after a step that leaves its end alone.
Final(s) ==
  \/ row'[s] = row[s]
  \/ row'[s] = NoRow /\ row[s].age > RETENTION
  \/ row'[s] # NoRow /\ row'[s].status = row[s].status
  \/ row'[s] = NewRow("running")

LEMMA ProducersKeepEnds ==
  ASSUME HubInv, NEW p \in Sessions,
         OnStart(p) \/ OnProgress(p) \/ RequestCancel(p) \/ (\E end \in Terminal : OnReport(p, end)),
         NEW s \in Sessions, Exists(s), row[s].status \in Terminal, ~ row[s].swept
  PROVE  Final(s)
<1>1. row[s] \in Row /\ row \in [Sessions -> Row \cup {NoRow}]
  BY RowsAreRows DEF HubInv, HubTypeOK
<1>2. CASE p # s
  BY <1>1, <1>2 DEF Final, OnStart, OnProgress, RequestCancel, OnReport, OnEnd, OnError
<1>3. CASE p = s
  <2>1. CASE OnStart(s)
    BY <1>1, <2>1 DEF OnStart, Final
  <2>2. CASE OnProgress(s)
    <3>1. row'[s] = [row[s] EXCEPT !.age = 0]
      BY <1>1, <2>2 DEF OnProgress
    <3>2. [row[s] EXCEPT !.age = 0] \in Row /\ [row[s] EXCEPT !.age = 0].status = row[s].status
      BY <1>1, AgesOK DEF Row
    <3> QED
      BY <3>1, <3>2, NoRowOK DEF Final
  <2>3. ~ RequestCancel(s)
    BY DEF RequestCancel, Terminal
  <2>4. CASE \E end \in Terminal : OnReport(s, end)
    BY <1>1, <2>4 DEF OnReport, OnEnd, OnError, BlocksLateTerminal, Final
  <2> QED
    BY <1>3, <2>1, <2>2, <2>3, <2>4
<1> QED
  BY <1>2, <1>3

LEMMA StepsKeepEnds ==
  ASSUME HubInv, [HubNext]_hubVars,
         NEW s \in Sessions, Exists(s), row[s].status \in Terminal, ~ row[s].swept
  PROVE  Final(s)
<1>1. row[s] \in Row
  BY RowsAreRows DEF HubInv
<1>2. CASE UNCHANGED hubVars
  BY <1>2 DEF hubVars, Final
<1>3. CASE List
  BY <1>3 DEF List, Stale, Terminal, Final
<1>4. CASE Alarm
  BY <1>4 DEF Alarm, Expired, Final
<1>5. CASE Age
  BY <1>1, <1>5, OlderRows, NoRowOK DEF Age, Final
<1>6. CASE \E p \in Sessions :
            \/ OnStart(p) \/ OnProgress(p) \/ RequestCancel(p)
            \/ \E end \in Terminal : OnReport(p, end)
  BY <1>6, ProducersKeepEnds
<1> QED
  BY <1>2, <1>3, <1>4, <1>5, <1>6 DEF HubNext

\* A finished session keeps the end it was reported with until it is started anew
\* or its retention is over, for every event, sweep and alarm (status-hub.ts).
THEOREM FinishedStaysFinal == HubSpec => FinishedIsFinal
<1>1. ASSUME HubInv, [HubNext]_hubVars
      PROVE  [\A s \in Sessions :
                /\ Exists(s) /\ row[s].status \in Terminal /\ ~ row[s].swept
                /\ row'[s] # row[s]
                =>
                  \/ row'[s] = NoRow /\ row[s].age > RETENTION
                  \/ row'[s] # NoRow /\ row'[s].status = row[s].status
                  \/ row'[s] = NewRow("running")]_hubVars
  BY <1>1, StepsKeepEnds DEF Final
<1> QED
  BY <1>1, HubInvariance, PTL DEF HubSpec, FinishedIsFinal

\* No sweep and no alarm forgets a session that still runs.
THEOREM RunningIsKept == HubSpec => RunningIsNotForgotten
<1>1. ASSUME HubInv, HubInv', [HubNext]_hubVars,
             NEW s \in Sessions, Exists(s), row[s].status = "running"
      PROVE  row'[s] # NoRow
  <2>1. row[s] \in Row /\ row \in [Sessions -> Row \cup {NoRow}]
    BY <1>1, RowsAreRows DEF HubInv, HubTypeOK
  <2>2. CASE UNCHANGED hubVars
    BY <1>1, <2>2 DEF hubVars, Exists
  <2>3. CASE List
    BY <1>1, <2>1, <2>3, EndedRows DEF List, Exists, Terminal
  <2>4. CASE Alarm
    BY <1>1, <2>4 DEF Alarm, Expired, Exists
  <2>5. CASE Age
    BY <1>1, <2>1, <2>5, OlderRows, NoRowOK DEF Age
  <2>6. ASSUME NEW p \in Sessions, OnStart(p) \/ OnProgress(p) \/ RequestCancel(p)
        PROVE  row'[s] # NoRow
    <3>1. p # s => row'[s] = row[s]
      BY <2>1, <2>6 DEF OnStart, OnProgress, RequestCancel
    <3>2. p = s => row'[s] \in {NewRow("running"), [row[s] EXCEPT !.age = 0],
                                [row[s] EXCEPT !.cancelRequested = TRUE]}
      BY <1>1, <2>1, <2>6 DEF OnStart, OnProgress, RequestCancel
    <3>3. NewRow("running") \in Row
      BY NewRowsAreRows
    <3>4. [row[s] EXCEPT !.age = 0] \in Row
      BY <2>1, AgesOK DEF Row
    <3>5. [row[s] EXCEPT !.cancelRequested = TRUE] \in Row
      BY <2>1 DEF Row
    <3> QED
      BY <1>1, <3>1, <3>2, <3>3, <3>4, <3>5, NoRowOK DEF Exists
  <2>7. ASSUME NEW p \in Sessions, NEW end \in Terminal, OnReport(p, end)
        PROVE  row'[s] # NoRow
    <3>1. p # s => row'[s] = row[s]
      BY <2>1, <2>7 DEF OnReport, OnEnd, OnError
    <3>2. p = s => row'[s] \in {row[s], Ended(row[s], end, FALSE)}
      BY <1>1, <2>1, <2>7 DEF OnReport, OnEnd, OnError
    <3>3. Ended(row[s], end, FALSE) # NoRow
      BY <2>1, EndedRows
    <3> QED
      BY <1>1, <3>1, <3>2, <3>3 DEF Exists
  <2> QED
    BY <1>1, <2>2, <2>3, <2>4, <2>5, <2>6, <2>7 DEF HubNext
<1>2. ASSUME HubInv, HubInv', [HubNext]_hubVars
      PROVE  [\A s \in Sessions :
                Exists(s) /\ row[s].status = "running" => row'[s] # NoRow]_hubVars
  BY <1>1, <1>2
<1> QED
  BY <1>2, HubInvariance, PTL DEF HubSpec, RunningIsNotForgotten

-----------------------------------------------------------------------------
(* The leases.                                                             *)

\* A granted lease that has not ended is the actor's.
HeldInv ==
  \A r \in Runs : \A s \in got[r] \ over[r] : lock[s].owner = r /\ lock[s].left > 0

\* A workflow exists only once its whole batch was granted, and reports what it kept.
StageInv ==
  \A r \in Runs :
    /\ dpc[r] \in {"idle", "acquiring", "creating"} => wpc[r] = "none"
    /\ dpc[r] = "idle" => got[r] = {}
    /\ wpc[r] # "none" \/ dpc[r] \in {"creating", "starting", "started"} => got[r] = wants[r]
    /\ wpc[r] = "reporting" => memo[r] # "none"

\* What the actor keeps for a run the run knows of, and a rollback still gives back.
OwnerInv ==
  \A r \in Runs, s \in Sources :
    lock[s].owner = r /\ s \notin threw[r] =>
      /\ s \in got[r]
      /\ dpc[r] \notin {"idle", "refused"}
      /\ dpc[r] = "rollback" => s \in dfree[r]

LeaseInv  == CallsTypeOK /\ HeldInv /\ StageInv /\ OwnerInv
UpdateInv == HubInv /\ LeaseInv

\* The types, one by one.
LEMMA CallTypes ==
  CallsTypeOK <=>
    /\ lock \in [Sources -> [owner : Runs \cup {NoOne}, left : 0..LEASE]]
    /\ dpc \in [Runs -> {"idle", "acquiring", "rollback", "creating", "starting",
                         "started", "refused", "dead"}]
    /\ wpc \in [Runs -> {"none", "new", "unconfigured", "fetching", "reporting",
                         "releasing", "ended"}]
    /\ memo \in [Runs -> {"none", "complete", "error"}]
    /\ wants \in [Runs -> SUBSET Sources] /\ got \in [Runs -> SUBSET Sources]
    /\ denied \in [Runs -> SUBSET Sources] /\ dfree \in [Runs -> SUBSET Sources]
    /\ wfree \in [Runs -> SUBSET Sources] /\ over \in [Runs -> SUBSET Sources]
    /\ threw \in [Runs -> SUBSET Sources]
    /\ faults \in 0..MaxFaults
  BY DEF CallsTypeOK

LEMMA FaultCounts == CallsTypeOK /\ Fault => faults' \in 0..MaxFaults
  BY CallTypes, DispatchOK DEF Fault

\* Nothing is held at first.
LEMMA InitLeases == Init => LeaseInv
<1> SUFFICES ASSUME Init PROVE LeaseInv
  OBVIOUS
<1>1. CallsTypeOK
  BY DispatchOK DEF Init, CallsTypeOK, Empty, Free
<1>2. HeldInv /\ StageInv
  BY DEF Init, HeldInv, StageInv, Empty
<1>3. OwnerInv
  BY DispatchOK DEF Init, OwnerInv, Free
<1> QED
  BY <1>1, <1>2, <1>3 DEF LeaseInv

-------------------------------------------------------------------------------
(* The dispatcher.                                                         *)

LEMMA GateStep == ASSUME NEW r \in Runs, LeaseInv, Gate(r) PROVE LeaseInv'
<1>1. CallsTypeOK'
  BY CallTypes DEF LeaseInv, CallsTypeOK, Gate, At, locks, workflow
<1>2. HeldInv'
  BY DEF LeaseInv, HeldInv, Gate, locks
<1>3. StageInv'
  BY CallTypes DEF LeaseInv, StageInv, Gate, At, workflow
<1>4. OwnerInv'
  BY CallTypes DEF LeaseInv, OwnerInv, StageInv, Gate, At, locks
<1> QED
  BY <1>1, <1>2, <1>3, <1>4 DEF LeaseInv

LEMMA BeginStep == ASSUME NEW r \in Runs, LeaseInv, Begin(r) PROVE LeaseInv'
<1>1. CallsTypeOK'
  BY CallTypes DEF LeaseInv, CallsTypeOK, Begin, At, locks, workflow
<1>2. HeldInv'
  BY DEF LeaseInv, HeldInv, Begin, locks
<1>3. StageInv'
  BY CallTypes DEF LeaseInv, StageInv, Begin, At, workflow
<1>4. OwnerInv'
  BY CallTypes DEF LeaseInv, OwnerInv, Begin, At, locks
<1> QED
  BY <1>1, <1>2, <1>3, <1>4 DEF LeaseInv

\* A claim meets no live lease, and leaves one that the source's actor keeps.
LEMMA ClaimKept ==
  ASSUME LeaseInv, NEW r \in Runs, NEW s \in Sources, ~ Contended(s), Claim(r, s)
  PROVE  /\ lock' \in [Sources -> [owner : Runs \cup {NoOne}, left : 0..LEASE]]
         /\ lock'[s].owner = r /\ lock'[s].left > 0
         /\ \A t \in Sources : t # s => lock'[t] = lock[t]
         /\ \A q \in Runs : s \notin got[q] \ over[q]
<1> DEFINE mine == [owner |-> r, left |-> LEASE]
<1>1. lock' = [lock EXCEPT ![s] = mine] /\ lock \in [Sources -> [owner : Runs \cup {NoOne}, left : 0..LEASE]]
  BY CallTypes DEF LeaseInv, Claim
<1>2. mine \in [owner : Runs \cup {NoOne}, left : 0..LEASE] /\ mine.owner = r /\ mine.left > 0
  BY DispatchOK
<1>3. \A q \in Runs : s \notin got[q] \ over[q]
  BY DEF LeaseInv, HeldInv, Contended
<1> HIDE DEF mine
<1> QED
  BY <1>1, <1>2, <1>3

LEMMA AcquireStep ==
  ASSUME NEW r \in Runs, NEW s \in Sources, LeaseInv, Acquire(r, s) PROVE LeaseInv'
<1>1. dpc[r] = "acquiring" /\ wpc[r] = "none"
  BY DEF LeaseInv, StageInv, Acquire
<1>2. CASE Contended(s)
  <2>1. CallsTypeOK'
    BY <1>2, CallTypes DEF LeaseInv, CallsTypeOK, Acquire, workflow
  <2>2. HeldInv' /\ StageInv' /\ OwnerInv'
    BY <1>2 DEF LeaseInv, HeldInv, StageInv, OwnerInv, Acquire, workflow
  <2> QED
    BY <2>1, <2>2 DEF LeaseInv
<1>3. CASE ~ Contended(s)
  <2>1. /\ lock' \in [Sources -> [owner : Runs \cup {NoOne}, left : 0..LEASE]]
        /\ lock'[s].owner = r /\ lock'[s].left > 0
        /\ \A t \in Sources : t # s => lock'[t] = lock[t]
        /\ \A q \in Runs : s \notin got[q] \ over[q]
    BY <1>3, ClaimKept DEF Acquire
  <2>2. /\ got' = [got EXCEPT ![r] = @ \cup {s}]
        /\ UNCHANGED <<over, threw, dpc, wpc, wants, denied, dfree, wfree, memo, faults>>
    BY <1>3 DEF Acquire, workflow
  <2>3. CallsTypeOK'
    BY <2>1, <2>2, CallTypes DEF LeaseInv, CallsTypeOK
  <2>4. HeldInv'
    BY <2>1, <2>2, CallTypes DEF LeaseInv, HeldInv
  <2>5. StageInv'
    BY <1>1, <2>2, CallTypes DEF LeaseInv, StageInv
  <2>6. OwnerInv'
    BY <1>1, <2>1, <2>2, CallTypes DEF LeaseInv, OwnerInv
  <2> QED
    BY <2>3, <2>4, <2>5, <2>6 DEF LeaseInv
<1> QED
  BY <1>2, <1>3

LEMMA AcquireThrowsStep ==
  ASSUME NEW r \in Runs, NEW s \in Sources, LeaseInv, AcquireThrows(r, s) PROVE LeaseInv'
<1>1. /\ denied' = [denied EXCEPT ![r] = @ \cup {s}]
      /\ threw' = [threw EXCEPT ![r] = @ \cup {s}]
      /\ UNCHANGED <<over, dpc, wpc, memo, wfree, wants, got, dfree>>
      /\ faults' \in 0..MaxFaults
  BY FaultCounts DEF AcquireThrows, workflow, LeaseInv
<1>2. CASE UNCHANGED lock
  <2>1. CallsTypeOK'
    BY <1>1, <1>2, CallTypes DEF LeaseInv, CallsTypeOK
  <2>2. HeldInv' /\ StageInv'
    BY <1>1, <1>2 DEF LeaseInv, HeldInv, StageInv
  <2>3. OwnerInv'
    BY <1>1, <1>2, CallTypes DEF LeaseInv, OwnerInv
  <2> QED
    BY <2>1, <2>2, <2>3 DEF LeaseInv
<1>3. CASE ~ Contended(s) /\ Claim(r, s)
  <2>1. /\ lock' \in [Sources -> [owner : Runs \cup {NoOne}, left : 0..LEASE]]
        /\ lock'[s].owner = r
        /\ \A t \in Sources : t # s => lock'[t] = lock[t]
        /\ \A q \in Runs : s \notin got[q] \ over[q]
    BY <1>3, ClaimKept
  <2>2. CallsTypeOK'
    BY <1>1, <2>1, CallTypes DEF LeaseInv, CallsTypeOK
  <2>3. HeldInv'
    BY <1>1, <2>1, CallTypes DEF LeaseInv, HeldInv
  <2>4. StageInv'
    BY <1>1 DEF LeaseInv, StageInv
  <2>5. OwnerInv'
    BY <1>1, <2>1, CallTypes DEF LeaseInv, OwnerInv
  <2> QED
    BY <2>2, <2>3, <2>4, <2>5 DEF LeaseInv
<1> QED
  BY <1>2, <1>3 DEF AcquireThrows

LEMMA DecideStep == ASSUME NEW r \in Runs, LeaseInv, Decide(r) PROVE LeaseInv'
<1>1. /\ dpc[r] = "acquiring" /\ got[r] \cup denied[r] = wants[r] /\ wpc[r] = "none"
      /\ UNCHANGED <<locks, workflow, wants, got, denied, faults>>
  BY DEF Decide, At, LeaseInv, StageInv
<1>2. CASE denied[r] = {} /\ dpc' = [dpc EXCEPT ![r] = "creating"] /\ UNCHANGED dfree
  <2>1. CallsTypeOK'
    BY <1>1, <1>2, CallTypes DEF LeaseInv, CallsTypeOK, locks, workflow
  <2>2. HeldInv'
    BY <1>1 DEF LeaseInv, HeldInv, locks
  <2>3. StageInv'
    BY <1>1, <1>2, CallTypes DEF LeaseInv, StageInv, workflow
  <2>4. OwnerInv'
    BY <1>1, <1>2, CallTypes DEF LeaseInv, OwnerInv, locks
  <2> QED
    BY <2>1, <2>2, <2>3, <2>4 DEF LeaseInv
<1>3. CASE dpc' = [dpc EXCEPT ![r] = "rollback"] /\ dfree' = [dfree EXCEPT ![r] = got[r]]
  <2>1. CallsTypeOK'
    BY <1>1, <1>3, CallTypes DEF LeaseInv, CallsTypeOK, locks, workflow
  <2>2. HeldInv'
    BY <1>1 DEF LeaseInv, HeldInv, locks
  <2>3. StageInv'
    BY <1>1, <1>3, CallTypes DEF LeaseInv, StageInv, workflow
  <2>4. OwnerInv'
    BY <1>1, <1>3, CallTypes DEF LeaseInv, OwnerInv, locks
  <2> QED
    BY <2>1, <2>2, <2>3, <2>4 DEF LeaseInv
<1> QED
  BY <1>2, <1>3 DEF Decide, At, RollBack

\* What giving a lease back leaves: nobody holds the source but its real owner.
LEMMA ReleaseLeaves ==
  ASSUME LeaseInv, NEW r \in Runs, NEW s \in Sources, Release(r, s) \/ UNCHANGED <<lock, over>>
  PROVE  /\ lock' \in [Sources -> [owner : Runs \cup {NoOne}, left : 0..LEASE]]
         /\ over' \in [Runs -> SUBSET Sources]
         /\ \A q \in Runs : \A t \in got[q] \ over'[q] :
              lock'[t].owner = q /\ lock'[t].left > 0
         /\ \A q \in Runs, t \in Sources :
              lock'[t].owner = q => lock[t].owner = q
         /\ Release(r, s) => lock'[s].owner # r
<1>1. CASE UNCHANGED <<lock, over>>
  BY <1>1, CallTypes, DispatchOK DEF LeaseInv, HeldInv, Release, Free
<1>2. CASE Release(r, s) /\ lock[s].owner = r
  <2>1. /\ lock' = [lock EXCEPT ![s] = Free] /\ over' = [over EXCEPT ![r] = @ \cup {s}]
        /\ lock \in [Sources -> [owner : Runs \cup {NoOne}, left : 0..LEASE]]
        /\ over \in [Runs -> SUBSET Sources] /\ got \in [Runs -> SUBSET Sources]
    BY <1>2, CallTypes DEF LeaseInv, Release
  <2>2. Free \in [owner : Runs \cup {NoOne}, left : 0..LEASE] /\ Free.owner = NoOne
    BY DispatchOK DEF Free
  <2>3. \A q \in Runs : \A t \in got[q] \ over'[q] : t # s /\ t \in got[q] \ over[q]
    BY <1>2, <2>1 DEF LeaseInv, HeldInv
  <2> QED
    BY <2>1, <2>2, <2>3, DispatchOK DEF LeaseInv, HeldInv
<1>3. CASE Release(r, s) /\ lock[s].owner # r
  BY <1>3, CallTypes DEF LeaseInv, HeldInv, Release
<1> QED
  BY <1>1, <1>2, <1>3

LEMMA GiveBackStep ==
  ASSUME NEW r \in Runs, NEW s \in Sources, LeaseInv, GiveBack(r, s) PROVE LeaseInv'
<1>1. /\ dfree' = [dfree EXCEPT ![r] = @ \ {s}] /\ dpc[r] = "rollback"
      /\ UNCHANGED <<workflow, dpc, wants, got, denied>>
  BY DEF GiveBack
<1>2. Release(r, s) \/ UNCHANGED <<lock, over>>
  BY DEF GiveBack, ReleaseThrows
<1>3. /\ faults' \in 0..MaxFaults
      /\ \/ threw' = threw /\ Release(r, s)
         \/ threw' = [threw EXCEPT ![r] = @ \cup {s}]
  BY FaultCounts, CallTypes DEF GiveBack, ReleaseThrows, LeaseInv
<1>4. CallsTypeOK'
  BY <1>1, <1>2, <1>3, ReleaseLeaves, CallTypes DEF LeaseInv, CallsTypeOK, workflow
<1>5. HeldInv'
  BY <1>1, <1>2, ReleaseLeaves DEF HeldInv
<1>6. StageInv'
  BY <1>1 DEF LeaseInv, StageInv, workflow
<1>7. OwnerInv'
  <2>1. \A q \in Runs, t \in Sources : lock'[t].owner = q => lock[t].owner = q
    BY <1>2, ReleaseLeaves
  <2>2. CASE threw' = threw /\ Release(r, s)
    <3>1. lock'[s].owner # r
      BY <2>2, ReleaseLeaves
    <3> QED
      BY <1>1, <2>1, <2>2, <3>1, CallTypes DEF LeaseInv, OwnerInv
  <2>3. CASE threw' = [threw EXCEPT ![r] = @ \cup {s}]
    BY <1>1, <2>1, <2>3, CallTypes DEF LeaseInv, OwnerInv
  <2> QED
    BY <1>3, <2>2, <2>3
<1> QED
  BY <1>4, <1>5, <1>6, <1>7 DEF LeaseInv

LEMMA RefuseStep == ASSUME NEW r \in Runs, LeaseInv, Refuse(r) PROVE LeaseInv'
<1>1. CallsTypeOK'
  BY CallTypes DEF LeaseInv, CallsTypeOK, Refuse, At, locks, workflow
<1>2. HeldInv'
  BY DEF LeaseInv, HeldInv, Refuse, locks
<1>3. StageInv'
  BY CallTypes DEF LeaseInv, StageInv, Refuse, At, workflow
<1>4. OwnerInv'
  BY CallTypes DEF LeaseInv, OwnerInv, Refuse, At, locks
<1> QED
  BY <1>1, <1>2, <1>3, <1>4 DEF LeaseInv

LEMMA CreateStep == ASSUME NEW r \in Runs, LeaseInv, Create(r) PROVE LeaseInv'
<1>1. CallsTypeOK'
  BY CallTypes DEF LeaseInv, CallsTypeOK, Create, At, locks
<1>2. HeldInv'
  BY DEF LeaseInv, HeldInv, Create, locks
<1>3. StageInv'
  BY CallTypes DEF LeaseInv, StageInv, Create, At
<1>4. OwnerInv'
  BY CallTypes DEF LeaseInv, OwnerInv, Create, At, locks
<1> QED
  BY <1>1, <1>2, <1>3, <1>4 DEF LeaseInv

LEMMA CreateThrowsStep == ASSUME NEW r \in Runs, LeaseInv, CreateThrows(r) PROVE LeaseInv'
<1>1. faults' \in 0..MaxFaults
  BY FaultCounts DEF LeaseInv, CreateThrows
<1>2. got[r] = wants[r]
  BY DEF LeaseInv, StageInv, CreateThrows, At
<1>3. CallsTypeOK'
  BY <1>1, CallTypes DEF LeaseInv, CallsTypeOK, CreateThrows, At, locks
<1>4. HeldInv'
  BY DEF LeaseInv, HeldInv, CreateThrows, locks
<1>5. StageInv'
  BY <1>2, CallTypes DEF LeaseInv, StageInv, CreateThrows, At
<1>6. OwnerInv'
  BY <1>2, CallTypes DEF LeaseInv, OwnerInv, CreateThrows, At, locks
<1> QED
  BY <1>3, <1>4, <1>5, <1>6 DEF LeaseInv

LEMMA NotifyStartStep == ASSUME NEW r \in Runs, LeaseInv, NotifyStart(r) PROVE LeaseInv'
<1>1. faults' \in 0..MaxFaults
  BY FaultCounts, CallTypes DEF LeaseInv, NotifyStart
<1>2. CallsTypeOK'
  BY <1>1, CallTypes DEF LeaseInv, CallsTypeOK, NotifyStart, At, locks, workflow
<1>3. HeldInv'
  BY DEF LeaseInv, HeldInv, NotifyStart, locks
<1>4. StageInv'
  BY CallTypes DEF LeaseInv, StageInv, NotifyStart, At, workflow
<1>5. OwnerInv'
  BY CallTypes DEF LeaseInv, OwnerInv, NotifyStart, At, locks
<1> QED
  BY <1>2, <1>3, <1>4, <1>5 DEF LeaseInv

LEMMA DispatcherDiesStep == ASSUME NEW r \in Runs, LeaseInv, DispatcherDies(r) PROVE LeaseInv'
<1>1. /\ faults' \in 0..MaxFaults
      /\ dpc' = [dpc EXCEPT ![r] = "dead"] /\ dpc[r] # "idle"
      /\ UNCHANGED <<locks, workflow, wants, got, denied, dfree>>
  BY FaultCounts DEF LeaseInv, DispatcherDies, At
<1>2. CallsTypeOK'
  BY <1>1, CallTypes DEF LeaseInv, CallsTypeOK, locks, workflow
<1>3. HeldInv'
  BY <1>1 DEF LeaseInv, HeldInv, locks
<1>4. StageInv'
  BY <1>1, CallTypes DEF LeaseInv, StageInv, workflow
<1>5. OwnerInv'
  BY <1>1, CallTypes DEF LeaseInv, OwnerInv, locks
<1> QED
  BY <1>2, <1>3, <1>4, <1>5 DEF LeaseInv

-------------------------------------------------------------------------------
(* The workflow, the clock and the hub's viewers.                          *)

\* A step of the workflow that calls no actor leaves the leases as they are.
LEMMA WorkKeepsLeases ==
  ASSUME LeaseInv, NEW r \in Runs, wpc[r] # "none",
         UNCHANGED <<locks, dispatcher>>, CallsTypeOK',
         \A q \in Runs : q # r => wpc'[q] = wpc[q] /\ memo'[q] = memo[q],
         wpc'[r] = "reporting" => memo'[r] # "none"
  PROVE  LeaseInv'
<1>1. HeldInv'
  BY DEF LeaseInv, HeldInv, locks, dispatcher
<1>2. StageInv'
  BY DEF LeaseInv, StageInv, dispatcher
<1>3. OwnerInv'
  BY DEF LeaseInv, OwnerInv, locks, dispatcher
<1> QED
  BY <1>1, <1>2, <1>3 DEF LeaseInv

LEMMA WorkStep ==
  ASSUME NEW r \in Runs, LeaseInv,
         Configure(r) \/ Fetched(r) \/ RunThrows(r) \/ Report(r) \/ End(r) \/ Evict(r)
  PROVE  LeaseInv'
<1>1. CASE Configure(r)
  <2>1. CallsTypeOK'
    BY <1>1, CallTypes DEF LeaseInv, CallsTypeOK, Configure, At, locks, dispatcher
  <2> QED
    BY <1>1, <2>1, CallTypes, WorkKeepsLeases DEF LeaseInv, Configure, At
<1>2. CASE Fetched(r)
  <2>1. CallsTypeOK'
    BY <1>2, CallTypes DEF LeaseInv, CallsTypeOK, Fetched, At, locks, dispatcher
  <2> QED
    BY <1>2, <2>1, CallTypes, WorkKeepsLeases DEF LeaseInv, Fetched, At
<1>3. CASE RunThrows(r)
  <2>1. CallsTypeOK'
    BY <1>3, CallTypes, FaultCounts DEF LeaseInv, CallsTypeOK, RunThrows, At, locks, dispatcher
  <2> QED
    BY <1>3, <2>1, CallTypes, WorkKeepsLeases DEF LeaseInv, RunThrows, At
<1>4. CASE Report(r)
  <2>1. faults' \in 0..MaxFaults
    BY <1>4, FaultCounts, CallTypes DEF LeaseInv, Report
  <2>2. CallsTypeOK'
    BY <1>4, <2>1, CallTypes DEF LeaseInv, CallsTypeOK, Report, At, locks, dispatcher
  <2> QED
    BY <1>4, <2>2, CallTypes, WorkKeepsLeases DEF LeaseInv, Report, At
<1>5. CASE End(r)
  <2>1. CallsTypeOK'
    BY <1>5, CallTypes DEF LeaseInv, CallsTypeOK, End, At, locks, dispatcher
  <2> QED
    BY <1>5, <2>1, CallTypes, WorkKeepsLeases DEF LeaseInv, End, At
<1>6. CASE Evict(r)
  <2>1. CallsTypeOK'
    BY <1>6, CallTypes, FaultCounts DEF LeaseInv, CallsTypeOK, Evict, locks, dispatcher
  <2> QED
    BY <1>6, <2>1, CallTypes, WorkKeepsLeases DEF LeaseInv, Evict
<1> QED
  BY <1>1, <1>2, <1>3, <1>4, <1>5, <1>6

LEMMA FinallyStep ==
  ASSUME NEW r \in Runs, NEW s \in Sources, LeaseInv, Finally(r, s) PROVE LeaseInv'
<1>1. /\ wfree' = [wfree EXCEPT ![r] = @ \ {s}]
      /\ UNCHANGED <<dispatcher, wpc, memo>>
  BY DEF Finally
<1>2. Release(r, s) \/ UNCHANGED <<lock, over>>
  BY DEF Finally, ReleaseThrows
<1>3. /\ faults' \in 0..MaxFaults
      /\ threw' = threw \/ threw' = [threw EXCEPT ![r] = @ \cup {s}]
  BY FaultCounts, CallTypes DEF Finally, ReleaseThrows, LeaseInv
<1>4. CallsTypeOK'
  BY <1>1, <1>2, <1>3, ReleaseLeaves, CallTypes DEF LeaseInv, CallsTypeOK, dispatcher
<1>5. HeldInv'
  BY <1>1, <1>2, ReleaseLeaves DEF HeldInv, dispatcher
<1>6. StageInv'
  BY <1>1 DEF LeaseInv, StageInv, dispatcher
<1>7. OwnerInv'
  <2>1. \A q \in Runs, t \in Sources : lock'[t].owner = q => lock[t].owner = q
    BY <1>2, ReleaseLeaves
  <2>2. \A q \in Runs, t \in Sources : t \in threw[q] => t \in threw'[q]
    BY <1>3, CallTypes DEF LeaseInv
  <2> QED
    BY <1>1, <2>1, <2>2 DEF LeaseInv, OwnerInv, dispatcher
<1> QED
  BY <1>4, <1>5, <1>6, <1>7 DEF LeaseInv

\* The clock ends a lease at the moment it runs out.
LEMMA TickStep == LeaseInv /\ Tick => LeaseInv'
<1> SUFFICES ASSUME LeaseInv, Tick PROVE LeaseInv'
  OBVIOUS
<1>1. /\ lock \in [Sources -> [owner : Runs \cup {NoOne}, left : 0..LEASE]]
      /\ lock' = [s \in Sources |-> [lock[s] EXCEPT !.left = IF @ = 0 THEN 0 ELSE @ - 1]]
      /\ over' = [r \in Runs |-> over[r] \cup {s \in Sources : lock[s] = [owner |-> r, left |-> 1]}]
      /\ UNCHANGED <<threw, dispatcher, workflow, faults>>
  BY CallTypes DEF LeaseInv, Tick
<1>2. ASSUME NEW s \in Sources
      PROVE  /\ lock'[s] \in [owner : Runs \cup {NoOne}, left : 0..LEASE]
             /\ lock'[s].owner = lock[s].owner
             /\ lock[s].left > 1 => lock'[s].left > 0
  <2>1. lock'[s] = [lock[s] EXCEPT !.left = IF @ = 0 THEN 0 ELSE @ - 1]
    BY <1>1
  <2>2. lock[s].left \in 0..LEASE /\ lock[s] \in [owner : Runs \cup {NoOne}, left : 0..LEASE]
    BY <1>1
  <2>3. (IF lock[s].left = 0 THEN 0 ELSE lock[s].left - 1) \in 0..LEASE
    BY <2>2, DispatchOK
  <2> QED
    BY <2>1, <2>2, <2>3
<1>3. CallsTypeOK'
  <2>1. lock' \in [Sources -> [owner : Runs \cup {NoOne}, left : 0..LEASE]]
    BY <1>1, <1>2
  <2>2. over' \in [Runs -> SUBSET Sources]
    BY <1>1, CallTypes DEF LeaseInv
  <2> QED
    BY <1>1, <2>1, <2>2, CallTypes DEF LeaseInv, CallsTypeOK, dispatcher, workflow
<1>4. HeldInv'
  <2> SUFFICES ASSUME NEW r \in Runs, NEW s \in got[r] \ over'[r]
               PROVE  lock'[s].owner = r /\ lock'[s].left > 0
    BY <1>1 DEF HeldInv, dispatcher
  <2>1. s \in Sources /\ s \in got[r] \ over[r] /\ lock[s] # [owner |-> r, left |-> 1]
    BY <1>1, CallTypes DEF LeaseInv
  <2>2. lock[s].owner = r /\ lock[s].left > 0
    BY <2>1 DEF LeaseInv, HeldInv
  <2>3. lock[s] \in [owner : Runs \cup {NoOne}, left : 0..LEASE]
    BY <1>1, <2>1
  <2>4. lock[s] = [owner |-> lock[s].owner, left |-> lock[s].left] /\ lock[s].left \in 0..LEASE
    BY <2>3
  <2>5. lock[s].left # 1
    BY <2>1, <2>2, <2>4
  <2>6. lock[s].left > 1
    BY <2>2, <2>4, <2>5, DispatchOK
  <2> QED
    BY <1>2, <2>1, <2>2, <2>6
<1>5. StageInv'
  BY <1>1 DEF LeaseInv, StageInv, dispatcher, workflow
<1>6. OwnerInv'
  BY <1>1, <1>2 DEF LeaseInv, OwnerInv, dispatcher
<1> QED
  BY <1>3, <1>4, <1>5, <1>6 DEF LeaseInv

LEMMA NoCallStep ==
  ASSUME LeaseInv, UNCHANGED <<locks, dispatcher, workflow, faults>> PROVE LeaseInv'
<1>1. CallsTypeOK'
  BY DEF LeaseInv, CallsTypeOK, locks, dispatcher, workflow
<1>2. HeldInv'
  BY DEF LeaseInv, HeldInv, locks, dispatcher
<1>3. StageInv'
  BY DEF LeaseInv, StageInv, dispatcher, workflow
<1>4. OwnerInv'
  BY DEF LeaseInv, OwnerInv, locks, dispatcher
<1> QED
  BY <1>1, <1>2, <1>3, <1>4 DEF LeaseInv

-------------------------------------------------------------------------------
LEMMA LeaseSteps == LeaseInv /\ [Next]_vars => LeaseInv'
<1> SUFFICES ASSUME LeaseInv, [Next]_vars PROVE LeaseInv'
  OBVIOUS
<1>1. CASE UNCHANGED vars
  BY <1>1, NoCallStep DEF vars
<1>2. ASSUME NEW r \in Runs, Dispatch(r) PROVE LeaseInv'
  BY <1>2, GateStep, BeginStep, DecideStep, RefuseStep, CreateStep, CreateThrowsStep,
     NotifyStartStep, DispatcherDiesStep, AcquireStep, AcquireThrowsStep, GiveBackStep
     DEF Dispatch
<1>3. ASSUME NEW r \in Runs, Work(r) PROVE LeaseInv'
  BY <1>3, WorkStep, FinallyStep DEF Work
<1>4. CASE Tick
  BY <1>4, TickStep
<1>5. CASE Viewer
  BY <1>5, NoCallStep DEF Viewer
<1> QED
  BY <1>1, <1>2, <1>3, <1>4, <1>5 DEF Next

\* What an update does to the hub's rows is one of the hub's operations: its steps
\* post session:start, session:complete or session:error, or leave the rows alone.
LEMMA HubMoves == LeaseInv /\ [Next]_vars => [HubNext]_hubVars
<1> SUFFICES ASSUME LeaseInv, [Next]_vars, ~ UNCHANGED hubVars PROVE HubNext
  OBVIOUS
<1>1. ASSUME NEW r \in Runs, Dispatch(r) PROVE HubNext
  <2>1. UNCHANGED hubVars \/ OnStart(r)
    BY <1>1 DEF Dispatch, Gate, Begin, Decide, Refuse, Create, CreateThrows, NotifyStart,
       DispatcherDies, Acquire, AcquireThrows, GiveBack
  <2> QED
    BY <2>1, DispatchOK DEF HubNext
<1>2. ASSUME NEW r \in Runs, Work(r) PROVE HubNext
  <2>1. Report(r)
    BY <1>2 DEF Work, Configure, Fetched, RunThrows, End, Evict, Finally
  <2>2. OnReport(r, "error") \/ (wpc[r] = "reporting" /\ OnReport(r, memo[r]))
    BY <2>1 DEF Report, At
  <2>3. wpc[r] = "reporting" => memo[r] \in Terminal
    BY CallTypes DEF LeaseInv, StageInv, Terminal
  <2> QED
    BY <2>2, <2>3, DispatchOK DEF HubNext, Terminal
<1>3. CASE Tick
  BY <1>3 DEF Tick, HubNext
<1>4. CASE Viewer
  BY <1>4, DispatchOK DEF Viewer, HubNext
<1>5. CASE UNCHANGED vars
  BY <1>5 DEF vars
<1> QED
  BY <1>1, <1>2, <1>3, <1>4, <1>5 DEF Next

\* So the hub's invariant holds in the composition as it does in the hub alone.
LEMMA HubFollows == UpdateInv /\ [Next]_vars => HubInv'
  BY HubMoves, HubSteps DEF UpdateInv

\* The hub's rows and the leases together are the inductive invariant of an update.
THEOREM UpdateInvariance == Spec => []UpdateInv
<1>1. Init => UpdateInv
  BY InitHub, InitLeases DEF Init, UpdateInv
<1>2. UpdateInv /\ [Next]_vars => UpdateInv'
  BY LeaseSteps, HubFollows DEF UpdateInv
<1> QED
  BY <1>1, <1>2, PTL DEF Spec

\* Every variable keeps its type, for every number of runs, sources and faults.
THEOREM UpdateTypes == Spec => []TypeOK
<1>1. UpdateInv => TypeOK
  BY DEF UpdateInv, LeaseInv, HubInv, TypeOK
<1> QED
  BY <1>1, UpdateInvariance, PTL

\* Dispatchers and workflows drive the hub as its producers may: the composition is
\* an implementation of the hub, whose rows it touches by the hub's operations only.
THEOREM UpdatesFollowTheHub == Spec => HubSpec
<1>1. Init => HubInit
  BY DEF Init
<1>2. UpdateInv /\ [Next]_vars => [HubNext]_hubVars
  BY HubMoves DEF UpdateInv
<1> QED
  BY <1>1, <1>2, UpdateInvariance, PTL DEF Spec, HubSpec

\* What the hub promises therefore holds of the updates, with their replayed
\* workflows, lost messages and late starts.
THEOREM UpdatesKeepTheirEnds ==
  Spec => []FirstReportStands /\ FinishedIsFinal /\ RunningIsNotForgotten
  BY UpdatesFollowTheHub, FirstReportsStand, FinishedStaysFinal, RunningIsKept, PTL

\* A source whose lease is live has one owner, and a run that fetches owns every
\* lease it was granted: two runs never fetch it together (tryAcquireScrapeLock).
THEOREM LiveLeasesExclude == Spec => []LeasesExclude
<1>1. ASSUME UpdateInv PROVE LeasesExclude
  <2> SUFFICES ASSUME NEW r1 \in Runs, NEW r2 \in Runs, NEW s \in wants[r1] \cap wants[r2],
                      r1 # r2, Fetching(r1), Fetching(r2), s \notin over[r1] \cup over[r2]
               PROVE  FALSE
    BY DEF LeasesExclude
  <2>1. got[r1] = wants[r1] /\ got[r2] = wants[r2]
    BY <1>1 DEF UpdateInv, LeaseInv, StageInv, Fetching
  <2>2. lock[s].owner = r1 /\ lock[s].owner = r2
    BY <1>1, <2>1 DEF UpdateInv, LeaseInv, HeldInv
  <2> QED
    BY <2>2
<1> QED
  BY <1>1, UpdateInvariance, PTL

\* A refused request has given back every lease it was told it had
\* (tryAcquireSourceLocks and the catch of startDeterministicUpdate).
THEOREM RefusalsHoldNothing == Spec => []RefusedHoldsNothing
<1>1. UpdateInv => RefusedHoldsNothing
  BY DEF UpdateInv, LeaseInv, OwnerInv, RefusedHoldsNothing
<1> QED
  BY <1>1, UpdateInvariance, PTL
===============================================================================
