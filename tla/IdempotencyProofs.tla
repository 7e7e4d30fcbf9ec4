-------------------------- MODULE IdempotencyProofs ---------------------------
(***************************************************************************)
(* Proofs about Idempotency, for any sets of keys, requests and            *)
(* fingerprints, any retention, admission and sweep limits and any clock   *)
(* bound.                                                                  *)
(***************************************************************************)
EXTENDS Idempotency, TLAPS

\* The part of TypeOK about a request's own locals.
LocalOK ==
  /\ pc \in [Requests -> PC]
  /\ tries \in [Requests -> 0..(MAX_ADMISSION_ATTEMPTS - 1)]
  /\ retaining \in [Requests -> BOOLEAN]
  /\ answer \in [Requests -> Answers]

LEMMA GotoType ==
  ASSUME TypeOK, NEW r \in Requests, NEW l \in PC, Goto(r, l)
  PROVE  LocalOK'
BY DEF TypeOK, Goto, LocalOK

LEMMA RespondType ==
  ASSUME TypeOK, NEW r \in Requests, NEW a \in Answers, Respond(r, a)
  PROVE  LocalOK'
BY ConstantsOK DEF TypeOK, Respond, LocalOK, PC

LEMMA NextAttemptType ==
  ASSUME TypeOK, NEW r \in Requests, NextAttempt(r)
  PROVE  LocalOK'
<1>1. CASE tries[r] + 1 < MAX_ADMISSION_ATTEMPTS
  BY <1>1, ConstantsOK DEF TypeOK, NextAttempt, LocalOK, PC
<1>2. CASE ~ (tries[r] + 1 < MAX_ADMISSION_ATTEMPTS)
  BY <1>2, RespondType DEF NextAttempt, Answers
<1> QED
  BY <1>1, <1>2

LEMMA TypeInit == Init => TypeOK
BY ConstantsOK DEF Init, TypeOK, Call, PC, Answers

\* Every action keeps the types.
LEMMA TypeStep == TypeOK /\ [Next]_vars => TypeOK'
<1> SUFFICES ASSUME TypeOK, [Next]_vars PROVE TypeOK'
  OBVIOUS
<1> DEFINE StoreOK ==
      /\ now \in Nat
      /\ rows \in [Keys -> Row \cup {NoRow}]
      /\ call \in [Requests -> Call]
      /\ replayOf \in [Requests -> Requests]
      /\ sweepAt \in Nat \cup {NoStamp}
      /\ ran \in [Requests -> {"no", "running", "rejected", "effect"}]
      /\ ranAt \in [Requests -> Nat]
<1>0. SUFFICES LocalOK' /\ StoreOK'
  BY DEF TypeOK, LocalOK
<1>a. StoreOK
  BY DEF TypeOK
<1>b. /\ {"insert", "select", "delete", "handler", "release", "complete", "confirm"} \subseteq PC
      /\ {"refused", "conflict", "in_progress", "unavailable", "replayed", "rejected",
          "failed", "ok", "lost"} \subseteq Answers
  BY DEF PC, Answers
<1> HIDE DEF StoreOK
<1>1. ASSUME NEW r \in Requests, Refuse(r) PROVE LocalOK' /\ StoreOK'
  BY <1>1, <1>a, <1>b, RespondType DEF Refuse, StoreOK
<1>2. ASSUME NEW r \in Requests, Arrive(r) PROVE LocalOK' /\ StoreOK'
  BY <1>2, <1>a, <1>b, GotoType DEF Arrive, StoreOK, Call
<1>3. ASSUME NEW r \in Requests, Claim(r) PROVE LocalOK' /\ StoreOK'
  <2>1. Guard(r) \in Row
    BY <1>a, ConstantsOK DEF Guard, Row, Call, Stamp, StoreOK
  <2>2. ASSUME InsertGuard(r) PROVE LocalOK' /\ StoreOK'
    <3>1. LocalOK'
      BY <2>2, <1>b, GotoType, RespondType DEF InsertGuard
    <3>2. StoreOK'
      BY <2>1, <2>2, <1>a DEF InsertGuard, SetRow, Key, Call, StoreOK
    <3> QED
      BY <3>1, <3>2
  <2>3. ASSUME InsertConflicts(r) \/ SelectExpired(r) PROVE LocalOK' /\ StoreOK'
    BY <2>3, <1>a, <1>b, GotoType DEF InsertConflicts, SelectExpired, StoreOK
  <2>4. ASSUME SelectMissing(r) PROVE LocalOK' /\ StoreOK'
    BY <2>4, <1>a, NextAttemptType DEF SelectMissing, StoreOK
  <2>5. ASSUME SelectConflict(r) \/ SelectProcessing(r) PROVE LocalOK' /\ StoreOK'
    BY <2>5, <1>a, <1>b, RespondType DEF SelectConflict, SelectProcessing, Verdict, StoreOK
  <2>6. ASSUME SelectCompleted(r) PROVE LocalOK' /\ StoreOK'
    <3>1. LocalOK'
      BY <2>6, <1>b, RespondType DEF SelectCompleted
    <3>2. RowOf(r) \in Row
      BY <2>6, <1>a DEF SelectCompleted, Live, RowOf, Key, Call, StoreOK
    <3>3. StoreOK'
      BY <2>6, <3>2, <1>a DEF SelectCompleted, Row, StoreOK
    <3> QED
      BY <3>1, <3>3
  <2>7. ASSUME DeleteExpired(r) PROVE LocalOK' /\ StoreOK'
    <3>1. LocalOK'
      BY <2>7, <1>b, RespondType, NextAttemptType DEF DeleteExpired
    <3>2. StoreOK'
      BY <2>7, <1>a DEF DeleteExpired, SetRow, StoreOK
    <3> QED
      BY <3>1, <3>2
  <2>8. ASSUME ClaimThrows(r) PROVE LocalOK' /\ StoreOK'
    BY <2>8, <1>a, <1>b, RespondType DEF ClaimThrows, StoreOK
  <2> QED
    BY <1>3, <2>2, <2>3, <2>4, <2>5, <2>6, <2>7, <2>8 DEF Claim
<1>4. ASSUME NEW r \in Requests, Handler(r) PROVE LocalOK' /\ StoreOK'
  <2>1. LocalOK'
    BY <1>4, <1>b, GotoType, RespondType DEF Handler, HandlerRejects, HandlerFails, HandlerSucceeds
  <2>2. StoreOK'
    BY <1>4, <1>a DEF Handler, HandlerRejects, HandlerFails, HandlerSucceeds, StoreOK
  <2> QED
    BY <2>1, <2>2
<1>5. ASSUME NEW r \in Requests, Settle(r) PROVE LocalOK' /\ StoreOK'
  <2>1. ASSUME Release(r) PROVE LocalOK' /\ StoreOK'
    <3>1. LocalOK'
      BY <2>1, <1>b, GotoType, RespondType DEF Release
    <3>2. StoreOK'
      BY <2>1, <1>a DEF Release, SetRow, StoreOK
    <3> QED
      BY <3>1, <3>2
  <2>2. ASSUME Complete(r) PROVE LocalOK' /\ StoreOK'
    <3>1. LocalOK'
      BY <2>2, <1>b, GotoType, RespondType DEF Complete
    <3>2. ASSUME OwnsGuard(r) PROVE [RowOf(r) EXCEPT !.state = "completed"] \in Row
      BY <3>2, <1>a DEF OwnsGuard, RowOf, Key, Call, Row, StoreOK
    <3>3. StoreOK'
      BY <2>2, <3>2, <1>a DEF Complete, SetRow, StoreOK
    <3> QED
      BY <3>1, <3>3
  <2>3. ASSUME SettleThrows(r) PROVE LocalOK' /\ StoreOK'
    BY <2>3, <1>a, <1>b, GotoType DEF SettleThrows, StoreOK
  <2>4. ASSUME ConfirmActive(r) \/ ConfirmThrows(r) PROVE LocalOK' /\ StoreOK'
    BY <2>4, <1>a, <1>b, RespondType DEF ConfirmActive, ConfirmThrows, StoreOK
  <2>5. ASSUME ConfirmMissing(r) PROVE LocalOK' /\ StoreOK'
    BY <2>5, <1>a, <1>b, ConstantsOK DEF ConfirmMissing, LocalOK, TypeOK, StoreOK
  <2> QED
    BY <1>5, <2>1, <2>2, <2>3, <2>4, <2>5 DEF Settle
<1>6. ASSUME NEW r \in Requests, Crash(r) PROVE LocalOK' /\ StoreOK'
  <2>1. LocalOK'
    BY <1>6, <1>b, RespondType DEF Crash
  <2>2. StoreOK'
    BY <1>6, <1>a DEF Crash, StoreOK
  <2> QED
    BY <2>1, <2>2
<1>7. ASSUME Sweep \/ Tick PROVE LocalOK' /\ StoreOK'
  BY <1>7, <1>a DEF Sweep, SweepStart, SweepRun, Tick, LocalOK, TypeOK, StoreOK
<1>8. CASE UNCHANGED vars
  BY <1>8, <1>a DEF vars, LocalOK, TypeOK, StoreOK
<1> QED
  BY <1>1, <1>2, <1>3, <1>4, <1>5, <1>6, <1>7, <1>8 DEF Next

-------------------------------------------------------------------------------
(* The inductive invariant, one lemma per conjunct.                        *)

\* Steps of r that touch no row, no clock and no history.
Quiet(r) ==
  \/ Refuse(r) \/ InsertConflicts(r) \/ SelectMissing(r) \/ SelectExpired(r)
  \/ SelectConflict(r) \/ SelectProcessing(r) \/ SelectCompleted(r) \/ ClaimThrows(r)
  \/ SettleThrows(r) \/ ConfirmActive(r) \/ ConfirmMissing(r) \/ ConfirmThrows(r)

LEMMA QuietSteps ==
  ASSUME TypeOK, NEW r \in Requests, Quiet(r)
  PROVE  /\ UNCHANGED <<now, rows, call, sweepAt, ran, ranAt>>
         /\ \A q \in Requests : pc[q] # "idle" => pc'[q] # "idle"
         /\ \A q \in Requests : q # r => pc'[q] = pc[q] /\ answer'[q] = answer[q]
                                         /\ retaining'[q] = retaining[q]
BY DEF Quiet, Refuse, InsertConflicts, SelectMissing, SelectExpired, SelectConflict,
       SelectProcessing, SelectCompleted, ClaimThrows, SettleThrows, ConfirmActive,
       ConfirmMissing, ConfirmThrows, NextAttempt, Verdict, Goto, Respond, Live, TypeOK

\* Next, sorted by what a step may disturb.
LEMMA NextCases ==
  ASSUME [Next]_vars
  PROVE  \/ \E r \in Requests : Quiet(r)
         \/ \E r \in Requests : Arrive(r)
         \/ \E r \in Requests : InsertGuard(r)
         \/ \E r \in Requests : DeleteExpired(r)
         \/ \E r \in Requests : Handler(r)
         \/ \E r \in Requests : Release(r)
         \/ \E r \in Requests : Complete(r)
         \/ \E r \in Requests : Crash(r)
         \/ SweepStart \/ SweepRun
         \/ Tick
         \/ UNCHANGED vars
BY DEF Next, Claim, Settle, Sweep, Quiet

LEMMA ClockStep == Inv /\ [Next]_vars => ClockInv'
<1> SUFFICES ASSUME Inv, [Next]_vars PROVE ClockInv'
  OBVIOUS
<1> USE DEF ClockInv, Stamp
<1>0. TypeOK /\ ClockInv
  BY DEF Inv
<1>1. ASSUME NEW r \in Requests, Quiet(r) PROVE ClockInv'
  BY <1>0, <1>1, QuietSteps
<1>2. ASSUME NEW r \in Requests, Arrive(r) PROVE ClockInv'
  BY <1>0, <1>2, ConstantsOK DEF Arrive, TypeOK, Call
<1>3. ASSUME NEW r \in Requests,
             InsertGuard(r) \/ DeleteExpired(r) \/ Release(r) \/ Complete(r)
      PROVE  ClockInv'
  BY <1>0, <1>3 DEF InsertGuard, DeleteExpired, Release, Complete
<1>4. ASSUME NEW r \in Requests, Handler(r) \/ Crash(r) PROVE ClockInv'
  BY <1>0, <1>4 DEF Handler, HandlerRejects, HandlerFails, HandlerSucceeds, Crash
<1>5. ASSUME SweepStart \/ SweepRun PROVE ClockInv'
  BY <1>0, <1>5 DEF SweepStart, SweepRun, TypeOK
<1>6. ASSUME Tick PROVE ClockInv'
  BY <1>0, <1>6, ConstantsOK DEF Tick, TypeOK, Call
<1>7. CASE UNCHANGED vars
  BY <1>0, <1>7 DEF vars
<1> QED
  BY <1>1, <1>2, <1>3, <1>4, <1>5, <1>6, <1>7, NextCases

LEMMA PhaseStep == Inv /\ [Next]_vars => PhaseInv'
<1> SUFFICES ASSUME Inv, [Next]_vars PROVE PhaseInv'
  OBVIOUS
<1>0. TypeOK /\ PhaseInv
  BY DEF Inv
<1> USE DEF PhaseInv, TypeOK
<1>1. ASSUME NEW r \in Requests, Quiet(r) PROVE PhaseInv'
  <2>1. ASSUME Refuse(r) PROVE PhaseInv'
    BY <1>0, <2>1 DEF Refuse, Respond
  <2>2. ASSUME InsertConflicts(r) \/ SelectExpired(r) \/ SettleThrows(r) PROVE PhaseInv'
    BY <1>0, <2>2 DEF InsertConflicts, SelectExpired, SettleThrows, Goto
  <2>3. ASSUME SelectMissing(r) PROVE PhaseInv'
    BY <1>0, <2>3 DEF SelectMissing, NextAttempt, Respond
  <2>4. ASSUME SelectConflict(r) \/ SelectProcessing(r) PROVE PhaseInv'
    BY <1>0, <2>4 DEF SelectConflict, SelectProcessing, Verdict, Respond, Live
  <2>5. ASSUME SelectCompleted(r) PROVE PhaseInv'
    BY <1>0, <2>5 DEF SelectCompleted, Respond, Live
  <2>6. ASSUME ClaimThrows(r) \/ ConfirmActive(r) \/ ConfirmThrows(r) PROVE PhaseInv'
    BY <1>0, <2>6 DEF ClaimThrows, ConfirmActive, ConfirmThrows, Respond
  <2>7. ASSUME ConfirmMissing(r) PROVE PhaseInv'
    BY <1>0, <2>7 DEF ConfirmMissing
  <2> QED
    BY <1>1, <2>1, <2>2, <2>3, <2>4, <2>5, <2>6, <2>7 DEF Quiet
<1>2. ASSUME NEW r \in Requests, Arrive(r) PROVE PhaseInv'
  BY <1>0, <1>2 DEF Arrive, Goto
<1>3. ASSUME NEW r \in Requests, InsertGuard(r) PROVE PhaseInv'
  BY <1>0, <1>3 DEF InsertGuard, Goto, Respond
<1>4. ASSUME NEW r \in Requests, DeleteExpired(r) PROVE PhaseInv'
  BY <1>0, <1>4 DEF DeleteExpired, NextAttempt, Respond
<1>5. ASSUME NEW r \in Requests, Handler(r) PROVE PhaseInv'
  BY <1>0, <1>5 DEF Handler, HandlerRejects, HandlerFails, HandlerSucceeds, Goto, Respond
<1>6. ASSUME NEW r \in Requests, Release(r) PROVE PhaseInv'
  BY <1>0, <1>6 DEF Release, Goto, Respond
<1>7. ASSUME NEW r \in Requests, Complete(r) PROVE PhaseInv'
  BY <1>0, <1>7 DEF Complete, Goto, Respond
<1>8. ASSUME NEW r \in Requests, Crash(r) PROVE PhaseInv'
  BY <1>0, <1>8 DEF Crash, Respond
<1>9. ASSUME SweepStart \/ SweepRun \/ Tick \/ UNCHANGED vars PROVE PhaseInv'
  BY <1>0, <1>9 DEF SweepStart, SweepRun, Tick, vars
<1> QED
  BY <1>1, <1>2, <1>3, <1>4, <1>5, <1>6, <1>7, <1>8, <1>9, NextCases

\* A write to one key's row leaves the other rows; the clock and the calls stay.
LEMMA RowStep == Inv /\ [Next]_vars => RowInv'
<1> SUFFICES ASSUME Inv, [Next]_vars PROVE RowInv'
  OBVIOUS
<1>0. TypeOK /\ PhaseInv /\ RowInv
  BY DEF Inv
<1> USE DEF RowInv, Key, Stamp
<1>1. ASSUME NEW r \in Requests, Quiet(r) PROVE RowInv'
  BY <1>0, <1>1, QuietSteps DEF TypeOK, Row
<1>2. ASSUME NEW r \in Requests, Arrive(r) PROVE RowInv'
  BY <1>0, <1>2 DEF Arrive, Goto, TypeOK, Row, Call
<1>3. ASSUME NEW r \in Requests, InsertGuard(r) PROVE RowInv'
  <2>1. /\ pc'[r] # "idle"
        /\ \A q \in Requests : pc[q] # "idle" => pc'[q] # "idle"
        /\ \A q \in Requests : ran[q] = "effect" => ran'[q] = "effect"
    BY <1>0, <1>3 DEF InsertGuard, Goto, Respond, PhaseInv, TypeOK
  <2>2. /\ call' = call
        /\ rows' = [rows EXCEPT ![Key(r)] = Guard(r)]
    BY <1>3 DEF InsertGuard, SetRow
  <2> QED
    BY <1>0, <2>1, <2>2 DEF Guard, TypeOK, Row
<1>4. ASSUME NEW r \in Requests, DeleteExpired(r) \/ Release(r) PROVE RowInv'
  <2>1. /\ UNCHANGED <<call, ran>>
        /\ \A q \in Requests : pc[q] # "idle" => pc'[q] # "idle"
        /\ rows' = rows \/ SetRow(r, NoRow)
    BY <1>0, <1>4 DEF DeleteExpired, Release, NextAttempt, Goto, Respond, TypeOK
  <2> QED
    BY <1>0, <2>1 DEF SetRow, TypeOK, Row
<1>5. ASSUME NEW r \in Requests, Handler(r) \/ Crash(r) PROVE RowInv'
  <2>1. /\ UNCHANGED <<rows, call>>
        /\ \A q \in Requests : pc[q] # "idle" => pc'[q] # "idle"
        /\ \A q \in Requests : ran[q] = "effect" => ran'[q] = "effect"
    BY <1>0, <1>5 DEF Handler, HandlerRejects, HandlerFails, HandlerSucceeds, Crash, Goto,
                      Respond, PhaseInv, TypeOK
  <2> QED
    BY <1>0, <2>1 DEF TypeOK, Row
<1>6. ASSUME NEW r \in Requests, Complete(r) PROVE RowInv'
  <2>1. /\ UNCHANGED <<call, ran>>
        /\ \A q \in Requests : pc[q] # "idle" => pc'[q] # "idle"
    BY <1>0, <1>6 DEF Complete, Goto, Respond, TypeOK
  <2>2. CASE OwnsGuard(r)
    <3>1. RowOf(r) \in Row /\ RowOf(r).attempt = r /\ ran[r] = "effect"
      BY <1>0, <1>6, <2>2 DEF OwnsGuard, RowOf, Complete, PhaseInv, TypeOK, Call
    <3>2. rows' = [rows EXCEPT ![Key(r)] = [RowOf(r) EXCEPT !.state = "completed"]]
      BY <1>6, <2>2 DEF Complete, SetRow
    <3> QED
      BY <1>0, <2>1, <3>1, <3>2, <2>2 DEF OwnsGuard, RowOf, TypeOK, Row
  <2>3. CASE ~ OwnsGuard(r)
    BY <1>0, <1>6, <2>1, <2>3 DEF Complete, TypeOK, Row
  <2> QED
    BY <2>2, <2>3
<1>7. ASSUME SweepStart \/ SweepRun \/ Tick \/ UNCHANGED vars PROVE RowInv'
  <2>1. /\ UNCHANGED <<pc, call, ran>>
        /\ \A k \in Keys : rows'[k] \in {rows[k], NoRow}
    BY <1>0, <1>7 DEF SweepStart, SweepRun, Tick, vars, TypeOK
  <2> QED
    BY <1>0, <2>1 DEF TypeOK, Row
<1> QED
  BY <1>1, <1>2, <1>3, <1>4, <1>5, <1>6, <1>7, NextCases

\* Whoever may have had an effect keeps its row until it expires.
LEMMA EffectRowStep == Inv /\ [Next]_vars => EffectKeepsItsRow'
<1> SUFFICES ASSUME Inv, [Next]_vars PROVE EffectKeepsItsRow'
  OBVIOUS
<1>0. TypeOK /\ PhaseInv /\ RowInv /\ ClockInv /\ EffectKeepsItsRow
  BY DEF Inv
<1> USE DEF EffectKeepsItsRow, MayHaveEffect, RowOf, Key, Stamp
<1>1. ASSUME NEW r \in Requests, Quiet(r) PROVE EffectKeepsItsRow'
  BY <1>0, <1>1, QuietSteps
<1>2. ASSUME NEW r \in Requests, Arrive(r) PROVE EffectKeepsItsRow'
  BY <1>0, <1>2 DEF Arrive, PhaseInv, TypeOK, Call
<1>3. ASSUME NEW r \in Requests, InsertGuard(r) PROVE EffectKeepsItsRow'
  \* The key was free: no other effect under it still counts.
  <2>1. /\ UNCHANGED <<now, call>>
        /\ rows[Key(r)] = NoRow
        /\ rows' = [rows EXCEPT ![Key(r)] = Guard(r)]
        /\ \A q \in Requests : q # r => ran'[q] = ran[q]
    BY <1>0, <1>3 DEF InsertGuard, SetRow, TypeOK
  <2>2. Guard(r) # NoRow /\ Guard(r).attempt = r /\ Key(r) \in Keys
    BY <1>0, ConstantsOK DEF Guard, Row, TypeOK, Call
  <2> QED
    BY <1>0, <2>1, <2>2 DEF TypeOK, Call
<1>4. ASSUME NEW r \in Requests, DeleteExpired(r) PROVE EffectKeepsItsRow'
  <2>1. /\ UNCHANGED <<now, call, ran>>
        /\ \/ rows' = rows
           \/ SetRow(r, NoRow) /\ RowOf(r) # NoRow /\ RowOf(r).expires <= Stamp(r)
    BY <1>4 DEF DeleteExpired
  <2>2. ASSUME SetRow(r, NoRow), RowOf(r) # NoRow, RowOf(r).expires <= Stamp(r)
        PROVE  EffectKeepsItsRow'
    <3>1. RowOf(r).expires <= now
      BY <1>0, <2>2, ConstantsOK DEF ClockInv, RowInv, TypeOK, Call, Row
    <3>2. ASSUME NEW q \in Requests, MayHaveEffect(q), now < Stamp(q) + RETENTION
          PROVE  Key(q) # Key(r)
      BY <1>0, <2>2, <3>1, <3>2, ConstantsOK DEF RowInv, TypeOK, Call, Row
    <3> QED
      BY <1>0, <2>1, <2>2, <3>2 DEF SetRow, TypeOK, Call
  <2> QED
    BY <1>0, <2>1, <2>2
<1>5. ASSUME NEW r \in Requests, Handler(r) \/ Crash(r) PROVE EffectKeepsItsRow'
  BY <1>0, <1>5 DEF Handler, HandlerRejects, HandlerFails, HandlerSucceeds, Crash, PhaseInv, TypeOK
<1>6. ASSUME NEW r \in Requests, Release(r) PROVE EffectKeepsItsRow'
  \* A released row belongs to an attempt without an effect.
  <2>1. /\ UNCHANGED <<now, call, ran>>
        /\ ran[r] = "rejected"
        /\ \/ rows' = rows
           \/ SetRow(r, NoRow) /\ rows[Key(r)].attempt = r
    BY <1>0, <1>6 DEF Release, OwnsGuard, PhaseInv
  <2> QED
    BY <1>0, <2>1 DEF SetRow, TypeOK, Call
<1>7. ASSUME NEW r \in Requests, Complete(r) PROVE EffectKeepsItsRow'
  <2>1. /\ UNCHANGED <<now, call, ran>>
        /\ \/ rows' = rows
           \/ OwnsGuard(r) /\ SetRow(r, [RowOf(r) EXCEPT !.state = "completed"])
    BY <1>7 DEF Complete
  <2>2. ASSUME OwnsGuard(r)
        PROVE  /\ [RowOf(r) EXCEPT !.state = "completed"] # NoRow
               /\ [RowOf(r) EXCEPT !.state = "completed"].attempt = r
    <3>1. rows[Key(r)] \in Row /\ rows[Key(r)].attempt = r
      BY <1>0, <2>2 DEF OwnsGuard, TypeOK, Call
    <3>2. /\ [rows[Key(r)] EXCEPT !.state = "completed"] \in Row
          /\ [rows[Key(r)] EXCEPT !.state = "completed"].attempt = r
      BY <3>1 DEF Row
    <3> QED
      BY <3>2, ConstantsOK
  <2>3. CASE rows' = rows
    BY <1>0, <2>1, <2>3
  <2>4. CASE OwnsGuard(r) /\ SetRow(r, [RowOf(r) EXCEPT !.state = "completed"])
    <3> DEFINE done == [RowOf(r) EXCEPT !.state = "completed"]
    <3>1. done # NoRow /\ done.attempt = r /\ Key(r) \in Keys
      BY <1>0, <2>2, <2>4 DEF TypeOK, Call
    <3>2. rows' = [rows EXCEPT ![Key(r)] = done] /\ rows[Key(r)].attempt = r
      BY <2>4 DEF SetRow, OwnsGuard
    <3> HIDE DEF done
    <3> QED
      BY <1>0, <2>1, <3>1, <3>2 DEF TypeOK, Call
  <2> QED
    BY <2>1, <2>3, <2>4
<1>8. ASSUME SweepStart \/ Tick \/ UNCHANGED vars PROVE EffectKeepsItsRow'
  BY <1>0, <1>8, ConstantsOK DEF SweepStart, Tick, vars, TypeOK, Call
<1>9. ASSUME SweepRun PROVE EffectKeepsItsRow'
  <2>1. /\ UNCHANGED <<now, call, ran>>
        /\ \A k \in Keys :
             \/ rows'[k] = rows[k]
             \/ rows[k] # NoRow /\ rows[k].expires <= now
    <3>1. PICK S \in SweepBatch(sweepAt) :
            rows' = [k \in Keys |-> IF k \in S THEN NoRow ELSE rows[k]]
      BY <1>9 DEF SweepRun
    <3>2. S \subseteq Expired(sweepAt) /\ sweepAt \in Nat /\ sweepAt <= now
      BY <1>0, <1>9, <3>1 DEF SweepBatch, ClockInv, SweepRun, TypeOK
    <3>3. \A k \in S : rows[k] # NoRow /\ rows[k].expires <= now
      BY <1>0, <3>2 DEF Expired, TypeOK, Row
    <3> QED
      BY <1>9, <3>1, <3>3 DEF SweepRun
  <2> QED
    BY <1>0, <2>1, ConstantsOK DEF RowInv, TypeOK, Call, Row
<1> QED
  BY <1>1, <1>2, <1>3, <1>4, <1>5, <1>6, <1>7, <1>8, <1>9, NextCases

\* Only a first claim lets a handler run, and it finds its key's row gone.
LEMMA OneEffectStep == Inv /\ [Next]_vars => AtMostOneEffect'
<1> SUFFICES ASSUME Inv, [Next]_vars PROVE AtMostOneEffect'
  OBVIOUS
<1>0. TypeOK /\ PhaseInv /\ AtMostOneEffect /\ EffectKeepsItsRow
  BY DEF Inv
<1> USE DEF AtMostOneEffect, MayHaveEffect, Key, Stamp
<1>1. ASSUME NEW r \in Requests, Quiet(r) PROVE AtMostOneEffect'
  BY <1>0, <1>1, QuietSteps
<1>2. ASSUME NEW r \in Requests, Arrive(r) PROVE AtMostOneEffect'
  BY <1>0, <1>2 DEF Arrive, PhaseInv, TypeOK, Call
<1>3. ASSUME NEW r \in Requests, InsertGuard(r) PROVE AtMostOneEffect'
  <2>1. /\ call' = call /\ rows[Key(r)] = NoRow
        /\ \/ UNCHANGED <<ran, ranAt>>
           \/ ran' = [ran EXCEPT ![r] = "running"] /\ ranAt' = [ranAt EXCEPT ![r] = now]
    BY <1>3 DEF InsertGuard, RowOf
  <2>2. \A s \in Requests :
          Key(s) = Key(r) /\ MayHaveEffect(s) => now >= Stamp(s) + RETENTION
    BY <1>0, <2>1, ConstantsOK DEF EffectKeepsItsRow, RowOf, TypeOK, Call
  <2> QED
    BY <1>0, <2>1, <2>2 DEF TypeOK
<1>4. ASSUME NEW r \in Requests, DeleteExpired(r) \/ Release(r) \/ Complete(r)
      PROVE  AtMostOneEffect'
  BY <1>0, <1>4 DEF DeleteExpired, Release, Complete
<1>5. ASSUME NEW r \in Requests, Handler(r) \/ Crash(r) PROVE AtMostOneEffect'
  BY <1>0, <1>5 DEF Handler, HandlerRejects, HandlerFails, HandlerSucceeds, Crash, PhaseInv, TypeOK
<1>6. ASSUME SweepStart \/ SweepRun \/ Tick \/ UNCHANGED vars PROVE AtMostOneEffect'
  BY <1>0, <1>6 DEF SweepStart, SweepRun, Tick, vars
<1> QED
  BY <1>1, <1>2, <1>3, <1>4, <1>5, <1>6, NextCases

\* What was replayed stays what it was: keys, fingerprints and effects do not
\* change once a request is under way.
LEMMA ReplayStep == Inv /\ [Next]_vars => ReplayIsOfSameRequest'
<1> SUFFICES ASSUME Inv, [Next]_vars PROVE ReplayIsOfSameRequest'
  OBVIOUS
<1>0. TypeOK /\ PhaseInv /\ RowInv /\ ReplayIsOfSameRequest
  BY DEF Inv
<1> DEFINE Same(r, s) == s # r /\ Key(s) = Key(r) /\ call[s].hash = call[r].hash
<1>1. SUFFICES ASSUME NEW r \in Requests, answer'[r] = "replayed"
               PROVE  Same(r, replayOf[r])' /\ ran'[replayOf'[r]] = "effect" /\ ran'[r] = "no"
  BY DEF ReplayIsOfSameRequest
<1>2. /\ \A q \in Requests : Key(q)' = Key(q) /\ call'[q].hash = call[q].hash
      /\ \A q \in Requests : ran[q] = "effect" => ran'[q] = "effect"
      /\ \A q \in Requests : pc[q] = "done" => ran'[q] = ran[q]
  <2>1. ASSUME NEW q \in Requests, Quiet(q) PROVE UNCHANGED <<call, ran>>
    BY <1>0, <2>1, QuietSteps
  <2>2. ASSUME NEW q \in Requests, Arrive(q)
        PROVE  /\ \A p \in Requests : Key(p)' = Key(p) /\ call'[p].hash = call[p].hash
               /\ UNCHANGED ran
    BY <1>0, <2>2 DEF Arrive, Key, TypeOK, Call
  <2>3. ASSUME NEW q \in Requests, InsertGuard(q) \/ Handler(q) \/ Crash(q)
        PROVE  /\ UNCHANGED call
               /\ pc[q] # "done"
               /\ \A p \in Requests : p # q => ran'[p] = ran[p]
               /\ ran[q] = "effect" => ran'[q] = "effect"
    BY <1>0, <2>3 DEF InsertGuard, Handler, HandlerRejects, HandlerFails, HandlerSucceeds, Crash,
                      PhaseInv, TypeOK
  <2>4. ASSUME NEW q \in Requests, DeleteExpired(q) \/ Release(q) \/ Complete(q)
        PROVE  UNCHANGED <<call, ran>>
    BY <2>4 DEF DeleteExpired, Release, Complete
  <2>5. ASSUME SweepStart \/ SweepRun \/ Tick \/ UNCHANGED vars PROVE UNCHANGED <<call, ran>>
    BY <2>5 DEF SweepStart, SweepRun, Tick, vars
  <2> QED
    BY <2>1, <2>2, <2>3, <2>4, <2>5, NextCases DEF Key
<1>3. \/ answer[r] = "replayed" /\ replayOf'[r] = replayOf[r]
      \/ SelectCompleted(r) /\ answer'[r] = "replayed" /\ replayOf'[r] = RowOf(r).attempt
  <2>1. ASSUME NEW q \in Requests, SelectCompleted(q)
        PROVE  \/ answer[r] = "replayed" /\ replayOf'[r] = replayOf[r]
               \/ SelectCompleted(r) /\ replayOf'[r] = RowOf(r).attempt
    BY <1>0, <1>1, <2>1 DEF SelectCompleted, Live, Respond, PhaseInv, TypeOK
  <2>2. ASSUME NEW q \in Requests, Quiet(q), ~ SelectCompleted(q)
        PROVE  answer[r] = "replayed" /\ replayOf' = replayOf
    <3>1. ASSUME SelectConflict(q) \/ SelectProcessing(q)
          PROVE  answer[r] = "replayed" /\ replayOf' = replayOf
      BY <1>0, <1>1, <3>1 DEF SelectConflict, SelectProcessing, Verdict, Respond, TypeOK
    <3>2. ASSUME ~ (SelectConflict(q) \/ SelectProcessing(q))
          PROVE  answer[r] = "replayed" /\ replayOf' = replayOf
      BY <1>0, <1>1, <2>2, <3>2
         DEF Quiet, Refuse, InsertConflicts, SelectMissing, SelectExpired, ClaimThrows,
             SettleThrows, ConfirmActive, ConfirmMissing, ConfirmThrows, NextAttempt, Goto,
             Respond, TypeOK
    <3> QED
      BY <3>1, <3>2
  <2>3. ASSUME NEW q \in Requests,
               Arrive(q) \/ InsertGuard(q) \/ DeleteExpired(q) \/ Handler(q) \/ Crash(q)
        PROVE  answer[r] = "replayed" /\ replayOf' = replayOf
    BY <1>0, <1>1, <2>3 DEF Arrive, InsertGuard, DeleteExpired, Handler, HandlerRejects,
       HandlerFails, HandlerSucceeds, Crash, NextAttempt, Goto, Respond, TypeOK
  <2>4. ASSUME NEW q \in Requests, Release(q) \/ Complete(q)
        PROVE  answer[r] = "replayed" /\ replayOf' = replayOf
    BY <1>0, <1>1, <2>4 DEF Release, Complete, Goto, Respond, TypeOK
  <2>5. ASSUME SweepStart \/ SweepRun \/ Tick \/ UNCHANGED vars
        PROVE  answer[r] = "replayed" /\ replayOf' = replayOf
    BY <1>1, <2>5 DEF SweepStart, SweepRun, Tick, vars
  <2> QED
    BY <1>1, <2>1, <2>2, <2>3, <2>4, <2>5, NextCases
<1>4. CASE answer[r] = "replayed" /\ replayOf'[r] = replayOf[r]
  BY <1>0, <1>2, <1>4 DEF ReplayIsOfSameRequest, PhaseInv, TypeOK, Key
<1>5. CASE SelectCompleted(r) /\ answer'[r] = "replayed" /\ replayOf'[r] = RowOf(r).attempt
  <2>1. ~ retaining[r]
    BY <1>0, <1>5 DEF SelectCompleted, Respond, TypeOK
  <2>2. ran[r] = "no"
    BY <1>0, <1>5, <2>1 DEF SelectCompleted, Live, PhaseInv
  <2>3. /\ RowOf(r) \in Row
        /\ Key(RowOf(r).attempt) = Key(r) /\ call[RowOf(r).attempt].hash = call[r].hash
        /\ ran[RowOf(r).attempt] = "effect"
    BY <1>0, <1>5 DEF SelectCompleted, Live, SameRequest, RowOf, Key, RowInv, TypeOK, Call
  <2>4. UNCHANGED <<call, ran>>
    BY <1>5 DEF SelectCompleted
  <2> QED
    BY <1>5, <2>2, <2>3, <2>4 DEF Key
<1> QED
  BY <1>3, <1>4, <1>5

\* Only the row's own attempt writes to a live row, and never to a completed one.
LEMMA CompletedStep ==
  ASSUME Inv, [Next]_vars, NEW k \in Keys,
         rows[k] # NoRow, rows[k].state = "completed", now < rows[k].expires
  PROVE  rows'[k] = rows[k]
<1>0. TypeOK /\ RowInv /\ ClockInv
  BY DEF Inv
<1>a. rows[k] \in Row
  BY <1>0 DEF TypeOK
<1>1. ASSUME NEW r \in Requests,
             Quiet(r) \/ Arrive(r) \/ Handler(r) \/ Crash(r)
      PROVE  rows' = rows
  BY <1>0, <1>1, QuietSteps
     DEF Arrive, Handler, HandlerRejects, HandlerFails, HandlerSucceeds, Crash
<1>2. ASSUME NEW r \in Requests, InsertGuard(r) PROVE rows'[k] = rows[k]
  BY <1>0, <1>2 DEF InsertGuard, SetRow, RowOf, TypeOK
<1>3. ASSUME NEW r \in Requests, DeleteExpired(r) PROVE rows'[k] = rows[k]
  BY <1>0, <1>a, <1>3, ConstantsOK
     DEF DeleteExpired, SetRow, RowOf, Key, Stamp, ClockInv, TypeOK, Call, Row
<1>4. ASSUME NEW r \in Requests, Release(r) \/ Complete(r) PROVE rows'[k] = rows[k]
  BY <1>0, <1>4 DEF Release, Complete, OwnsGuard, SetRow, RowOf, TypeOK
<1>5. ASSUME SweepRun PROVE rows'[k] = rows[k]
  <2>1. PICK S \in SweepBatch(sweepAt) :
          rows' = [j \in Keys |-> IF j \in S THEN NoRow ELSE rows[j]]
    BY <1>5 DEF SweepRun
  <2>2. k \notin S
    BY <1>0, <1>a, <1>5, <2>1 DEF SweepBatch, Expired, SweepRun, ClockInv, TypeOK, Row
  <2> QED
    BY <2>1, <2>2
<1>6. ASSUME SweepStart \/ Tick \/ UNCHANGED vars PROVE rows' = rows
  BY <1>6 DEF SweepStart, Tick, vars
<1> QED
  BY <1>1, <1>2, <1>3, <1>4, <1>5, <1>6, NextCases

\* Calls are fixed once a request is under way, and the clock never goes back.
LEMMA FixedStep ==
  ASSUME Inv, [Next]_vars
  PROVE  /\ now \in Nat /\ now' \in Nat /\ now <= now'
         /\ \A r \in Requests : Key(r)' = Key(r)
         /\ \A r \in Requests : pc[r] # "idle" => call'[r] = call[r]
<1>0. TypeOK
  BY DEF Inv
<1> USE DEF Key
<1>1. ASSUME NEW r \in Requests, Quiet(r) PROVE UNCHANGED <<now, call>>
  BY <1>0, <1>1, QuietSteps
<1>2. ASSUME NEW r \in Requests, Arrive(r)
      PROVE  /\ UNCHANGED now
             /\ \A q \in Requests : Key(q)' = Key(q)
             /\ \A q \in Requests : pc[q] # "idle" => call'[q] = call[q]
  BY <1>0, <1>2 DEF Arrive, TypeOK, Call
<1>3. ASSUME NEW r \in Requests,
             InsertGuard(r) \/ DeleteExpired(r) \/ Handler(r) \/ Release(r) \/ Complete(r)
               \/ Crash(r)
      PROVE  UNCHANGED <<now, call>>
  BY <1>3 DEF InsertGuard, DeleteExpired, Handler, HandlerRejects, HandlerFails, HandlerSucceeds,
              Release, Complete, Crash
<1>4. ASSUME SweepStart \/ SweepRun \/ UNCHANGED vars PROVE UNCHANGED <<now, call>>
  BY <1>4 DEF SweepStart, SweepRun, vars
<1>5. ASSUME Tick PROVE now' = now + 1 /\ UNCHANGED call
  BY <1>5 DEF Tick
<1> QED
  BY <1>0, <1>1, <1>2, <1>3, <1>4, <1>5, NextCases DEF TypeOK

LEMMA AcknowledgedStep == Inv /\ [Next]_vars => AcknowledgedIsReplayable'
<1> SUFFICES ASSUME Inv, [Next]_vars, NEW r \in Requests,
                    answer'[r] = "ok", now' < Stamp(r)' + RETENTION
             PROVE  RowOf(r)' # NoRow /\ RowOf(r)'.attempt = r /\ RowOf(r)'.state = "completed"
  BY DEF AcknowledgedIsReplayable
<1>0. TypeOK /\ PhaseInv /\ RowInv /\ ClockInv /\ AcknowledgedIsReplayable
  BY DEF Inv
<1>1. answer[r] = "ok" \/ (Complete(r) /\ OwnsGuard(r))
  <2>1. ASSUME NEW q \in Requests, Complete(q) PROVE answer[r] = "ok" \/ (Complete(r) /\ OwnsGuard(r))
    BY <1>0, <2>1 DEF Complete, Goto, Respond, TypeOK
  <2>2. ASSUME NEW q \in Requests, SelectConflict(q) \/ SelectProcessing(q) PROVE answer[r] = "ok"
    BY <1>0, <2>2 DEF SelectConflict, SelectProcessing, Verdict, Respond, TypeOK
  <2>3. ASSUME NEW q \in Requests, Quiet(q), ~ (SelectConflict(q) \/ SelectProcessing(q))
        PROVE  answer[r] = "ok"
    BY <1>0, <2>3 DEF Quiet, Refuse, InsertConflicts, SelectMissing, SelectExpired,
       SelectCompleted, ClaimThrows, SettleThrows, ConfirmActive, ConfirmMissing, ConfirmThrows,
       NextAttempt, Goto, Respond, TypeOK
  <2>4. ASSUME NEW q \in Requests,
               Arrive(q) \/ InsertGuard(q) \/ DeleteExpired(q) \/ Handler(q) \/ Crash(q) \/ Release(q)
        PROVE  answer[r] = "ok"
    BY <1>0, <2>4 DEF Arrive, InsertGuard, DeleteExpired, Handler, HandlerRejects, HandlerFails,
       HandlerSucceeds, Crash, Release, NextAttempt, Goto, Respond, TypeOK
  <2>5. ASSUME SweepStart \/ SweepRun \/ Tick \/ UNCHANGED vars PROVE answer[r] = "ok"
    BY <2>5 DEF SweepStart, SweepRun, Tick, vars
  <2> QED
    BY <2>1, <2>2, <2>3, <2>4, <2>5, NextCases
<1>2. CASE answer[r] = "ok"
  <2>1. pc[r] # "idle"
    BY <1>0, <1>2 DEF PhaseInv
  <2>2. call'[r] = call[r] /\ now < Stamp(r) + RETENTION
    BY <1>0, <2>1, FixedStep, ConstantsOK DEF Stamp, TypeOK, Call
  <2>3. RowOf(r) # NoRow /\ RowOf(r).attempt = r /\ RowOf(r).state = "completed"
    BY <1>0, <1>2, <2>2 DEF AcknowledgedIsReplayable
  <2>4. Key(r) \in Keys /\ now < RowOf(r).expires
    BY <1>0, <2>2, <2>3 DEF RowInv, RowOf, Key, TypeOK, Call
  <2>5. rows'[Key(r)] = rows[Key(r)]
    BY <2>3, <2>4, CompletedStep DEF RowOf
  <2> QED
    BY <2>2, <2>3, <2>5 DEF RowOf, Key
<1>3. CASE Complete(r) /\ OwnsGuard(r)
  <2>1. /\ call' = call
        /\ rows' = [rows EXCEPT ![Key(r)] = [rows[Key(r)] EXCEPT !.state = "completed"]]
    BY <1>3 DEF Complete, SetRow, RowOf
  <2>2. rows[Key(r)] \in Row /\ rows[Key(r)].attempt = r /\ Key(r) \in Keys
    BY <1>0, <1>3 DEF OwnsGuard, RowOf, Key, TypeOK, Call
  <2> DEFINE done == [rows[Key(r)] EXCEPT !.state = "completed"]
  <2>3. done \in Row /\ done.attempt = r /\ done.state = "completed"
    BY <2>2 DEF Row
  <2>4. RowOf(r)' = done
    BY <1>0, <2>1, <2>2 DEF RowOf, Key, TypeOK
  <2> QED
    BY <2>3, <2>4, ConstantsOK
<1> QED
  BY <1>1, <1>2, <1>3

LEMMA RejectionStep == Inv /\ [Next]_vars => RejectionFreesKey'
<1> SUFFICES ASSUME Inv, [Next]_vars, NEW r \in Requests, answer'[r] = "rejected"
             PROVE  RowOf(r)' = NoRow \/ RowOf(r)'.attempt # r
  BY DEF RejectionFreesKey
<1>0. TypeOK /\ PhaseInv /\ RowInv /\ RejectionFreesKey
  BY DEF Inv
<1> USE DEF RowOf
<1>k. Key(r)' = Key(r) /\ Key(r) \in Keys
  BY <1>0, FixedStep DEF Key, TypeOK, Call
<1>1. ASSUME NEW q \in Requests, Release(q) PROVE RowOf(r)' = NoRow \/ RowOf(r)'.attempt # r
  <2>1. rows' = rows \/ SetRow(q, NoRow)
    BY <1>1 DEF Release
  <2>2. CASE q = r
    BY <1>0, <1>k, <1>1, <2>2 DEF Release, SetRow, Goto, Respond, PhaseInv, TypeOK
  <2>3. CASE q # r
    <3>1. answer[r] = "rejected"
      BY <1>0, <1>1, <2>3 DEF Release, Goto, Respond, TypeOK
    <3> QED
      BY <1>0, <1>k, <2>1, <3>1 DEF RejectionFreesKey, SetRow, TypeOK
  <2> QED
    BY <2>2, <2>3
<1>2. ASSUME NEW q \in Requests, InsertGuard(q) PROVE RowOf(r)' = NoRow \/ RowOf(r)'.attempt # r
  <2>1. answer[r] = "rejected" /\ q # r
    BY <1>0, <1>2 DEF InsertGuard, Goto, Respond, PhaseInv, TypeOK
  <2>2. rows' = [rows EXCEPT ![Key(q)] = Guard(q)] /\ Guard(q).attempt = q
    BY <1>2 DEF InsertGuard, SetRow, Guard
  <2> QED
    BY <1>0, <1>k, <2>1, <2>2 DEF RejectionFreesKey, TypeOK
<1>3. ASSUME NEW q \in Requests, Complete(q) PROVE RowOf(r)' = NoRow \/ RowOf(r)'.attempt # r
  <2>1. answer[r] = "rejected" /\ q # r
    BY <1>0, <1>3 DEF Complete, Goto, Respond, PhaseInv, TypeOK
  <2>2. CASE OwnsGuard(q)
    <3>1. rows[Key(q)] \in Row /\ rows[Key(q)].attempt = q
      BY <1>0, <2>2 DEF OwnsGuard, Key, TypeOK, Call
    <3>2. [rows[Key(q)] EXCEPT !.state = "completed"].attempt = q
      BY <3>1 DEF Row
    <3>3. rows' = [rows EXCEPT ![Key(q)] = [rows[Key(q)] EXCEPT !.state = "completed"]]
      BY <1>3, <2>2 DEF Complete, SetRow
    <3> QED
      BY <1>0, <1>k, <2>1, <3>2, <3>3 DEF RejectionFreesKey, TypeOK
  <2>3. CASE ~ OwnsGuard(q)
    BY <1>0, <1>k, <1>3, <2>1, <2>3 DEF RejectionFreesKey, Complete
  <2> QED
    BY <2>2, <2>3
<1>4. ASSUME answer[r] = "rejected",
             \A k \in Keys : rows'[k] \in {rows[k], NoRow}
      PROVE  RowOf(r)' = NoRow \/ RowOf(r)'.attempt # r
  BY <1>0, <1>k, <1>4 DEF RejectionFreesKey
<1>5. ASSUME NEW q \in Requests, Quiet(q)
      PROVE  answer[r] = "rejected" /\ rows' = rows
  <2>1. rows' = rows
    BY <1>0, <1>5, QuietSteps
  <2>2. ASSUME SelectConflict(q) \/ SelectProcessing(q) PROVE answer[r] = "rejected"
    BY <1>0, <2>2 DEF SelectConflict, SelectProcessing, Verdict, Respond, TypeOK
  <2>3. ASSUME ~ (SelectConflict(q) \/ SelectProcessing(q)) PROVE answer[r] = "rejected"
    BY <1>0, <1>5, <2>3 DEF Quiet, Refuse, InsertConflicts, SelectMissing, SelectExpired,
       SelectCompleted, ClaimThrows, SettleThrows, ConfirmActive, ConfirmMissing, ConfirmThrows,
       NextAttempt, Goto, Respond, TypeOK
  <2> QED
    BY <2>1, <2>2, <2>3
<1>6. ASSUME NEW q \in Requests, Arrive(q) \/ DeleteExpired(q) \/ Handler(q) \/ Crash(q)
      PROVE  /\ answer[r] = "rejected"
             /\ \A k \in Keys : rows'[k] \in {rows[k], NoRow}
  BY <1>0, <1>6 DEF Arrive, DeleteExpired, Handler, HandlerRejects, HandlerFails,
     HandlerSucceeds, Crash, NextAttempt, Goto, Respond, SetRow, TypeOK
<1>7. ASSUME SweepStart \/ SweepRun \/ Tick \/ UNCHANGED vars
      PROVE  /\ answer[r] = "rejected"
             /\ \A k \in Keys : rows'[k] \in {rows[k], NoRow}
  BY <1>0, <1>7 DEF SweepStart, SweepRun, Tick, vars, TypeOK
<1> QED
  BY <1>1, <1>2, <1>3, <1>4, <1>5, <1>6, <1>7, NextCases

-------------------------------------------------------------------------------
(* The theorems.                                                           *)

LEMMA InvInit == Init => Inv
<1> SUFFICES ASSUME Init PROVE Inv
  OBVIOUS
<1>1. TypeOK
  BY TypeInit
<1>2. PhaseInv /\ RowInv /\ RejectionFreesKey /\ ReplayIsOfSameRequest
  BY DEF Init, PhaseInv, RowInv, RejectionFreesKey, ReplayIsOfSameRequest, RowOf
<1>3. ClockInv
  BY <1>1 DEF Init, ClockInv, Stamp
<1>4. AtMostOneEffect /\ EffectKeepsItsRow /\ AcknowledgedIsReplayable
  BY DEF Init, AtMostOneEffect, EffectKeepsItsRow, AcknowledgedIsReplayable, MayHaveEffect
<1> QED
  BY <1>1, <1>2, <1>3, <1>4 DEF Inv

LEMMA InvStep == Inv /\ [Next]_vars => Inv'
BY TypeStep, PhaseStep, RowStep, ClockStep, OneEffectStep, EffectRowStep, ReplayStep,
   AcknowledgedStep, RejectionStep
   DEF Inv

\* The inductive invariant holds: no interleaving of requests, failures, the
\* sweep and the clock leads out of it.
THEOREM Invariance == Spec => []Inv
<1>1. Init => Inv
  BY InvInit
<1>2. Inv /\ [Next]_vars => Inv'
  BY InvStep
<1> QED
  BY <1>1, <1>2, PTL DEF Spec

\* Type correctness.
THEOREM TypeCorrect == Spec => []TypeOK
<1>1. Inv => TypeOK
  BY DEF Inv
<1> QED
  BY <1>1, Invariance, PTL

\* No key's operation can take effect twice within the retention window.
THEOREM RetryNeverReruns == Spec => []AtMostOneEffect
<1>1. Inv => AtMostOneEffect
  BY DEF Inv
<1> QED
  BY <1>1, Invariance, PTL

\* A request that may have had an effect bars its key until the row expires.
THEOREM EffectIsGuarded == Spec => []EffectKeepsItsRow
<1>1. Inv => EffectKeepsItsRow
  BY DEF Inv
<1> QED
  BY <1>1, Invariance, PTL

\* Replays, acknowledgements and rejections tell clients the truth.
THEOREM AnswersAreTrue ==
  Spec => [](ReplayIsOfSameRequest /\ AcknowledgedIsReplayable /\ RejectionFreesKey)
<1>1. Inv => ReplayIsOfSameRequest /\ AcknowledgedIsReplayable /\ RejectionFreesKey
  BY DEF Inv
<1> QED
  BY <1>1, Invariance, PTL

\* A recorded response survives unchanged until it expires.
THEOREM RecordsAreStable == Spec => CompletedIsStable
<1> DEFINE Stable ==
      \A k \in Keys :
        rows[k] # NoRow /\ rows[k].state = "completed" /\ now < rows[k].expires
          => rows'[k] = rows[k]
<1>1. Inv /\ [Next]_vars => [Stable]_vars
  BY CompletedStep
<1> QED
  BY <1>1, Invariance, PTL DEF Spec, CompletedIsStable

-------------------------------------------------------------------------------
(* The middleware implements the contract.                                 *)

\* Its holders: every request that may have had an effect.
Holds == {[key |-> Key(r), by |-> r, until |-> Stamp(r) + RETENTION] :
            r \in {q \in Requests : MayHaveEffect(q)}}

LEMMA ContractInit == Init => Contract!Init
BY DEF Init, Contract!Init, MayHaveEffect

LEMMA ContractStep == Inv /\ Inv' /\ [Next]_vars => [Contract!Next]_(Contract!vars)
<1> SUFFICES ASSUME Inv, [Next]_vars PROVE Contract!Next \/ UNCHANGED <<now, Holds>>
  BY DEF Contract!vars, Holds
<1>0. TypeOK /\ PhaseInv /\ EffectKeepsItsRow
  BY DEF Inv
<1> USE DEF Holds, MayHaveEffect, Key, Stamp
<1>1. ASSUME NEW r \in Requests, Quiet(r) PROVE UNCHANGED <<now, Holds>>
  BY <1>0, <1>1, QuietSteps
<1>2. ASSUME NEW r \in Requests, Arrive(r) PROVE UNCHANGED <<now, Holds>>
  <2>1. /\ UNCHANGED <<now, ran>> /\ ran[r] = "no"
        /\ \A q \in Requests : q # r => call'[q] = call[q]
    BY <1>0, <1>2 DEF Arrive, PhaseInv, TypeOK
  <2> QED
    BY <1>0, <2>1
<1>3. ASSUME NEW r \in Requests, InsertGuard(r) PROVE Contract!Next \/ UNCHANGED <<now, Holds>>
  <2>1. CASE ran' = ran
    BY <1>3, <2>1 DEF InsertGuard
  <2>2. CASE ran' # ran
    <3> DEFINE h == [key |-> Key(r), by |-> r, until |-> Stamp(r) + RETENTION]
    <3>1. UNCHANGED <<now, call>> /\ ran' = [ran EXCEPT ![r] = "running"]
      BY <1>3, <2>2 DEF InsertGuard
    <3>2. Holds' = Holds \cup {h}
      BY <1>0, <3>1 DEF TypeOK
    <3>3. h \in Contract!Hold
      BY <1>0, ConstantsOK DEF Contract!Hold, TypeOK, Call
    <3>4. ~ Contract!Barred(h.key, r)
      <4>1. \A q \in Requests :
              Key(q) = Key(r) /\ MayHaveEffect(q) => ~ (now < Stamp(q) + RETENTION)
        BY <1>0, <1>3 DEF InsertGuard, EffectKeepsItsRow, RowOf
      <4> QED
        BY <4>1 DEF Contract!Barred
    <3>5. h \in Holds' /\ h.by = r
      BY <3>2
    <3> HIDE DEF h
    <3>6. Contract!Admit(r)
      BY <3>1, <3>2, <3>3, <3>4, <3>5 DEF Contract!Admit
    <3> QED
      BY <3>6 DEF Contract!Next
  <2> QED
    BY <2>1, <2>2
<1>4. ASSUME NEW r \in Requests, DeleteExpired(r) \/ Release(r) \/ Complete(r)
      PROVE  UNCHANGED <<now, Holds>>
  BY <1>4 DEF DeleteExpired, Release, Complete
<1>5. ASSUME NEW r \in Requests, HandlerRejects(r) PROVE Contract!Next
  <2> DEFINE h == [key |-> Key(r), by |-> r, until |-> Stamp(r) + RETENTION]
  <2>1. /\ UNCHANGED <<now, call>> /\ ran[r] = "running"
        /\ ran' = [ran EXCEPT ![r] = "rejected"]
    BY <1>0, <1>5 DEF HandlerRejects, PhaseInv
  <2>2. h \in Holds /\ h.by = r
    BY <2>1
  <2>3. Holds' = Holds \ {h}
    BY <1>0, <2>1 DEF TypeOK
  <2> HIDE DEF h
  <2>4. Contract!Withdraw(r)
    BY <2>1, <2>2, <2>3 DEF Contract!Withdraw
  <2> QED
    BY <2>4 DEF Contract!Next
<1>6. ASSUME NEW r \in Requests, HandlerFails(r) \/ HandlerSucceeds(r) \/ Crash(r)
      PROVE  UNCHANGED <<now, Holds>>
  <2>1. /\ UNCHANGED <<now, call>>
        /\ \A q \in Requests : MayHaveEffect(q)' <=> MayHaveEffect(q)
    BY <1>0, <1>6 DEF HandlerFails, HandlerSucceeds, Crash, PhaseInv, TypeOK
  <2> QED
    BY <2>1
<1>7. ASSUME SweepStart \/ SweepRun \/ UNCHANGED vars PROVE UNCHANGED <<now, Holds>>
  BY <1>7 DEF SweepStart, SweepRun, vars
<1>8. ASSUME Tick PROVE Contract!Next
  BY <1>8 DEF Tick, Contract!Next, Contract!Tick
<1> QED
  BY <1>1, <1>2, <1>3, <1>4, <1>5, <1>6, <1>7, <1>8, NextCases DEF Handler

\* Every behaviour of the middleware is one of the contract.
THEOREM Refinement == Spec => ImplementsContract
<1>1. Init => Contract!Init
  BY ContractInit
<1>2. Inv /\ Inv' /\ [Next]_vars => [Contract!Next]_(Contract!vars)
  BY ContractStep
<1> QED
  BY <1>1, <1>2, Invariance, PTL DEF Spec, ImplementsContract, Contract!Spec

\* A reply taken from the store is the answer to the same request: the same
\* key and body, acknowledged by another attempt that ran the handler
\* (middleware/idempotency.ts, the replay of a completed row).
THEOREM ReplaysAreOfTheSameRequest == Spec => []ReplayIsOfSameRequest
<1>1. Inv => ReplayIsOfSameRequest
  BY DEF Inv
<1> QED
  BY <1>1, Invariance, PTL

\* A handler's rejection leaves the key free for the corrected request
\* (middleware/idempotency.ts, the release of the row of a 4xx answer).
THEOREM RejectionsFreeTheKey == Spec => []RejectionFreesKey
<1>1. Inv => RejectionFreesKey
  BY DEF Inv
<1> QED
  BY <1>1, Invariance, PTL
===============================================================================
