-------------------------- MODULE FollowDigestsProofs --------------------------
(***************************************************************************)
(* The watermark of the follow digests, and the copies of a release, for   *)
(* any number of releases, runs, re-tries and failures, and any size of a  *)
(* mail.  What a run may skip is settled when it starts: a release that is *)
(* committed later is stamped after every time a run compares with, or it  *)
(* is one of the late ones.  What may still mail a release is counted: a   *)
(* claim on it is handed on, settled by a mail, or paid for by a failure.  *)
(***************************************************************************)
EXTENDS FollowDigests, FiniteSetTheorems, TLAPS

PartStates == [pc : {"none", "waiting", "list", "check", "gather", "send", "advance", "done",
                     "dropped"},
               after : 0..MaxTime, got : SUBSET Releases, tries : Nat]

\* What a mail has to reach: seen in time, and not crowded out.
Regular == visible \ (late \cup over)

\* Everything the reader should have had up to time t was mailed.
Covers(t) == \A i \in Regular : joined < stamp[i] /\ stamp[i] <= t => mailed[i] > 0

\* A part takes over what was covered at its start, and gathers the rest.
PartInv(p) ==
    /\ job[p].after <= now /\ Covers(job[p].after)
    /\ job[p].pc # "none" => p[1] <= now
    /\ job[p].pc = "advance" => Covers(p[1])
    /\ job[p].pc = "send" =>
         \A i \in Regular : joined < stamp[i] /\ stamp[i] <= p[1] =>
             mailed[i] > 0 \/ i \in job[p].got

DigestInv ==
    /\ TypeOK
    /\ \A i \in Releases : stamp[i] <= now + 1
    /\ \A i \in visible : stamp[i] > 0
    /\ due \subseteq (1..now) \X Cadences
    /\ joined <= now
    /\ mark <= now /\ Covers(mark)
    /\ \A p \in Parts : PartInv(p)

-----------------------------------------------------------------------------
(* What no step takes back.                                                *)

Grows ==
    /\ now <= now' /\ joined <= joined'
    /\ \A i \in Releases : mailed[i] <= mailed'[i]
    /\ \A i \in Regular' : \/ now < stamp'[i]
                           \/ i \in Regular /\ stamp'[i] = stamp[i]

LEMMA TypesUsed ==
  TypeOK => /\ MaxTime \in Nat /\ now \in Nat /\ mark \in Nat /\ joined \in Nat
            /\ stamp \in [Releases -> Nat] /\ mailed \in [Releases -> Nat]
            /\ Regular \subseteq Releases /\ job \in [Parts -> PartStates]
<1> SUFFICES ASSUME TypeOK
             PROVE  /\ MaxTime \in Nat /\ now \in Nat /\ mark \in Nat /\ joined \in Nat
                    /\ stamp \in [Releases -> Nat] /\ mailed \in [Releases -> Nat]
                    /\ Regular \subseteq Releases /\ job \in [Parts -> PartStates]
  OBVIOUS
<1>1. MaxTime \in Nat
  BY DigestAssumption
<1>2. now \in Nat /\ mark \in Nat /\ joined \in Nat
  BY <1>1 DEF TypeOK
<1>3. stamp \in [Releases -> Nat]
  BY <1>1 DEF TypeOK
<1>4. mailed \in [Releases -> Nat] /\ Regular \subseteq Releases
  BY DEF TypeOK, Regular
<1>5. job \in [Parts -> PartStates]
  BY DEF TypeOK, PartStates
<1> QED
  BY <1>1, <1>2, <1>3, <1>4, <1>5

LEMMA CoversKept ==
  ASSUME TypeOK, TypeOK', Grows, NEW t \in Nat, t <= now, Covers(t)
  PROVE  \A i \in Regular' : joined' < stamp'[i] /\ stamp'[i] <= t => mailed'[i] > 0
<1>1. /\ now \in Nat /\ joined \in Nat
      /\ stamp \in [Releases -> Nat] /\ mailed \in [Releases -> Nat]
  BY TypesUsed
<1>2. /\ joined' \in Nat /\ stamp' \in [Releases -> Nat] /\ mailed' \in [Releases -> Nat]
      /\ Regular' \subseteq Releases
  <2>1. MaxTime \in Nat
    BY DigestAssumption
  <2> QED
    BY <2>1 DEF TypeOK, Regular
<1> SUFFICES ASSUME NEW i \in Regular', joined' < stamp'[i], stamp'[i] <= t
             PROVE  mailed'[i] > 0
  OBVIOUS
<1>3. i \in Regular /\ stamp'[i] = stamp[i] /\ joined <= joined' /\ mailed[i] <= mailed'[i]
  BY <1>1, <1>2 DEF Grows
<1>4. joined < stamp[i] /\ stamp[i] <= t
  BY <1>1, <1>2, <1>3
<1>5. mailed[i] > 0
  BY <1>3, <1>4 DEF Covers
<1> QED
  BY <1>1, <1>2, <1>3, <1>5

\* A part whose state is left alone keeps its invariant.
LEMMA PartKept ==
  ASSUME DigestInv, TypeOK', Grows, NEW p \in Parts, job'[p] = job[p]
  PROVE  PartInv(p)'
<1>1. TypeOK /\ PartInv(p)
  BY DEF DigestInv
<1>2. /\ now \in Nat /\ now' \in Nat /\ joined \in Nat /\ joined' \in Nat
      /\ stamp \in [Releases -> Nat] /\ mailed \in [Releases -> Nat]
      /\ stamp' \in [Releases -> Nat] /\ mailed' \in [Releases -> Nat]
      /\ Regular' \subseteq Releases
  <2>1. MaxTime \in Nat
    BY DigestAssumption
  <2>2. now' \in Nat /\ joined' \in Nat
    BY <2>1 DEF TypeOK
  <2>3. stamp' \in [Releases -> Nat] /\ mailed' \in [Releases -> Nat] /\ Regular' \subseteq Releases
    BY <2>1 DEF TypeOK, Regular
  <2> QED
    BY <1>1, <2>2, <2>3, TypesUsed
<1>3. job[p] \in PartStates /\ p[1] \in Nat
  BY <1>1, TypesUsed DEF Parts
<1>4. job[p].after \in Nat
  BY <1>3, DigestAssumption DEF PartStates
<1>5. job'[p].after <= now' /\ Covers(job[p].after)'
  <2>1. job[p].after <= now /\ Covers(job[p].after) /\ now <= now'
    BY <1>1 DEF PartInv, Grows
  <2>2. \A i \in Regular' : joined' < stamp'[i] /\ stamp'[i] <= job[p].after => mailed'[i] > 0
    BY <1>1, <1>4, <2>1, CoversKept
  <2> QED
    BY <1>2, <1>4, <2>1, <2>2 DEF Covers
<1>6. job'[p].pc # "none" => p[1] <= now'
  BY <1>1, <1>2, <1>3 DEF PartInv, Grows
<1>7. job'[p].pc = "advance" => Covers(p[1])'
  <2> SUFFICES ASSUME job[p].pc = "advance" PROVE Covers(p[1])'
    OBVIOUS
  <2>1. p[1] <= now /\ Covers(p[1])
    BY <1>1 DEF PartInv
  <2>2. \A i \in Regular' : joined' < stamp'[i] /\ stamp'[i] <= p[1] => mailed'[i] > 0
    BY <1>1, <1>3, <2>1, CoversKept
  <2> QED
    BY <2>2 DEF Covers
<1>8. job'[p].pc = "send" =>
        \A i \in Regular' : joined' < stamp'[i] /\ stamp'[i] <= p[1] =>
            mailed'[i] > 0 \/ i \in job'[p].got
  <2> SUFFICES ASSUME job[p].pc = "send", NEW i \in Regular', joined' < stamp'[i], stamp'[i] <= p[1]
               PROVE  mailed'[i] > 0 \/ i \in job[p].got
    OBVIOUS
  <2>1. p[1] <= now
    BY <1>1 DEF PartInv
  <2>2. i \in Regular /\ stamp'[i] = stamp[i] /\ joined <= joined' /\ mailed[i] <= mailed'[i]
    BY <1>2, <1>3, <2>1 DEF Grows
  <2>3. joined < stamp[i] /\ stamp[i] <= p[1]
    BY <1>2, <1>3, <2>2
  <2>4. mailed[i] > 0 \/ i \in job[p].got
    BY <1>1, <2>2, <2>3 DEF PartInv
  <2> QED
    BY <1>2, <2>2, <2>4
<1> QED
  BY <1>5, <1>6, <1>7, <1>8 DEF PartInv

-----------------------------------------------------------------------------
(* Steps that leave the time, the ingestion and the reader's cadence alone. *)

LEMMA Frame ==
  ASSUME DigestInv, TypeOK', Grows,
         \A i \in Releases : stamp'[i] <= now' + 1, \A i \in visible' : stamp'[i] > 0,
         due' \subseteq (1..now') \X Cadences, joined' <= now', mark' <= now', Covers(mark)',
         \A p \in Parts : job'[p] = job[p] \/ PartInv(p)'
  PROVE  DigestInv'
<1>1. \A p \in Parts : PartInv(p)'
  BY PartKept
<1> QED
  BY <1>1 DEF DigestInv

LEMMA SameTime ==
  ASSUME DigestInv, UNCHANGED <<now, cadence, joined, stamp, visible, late>>,
         due' \subseteq due, upsets' \in Nat, mailed' \in [Releases -> Nat],
         \A i \in Releases : mailed[i] <= mailed'[i],
         over \subseteq over', over' \subseteq Releases, mark' \in 0..MaxTime,
         job' \in [Parts -> PartStates]
  PROVE  TypeOK' /\ Grows
<1>1. TypeOK'
  BY DEF DigestInv, TypeOK, PartStates
<1>2. now \in Nat /\ joined \in Nat
  BY TypesUsed DEF DigestInv
<1>3. Regular' \subseteq Regular
  BY DEF Regular
<1> QED
  BY <1>1, <1>2, <1>3 DEF Grows

LEMMA JobStep ==
  ASSUME DigestInv, UNCHANGED <<now, cadence, joined, stamp, visible, late>>,
         due' \subseteq due, upsets' \in Nat, mailed' \in [Releases -> Nat],
         \A i \in Releases : mailed[i] <= mailed'[i],
         over \subseteq over', over' \subseteq Releases, mark' \in 0..MaxTime,
         job' \in [Parts -> PartStates],
         mark' = mark \/ (mark' <= now /\ Covers(mark')),
         \A p \in Parts : job'[p] = job[p] \/ PartInv(p)'
  PROVE  DigestInv'
<1>1. TypeOK' /\ Grows
  BY SameTime
<1>2. mark' <= now' /\ mark' \in Nat /\ now' = now /\ Covers(mark')
  BY DigestAssumption DEF DigestInv
<1>3. Covers(mark)'
  <2>1. \A i \in Regular' : joined' < stamp'[i] /\ stamp'[i] <= mark' => mailed'[i] > 0
    <3>1. TypeOK
      BY DEF DigestInv
    <3> QED
      BY <1>1, <1>2, <3>1, CoversKept
  <2> QED
    BY <2>1 DEF Covers
<1>4. /\ \A i \in Releases : stamp'[i] <= now' + 1
      /\ \A i \in visible' : stamp'[i] > 0
      /\ due' \subseteq (1..now') \X Cadences /\ joined' <= now'
  BY DEF DigestInv
<1> QED
  BY <1>1, <1>2, <1>3, <1>4, Frame

\* A part that neither sends nor moves the watermark.
LEMMA QuietPart ==
  ASSUME DigestInv, TypeOK', Grows, NEW p \in Parts, NEW j \in PartStates, job'[p] = j,
         j.pc \notin {"send", "advance"}, j.after <= now, Covers(j.after),
         j.pc # "none" => p[1] <= now
  PROVE  PartInv(p)'
<1>1. j.after \in Nat /\ p[1] \in Nat
  BY DigestAssumption DEF PartStates, Parts
<1>2. TypeOK
  BY DEF DigestInv
<1>3. now \in Nat /\ now' \in Nat
  <2>1. MaxTime \in Nat
    BY DigestAssumption
  <2> QED
    BY <1>2, <2>1 DEF TypeOK
<1>4. \A i \in Regular' : joined' < stamp'[i] /\ stamp'[i] <= j.after => mailed'[i] > 0
  BY <1>1, <1>2, CoversKept
<1>5. Covers(job[p].after)'
  BY <1>4 DEF Covers
<1>6. job'[p].after <= now' /\ (job'[p].pc # "none" => p[1] <= now')
  BY <1>1, <1>3 DEF Grows
<1> QED
  BY <1>5, <1>6 DEF PartInv

\* At time 0 there is nothing to be covered.
LEMMA NothingBefore == TypeOK => Covers(0)
<1> SUFFICES ASSUME TypeOK PROVE \A i \in Regular : ~(joined < stamp[i] /\ stamp[i] <= 0)
  BY DEF Covers
<1> QED
  BY TypesUsed

LEMMA PartTypes ==
  ASSUME DigestInv, NEW p \in Parts
  PROVE  /\ TypeOK /\ job \in [Parts -> PartStates] /\ job[p] \in PartStates /\ PartInv(p)
         /\ p[1] \in Nat /\ job[p].after \in 0..MaxTime /\ MaxTime \in Nat
         /\ now \in Nat /\ mark \in 0..MaxTime /\ mark <= now /\ Covers(mark)
         /\ mailed \in [Releases -> Nat] /\ over \subseteq Releases /\ upsets \in Nat
         /\ \A i \in Releases : mailed[i] <= mailed[i]
<1>1. TypeOK /\ PartInv(p) /\ mark <= now /\ Covers(mark)
  BY DEF DigestInv
<1>2. job \in [Parts -> PartStates] /\ mailed \in [Releases -> Nat] /\ now \in Nat
  BY <1>1, TypesUsed
<1>3. job[p] \in PartStates /\ p[1] \in Nat /\ MaxTime \in Nat
  BY <1>2, DigestAssumption DEF Parts
<1>4. job[p].after \in 0..MaxTime
  BY <1>3 DEF PartStates
<1>5. mark \in 0..MaxTime /\ over \subseteq Releases /\ upsets \in Nat
  BY <1>1 DEF TypeOK
<1>6. \A i \in Releases : mailed[i] <= mailed[i]
  BY <1>2
<1> QED
  BY <1>1, <1>2, <1>3, <1>4, <1>5, <1>6

\* One part goes on, quietly.
LEMMA QuietStep ==
  ASSUME DigestInv, NEW p \in Parts, NEW j \in PartStates, job' = [job EXCEPT ![p] = j],
         j.pc \notin {"send", "advance"}, j.after <= now, Covers(j.after),
         j.pc # "none" => p[1] <= now,
         UNCHANGED <<now, cadence, joined, stamp, visible, late>>,
         due' \subseteq due, upsets' \in Nat, mailed' \in [Releases -> Nat],
         \A i \in Releases : mailed[i] <= mailed'[i],
         over \subseteq over', over' \subseteq Releases, mark' \in 0..MaxTime,
         mark' = mark \/ (mark' <= now /\ Covers(mark'))
  PROVE  DigestInv'
<1>1. job \in [Parts -> PartStates]
  BY PartTypes
<1>2. /\ job' \in [Parts -> PartStates] /\ job'[p] = j
      /\ \A q \in Parts : q # p => job'[q] = job[q]
  BY <1>1
<1>3. TypeOK' /\ Grows
  BY <1>2, SameTime
<1>4. PartInv(p)'
  BY <1>2, <1>3, QuietPart
<1>5. \A q \in Parts : job'[q] = job[q] \/ PartInv(q)'
  BY <1>2, <1>4
<1> QED
  BY <1>2, <1>5, JobStep

-----------------------------------------------------------------------------
(* The actions.                                                            *)

LEMMA InitDigests == Init => DigestInv
<1> SUFFICES ASSUME Init PROVE DigestInv
  OBVIOUS
<1>1. /\ now = 0 /\ due = {} /\ mark = 0 /\ joined = 0 /\ cadence \in Cadences \cup {"off"}
      /\ stamp = [i \in Releases |-> 0] /\ visible = {} /\ late = {} /\ over = {}
      /\ job = [p \in Parts |-> NoPart] /\ mailed = [i \in Releases |-> 0] /\ upsets = 0
      /\ MaxTime \in Nat
  BY DigestAssumption DEF Init
<1>2. NoPart \in PartStates /\ NoPart.pc = "none" /\ NoPart.after = 0
  BY <1>1 DEF NoPart, PartStates
<1>3. job \in [Parts -> PartStates] /\ \A p \in Parts : job[p] = NoPart
  BY <1>1, <1>2
<1>4. TypeOK
  BY <1>1, <1>3 DEF TypeOK, PartStates
<1>5. \A t \in Nat : Covers(t)
  BY <1>1 DEF Covers, Regular
<1>6. \A p \in Parts : PartInv(p)
  BY <1>1, <1>2, <1>3, <1>5 DEF PartInv
<1>7. (\A i \in Releases : stamp[i] <= now + 1) /\ \A i \in visible : stamp[i] > 0
  BY <1>1
<1>8. due \subseteq (1..now) \X Cadences /\ joined <= now /\ mark <= now
  BY <1>1
<1>9. Covers(mark)
  BY <1>1 DEF Covers, Regular
<1> QED
  BY <1>4, <1>6, <1>7, <1>8, <1>9 DEF DigestInv

LEMMA StampStep == ASSUME DigestInv, NEW i \in Releases, Stamp(i) PROVE DigestInv'
<1>1. /\ TypeOK /\ MaxTime \in Nat /\ now \in 0..MaxTime /\ stamp[i] = 0
      /\ stamp \in [Releases -> 0..(MaxTime + 1)] /\ mailed \in [Releases -> Nat]
      /\ stamp' = [stamp EXCEPT ![i] = now + 1] /\ joined \in 0..MaxTime
      /\ UNCHANGED <<now, due, reader, visible, late, job, mailed, over, upsets>>
  BY DigestAssumption DEF DigestInv, TypeOK, Stamp
<1>2. stamp' \in [Releases -> 0..(MaxTime + 1)]
  BY ONLY <1>1
<1>3. TypeOK'
  BY <1>1, <1>2 DEF TypeOK, reader
<1>4. i \notin visible
  BY <1>1 DEF DigestInv
<1>5. \A k \in Regular' : k \in Regular /\ stamp'[k] = stamp[k]
  BY <1>1, <1>4 DEF Regular, TypeOK
<1>6. Grows
  BY <1>1, <1>5 DEF Grows, reader
<1>7. \A k \in Releases : stamp'[k] <= now' + 1
  BY <1>1 DEF DigestInv
<1>8. \A k \in visible' : stamp'[k] > 0
  BY <1>1, <1>4 DEF DigestInv, TypeOK
<1>9. mark' <= now' /\ joined' <= now' /\ due' \subseteq (1..now') \X Cadences
  BY <1>1 DEF DigestInv, reader
<1>10. Covers(mark)'
  BY <1>1, <1>5 DEF DigestInv, Covers, reader
<1> QED
  BY <1>1, <1>3, <1>6, <1>7, <1>8, <1>9, <1>10, Frame

LEMMA CommitStep == ASSUME DigestInv, NEW i \in Releases, Commit(i) PROVE DigestInv'
<1>1. /\ TypeOK /\ MaxTime \in Nat /\ now \in 0..MaxTime /\ stamp[i] # 0
      /\ stamp \in [Releases -> 0..(MaxTime + 1)] /\ mailed \in [Releases -> Nat]
      /\ visible' = visible \cup {i} /\ joined \in 0..MaxTime /\ mark \in 0..MaxTime
      /\ late' = IF stamp[i] <= now THEN late \cup {i} ELSE late
      /\ UNCHANGED <<now, due, reader, stamp, job, mailed, over, upsets>>
  BY DigestAssumption DEF DigestInv, TypeOK, Commit
<1>2. TypeOK'
  <2>1. visible' \subseteq Releases /\ late' \subseteq Releases
    BY <1>1 DEF TypeOK
  <2> QED
    BY <1>1, <2>1 DEF TypeOK, reader
<1>3. \A k \in Regular' : now < stamp[k] \/ k \in Regular
  BY <1>1 DEF Regular
<1>4. Grows
  BY <1>1, <1>3 DEF Grows, reader
<1>5. \A k \in visible' : stamp'[k] > 0
  BY <1>1 DEF DigestInv
<1>6. /\ \A k \in Releases : stamp'[k] <= now' + 1
      /\ mark' <= now' /\ joined' <= now' /\ due' \subseteq (1..now') \X Cadences
  BY <1>1 DEF DigestInv, reader
<1>7. Covers(mark)'
  <2>1. \A k \in Regular' : joined' < stamp'[k] /\ stamp'[k] <= mark => mailed'[k] > 0
    BY <1>1, <1>2, <1>4, CoversKept DEF DigestInv
  <2> QED
    BY <1>1, <2>1 DEF Covers, reader
<1> QED
  BY <1>1, <1>2, <1>4, <1>5, <1>6, <1>7, Frame

\* Time moves on, by a schedule or by the reader's switch.
LEMMA SwitchStep ==
  ASSUME DigestInv, NEW c \in Cadences \cup {"off"}, Switch(c)
  PROVE  DigestInv'
<1>1. /\ TypeOK /\ MaxTime \in Nat /\ now \in 0..MaxTime /\ mailed \in [Releases -> Nat]
      /\ stamp \in [Releases -> 0..(MaxTime + 1)] /\ joined \in 0..MaxTime /\ joined <= now
      /\ mark \in 0..MaxTime /\ mark <= now /\ Covers(mark) /\ Regular \subseteq Releases
      /\ cadence' = c /\ upsets' \in Nat
      /\ UNCHANGED <<due, stamp, visible, late, job, mailed, over>>
      /\ \/ now' = now + 1 /\ now < MaxTime /\ joined' = now + 1 /\ mark' = now + 1
         \/ UNCHANGED <<now, joined, mark>>
  BY DigestAssumption DEF DigestInv, TypeOK, Regular, Switch, Upset, ingest
<1>2. /\ now' \in 0..MaxTime /\ joined' \in 0..MaxTime /\ mark' \in 0..MaxTime
      /\ now <= now' /\ joined <= joined' /\ mark' <= now' /\ joined' <= now'
  BY ONLY <1>1
<1>3. TypeOK'
  BY <1>1, <1>2 DEF TypeOK
<1>4. Regular' = Regular
  BY <1>1 DEF Regular
<1>5. Grows
  <2>1. \A k \in Releases : mailed[k] <= mailed'[k]
    BY ONLY <1>1
  <2> QED
    BY ONLY <1>1, <1>2, <1>4, <2>1 DEF Grows
<1>6. due' \subseteq (1..now') \X Cadences
  <2>1. due \subseteq (1..now) \X Cadences
    BY DEF DigestInv
  <2>2. (1..now) \subseteq 1..now'
    BY ONLY <1>1, <1>2
  <2> QED
    BY <1>1, <2>1, <2>2
<1>7. \A k \in Releases : stamp'[k] <= now' + 1
  <2>1. \A k \in Releases : stamp[k] <= now + 1 /\ stamp[k] \in Nat
    BY <1>1 DEF DigestInv
  <2>2. stamp' = stamp
    BY ONLY <1>1
  <2> QED
    BY ONLY <1>1, <1>2, <2>1, <2>2
<1>8. \A k \in visible' : stamp'[k] > 0
  BY <1>1 DEF DigestInv
<1>9. Covers(mark)'
  <2>1. CASE now' = now + 1 /\ joined' = now + 1 /\ mark' = now + 1
    BY <1>1, <1>4, <2>1 DEF Covers
  <2>2. CASE UNCHANGED <<now, joined, mark>>
    BY <1>1, <1>4, <2>2 DEF Covers
  <2> QED
    BY <1>1, <2>1, <2>2
<1> QED
  BY <1>1, <1>2, <1>3, <1>5, <1>6, <1>7, <1>8, <1>9, Frame

LEMMA ScheduleStep == ASSUME DigestInv, Schedule PROVE DigestInv'
<1>1. /\ TypeOK /\ MaxTime \in Nat /\ now \in 0..MaxTime /\ mailed \in [Releases -> Nat]
      /\ stamp \in [Releases -> 0..(MaxTime + 1)] /\ joined \in 0..MaxTime /\ joined <= now
      /\ mark \in 0..MaxTime /\ mark <= now /\ Covers(mark) /\ Regular \subseteq Releases
      /\ now < MaxTime /\ now' = now + 1 /\ upsets' \in Nat
      /\ UNCHANGED <<reader, stamp, visible, late, job, mailed, over>>
  BY DigestAssumption DEF DigestInv, TypeOK, Regular, Schedule, Upset, ingest
<1>2. now' \in 1..MaxTime /\ UNCHANGED <<cadence, mark, joined>>
  BY <1>1 DEF reader
<1>3. due' \subseteq {now'} \X Cadences
  <2>1. PICK cs \in {{"daily"}, Cadences} : due' = {now + 1} \X cs
    BY DEF Schedule
  <2>2. cs \subseteq Cadences
    BY <2>1 DEF Cadences
  <2> QED
    BY <1>1, <2>1, <2>2
<1>4. due' \subseteq (1..now') \X Cadences /\ due' \subseteq (1..MaxTime) \X Cadences
  <2>1. now' \in 1..now'
    BY ONLY <1>2, <1>1
  <2> QED
    BY ONLY <1>2, <1>3, <2>1
<1>5. TypeOK'
  <2>1. now' \in 0..MaxTime
    BY ONLY <1>1
  <2> QED
    BY <1>1, <1>2, <1>4, <2>1 DEF TypeOK
<1>6. Regular' = Regular
  BY <1>1 DEF Regular
<1>7. Grows
  <2>1. \A k \in Releases : mailed[k] <= mailed'[k]
    BY ONLY <1>1
  <2>2. now <= now' /\ joined <= joined'
    BY ONLY <1>1, <1>2
  <2> QED
    BY ONLY <1>1, <1>6, <2>1, <2>2 DEF Grows
<1>8. \A k \in Releases : stamp'[k] <= now' + 1
  <2>1. \A k \in Releases : stamp[k] <= now + 1 /\ stamp[k] \in Nat
    BY <1>1 DEF DigestInv
  <2>2. stamp' = stamp
    BY ONLY <1>1
  <2> QED
    BY ONLY <1>1, <2>1, <2>2
<1>9. (\A k \in visible' : stamp'[k] > 0) /\ joined' <= now' /\ mark' <= now'
  BY <1>1, <1>2 DEF DigestInv
<1>10. Covers(mark)'
  BY <1>1, <1>2, <1>6 DEF Covers
<1> QED
  BY <1>1, <1>4, <1>5, <1>7, <1>8, <1>9, <1>10, Frame

-----------------------------------------------------------------------------
(* The crons list the recipients.                                          *)

LEMMA FreshParts ==
  ASSUME DigestInv
  PROVE  /\ NoPart \in PartStates /\ Done \in PartStates /\ Inline \in PartStates
         /\ Queued \in PartStates
         /\ \A j \in {NoPart, Done, Inline, Queued} :
              /\ j.pc \notin {"send", "advance"} /\ j.after <= now /\ Covers(j.after)
<1>1. /\ MaxTime \in Nat /\ now \in Nat /\ mark \in 0..MaxTime /\ mark <= now /\ Covers(mark)
      /\ Covers(0)
  BY TypesUsed, NothingBefore DEF DigestInv, TypeOK
<1>2. NoPart \in PartStates /\ NoPart.pc = "none" /\ NoPart.after = 0
  BY <1>1 DEF NoPart, PartStates
<1>3. Done \in PartStates /\ Done.pc = "done" /\ Done.after = 0
  BY <1>2 DEF Done, NoPart, PartStates
<1>4. Inline \in PartStates /\ Inline.pc = "list" /\ Inline.after = 0
  BY <1>2 DEF Inline, NoPart, PartStates
<1>5. Queued \in PartStates /\ Queued.pc = "waiting" /\ Queued.after = mark
  BY <1>1, <1>2 DEF Queued, NoPart, PartStates
<1> QED
  BY <1>1, <1>2, <1>3, <1>4, <1>5

LEMMA DueParts ==
  ASSUME DigestInv, NEW r \in due
  PROVE  /\ <<r[1], r[2], "queue">> \in Parts /\ <<r[1], r[2], "inline">> \in Parts
         /\ r[1] <= now /\ due \ {r} \subseteq due
<1>1. r \in (1..MaxTime) \X Cadences /\ r \in (1..now) \X Cadences
  BY DEF DigestInv, TypeOK
<1>2. now \in Nat
  BY TypesUsed DEF DigestInv
<1> QED
  BY <1>1, <1>2 DEF Parts, Via

LEMMA ListStep == ASSUME DigestInv, NEW r \in due, List(r) PROVE DigestInv'
<1> DEFINE p == <<r[1], r[2], "queue">>
<1>1. p \in Parts /\ p[1] <= now /\ p[1] = r[1]
  BY DueParts
<1>2. /\ due' \subseteq due /\ UNCHANGED <<now, cadence, joined, stamp, visible, late, mark>>
      /\ UNCHANGED <<mailed, over, upsets>>
      /\ job' = job \/ job' = [job EXCEPT ![p] = Queued]
  BY DEF List, reader, ingest
<1> HIDE DEF p
<1>3. /\ mailed' \in [Releases -> Nat] /\ upsets' \in Nat /\ over' \subseteq Releases
      /\ over \subseteq over' /\ mark' \in 0..MaxTime /\ \A i \in Releases : mailed[i] <= mailed'[i]
  BY <1>1, <1>2, PartTypes
<1>4. CASE job' = job
  <2>1. job' \in [Parts -> PartStates]
    BY <1>1, <1>4, PartTypes
  <2>2. \A q \in Parts : job'[q] = job[q] \/ PartInv(q)'
    BY <1>4
  <2> QED
    BY <1>2, <1>3, <2>1, <2>2, JobStep
<1>5. CASE job' = [job EXCEPT ![p] = Queued]
  <2>1. Queued \in PartStates /\ Queued.pc \notin {"send", "advance"} /\ Queued.after <= now
        /\ Covers(Queued.after)
    BY FreshParts
  <2> QED
    BY <1>1, <1>2, <1>3, <1>5, <2>1, QuietStep
<1> QED
  BY <1>2, <1>4, <1>5

LEMMA ListThrowsStep == ASSUME DigestInv, NEW r \in due, ListThrows(r) PROVE DigestInv'
<1> DEFINE p == <<r[1], r[2], "queue">>
           q == <<r[1], r[2], "inline">>
<1>1. p \in Parts /\ q \in Parts /\ p # q /\ p[1] <= now /\ q[1] <= now
  BY DueParts
<1>2. PICK j \in {NoPart, Queued} :
        /\ due' \subseteq due /\ UNCHANGED <<now, cadence, joined, stamp, visible, late, mark>>
        /\ UNCHANGED <<mailed, over>> /\ upsets' = upsets + 1
        /\ job' = [job EXCEPT ![p] = j, ![q] = Inline]
  BY DEF ListThrows, Upset, reader, ingest
<1> HIDE DEF p, q
<1>3. /\ mailed' \in [Releases -> Nat] /\ upsets' \in Nat /\ over' \subseteq Releases
      /\ over \subseteq over' /\ mark' \in 0..MaxTime /\ \A i \in Releases : mailed[i] <= mailed'[i]
  BY <1>1, <1>2, PartTypes
<1>4. /\ j \in PartStates /\ j.pc \notin {"send", "advance"} /\ j.after <= now /\ Covers(j.after)
      /\ Inline \in PartStates /\ Inline.pc \notin {"send", "advance"} /\ Inline.after <= now
      /\ Covers(Inline.after)
  BY FreshParts
<1>5. /\ job' \in [Parts -> PartStates] /\ job'[p] = j /\ job'[q] = Inline
      /\ \A x \in Parts : x \notin {p, q} => job'[x] = job[x]
  <2>1. job \in [Parts -> PartStates]
    BY <1>1, PartTypes
  <2> QED
    BY ONLY <1>1, <1>2, <1>4, <2>1
<1>6. TypeOK' /\ Grows
  BY <1>2, <1>3, <1>5, SameTime
<1>7. PartInv(p)'
  BY <1>1, <1>4, <1>5, <1>6, QuietPart
<1>8. PartInv(q)'
  BY <1>1, <1>4, <1>5, <1>6, QuietPart
<1>9. \A x \in Parts : job'[x] = job[x] \/ PartInv(x)'
  BY <1>5, <1>7, <1>8
<1> QED
  BY <1>2, <1>3, <1>5, <1>9, JobStep

-----------------------------------------------------------------------------
(* The consumer and the inline loop.                                       *)

\* A part that is listed, taken, checked, done or dropped.
LEMMA ReadStep ==
  ASSUME DigestInv, NEW p \in Parts, ListInline(p) \/ Take(p) \/ Check(p)
  PROVE  DigestInv'
<1>1. /\ job[p] \in PartStates /\ job[p].after <= now /\ Covers(job[p].after)
      /\ mark \in 0..MaxTime /\ mark <= now /\ Covers(mark)
      /\ job[p].pc # "none" => p[1] <= now
      /\ Done \in PartStates /\ Done.pc = "done" /\ Done.after <= now /\ Covers(Done.after)
  <2>1. PartInv(p) /\ job[p] \in PartStates /\ mark \in 0..MaxTime /\ mark <= now /\ Covers(mark)
    BY PartTypes
  <2>2. Done \in PartStates /\ Done.after <= now /\ Covers(Done.after)
    BY FreshParts
  <2> QED
    BY <2>1, <2>2 DEF PartInv, Done, NoPart
<1>2. PICK j \in PartStates :
        /\ job' = [job EXCEPT ![p] = j] /\ j.pc \in {"done", "check", "gather"}
        /\ j.after <= now /\ Covers(j.after)
  <2>1. CASE ListInline(p)
    <3>1. CASE cadence = p[2]
      <4> DEFINE j == [job[p] EXCEPT !.pc = "gather", !.after = mark]
      <4>1. j \in PartStates /\ j.pc = "gather" /\ j.after = mark
        BY <1>1 DEF PartStates
      <4>2. job' = [job EXCEPT ![p] = j]
        BY <2>1, <3>1 DEF ListInline
      <4> QED
        BY <1>1, <4>1, <4>2
    <3>2. CASE cadence # p[2]
      BY <1>1, <2>1, <3>2 DEF ListInline
    <3> QED
      BY <3>1, <3>2
  <2>2. CASE Take(p)
    <3> DEFINE j == [job[p] EXCEPT !.pc = "check", !.tries = @ + 1]
    <3>1. j \in PartStates /\ j.pc = "check" /\ j.after = job[p].after
      <4>1. job[p].tries + 1 \in Nat
        BY <1>1 DEF PartStates
      <4> QED
        BY <1>1, <4>1 DEF PartStates
    <3>2. job' = [job EXCEPT ![p] = j]
      BY <2>2, PartTypes DEF Take
    <3> QED
      BY <1>1, <3>1, <3>2
  <2>3. CASE Check(p)
    <3> DEFINE j == [job[p] EXCEPT !.pc = "gather"]
    <3>1. j \in PartStates /\ j.pc = "gather" /\ j.after = job[p].after
      BY <1>1 DEF PartStates
    <3>2. job' = [job EXCEPT ![p] = j] \/ job' = [job EXCEPT ![p] = Done]
      BY <2>3 DEF Check
    <3> QED
      BY <1>1, <3>1, <3>2
  <2> QED
    BY <2>1, <2>2, <2>3
<1>3. /\ job[p].pc # "none" /\ UNCHANGED <<now, cadence, joined, stamp, visible, late, mark>>
      /\ UNCHANGED <<due, mailed, over, upsets>>
  BY DEF ListInline, Take, Check, reader, ingest
<1>4. /\ mailed' \in [Releases -> Nat] /\ upsets' \in Nat /\ over' \subseteq Releases
      /\ over \subseteq over' /\ mark' \in 0..MaxTime /\ \A i \in Releases : mailed[i] <= mailed'[i]
      /\ due' \subseteq due
  BY <1>3, PartTypes
<1>5. j.pc \notin {"send", "advance"} /\ (j.pc # "none" => p[1] <= now)
  BY <1>1, <1>2, <1>3
<1> QED
  BY <1>2, <1>3, <1>4, <1>5, QuietStep

LEMMA FailedState ==
  ASSUME DigestInv, NEW p \in Parts, job[p].pc # "none", job' = AfterFailure(p)
  PROVE  \E j \in PartStates :
           /\ job' = [job EXCEPT ![p] = j] /\ j.pc \in {"waiting", "dropped"}
           /\ j.after <= now /\ Covers(j.after) /\ p[1] <= now
<1>1. /\ job \in [Parts -> PartStates] /\ job[p] \in PartStates
      /\ job[p].after <= now /\ Covers(job[p].after) /\ p[1] <= now
  <2>1. PartInv(p) /\ job \in [Parts -> PartStates] /\ job[p] \in PartStates
    BY PartTypes
  <2> QED
    BY <2>1 DEF PartInv
<1>2. CASE p[3] = "queue" /\ job[p].tries <= Retries
  <2> DEFINE j == [job[p] EXCEPT !.pc = "waiting", !.got = {}]
  <2>1. j \in PartStates /\ j.pc = "waiting" /\ j.after = job[p].after
    BY <1>1 DEF PartStates
  <2>2. job' = [job EXCEPT ![p] = j]
    BY <1>2 DEF AfterFailure
  <2> QED
    BY <1>1, <2>1, <2>2
<1>3. CASE ~(p[3] = "queue" /\ job[p].tries <= Retries)
  <2> DEFINE j == [NoPart EXCEPT !.pc = "dropped"]
  <2>1. j \in PartStates /\ j.pc = "dropped" /\ j.after = NoPart.after
    BY FreshParts DEF PartStates, NoPart
  <2>2. job' = [job EXCEPT ![p] = j]
    BY <1>3 DEF AfterFailure
  <2>3. NoPart.after <= now /\ Covers(NoPart.after)
    BY FreshParts
  <2> QED
    BY <1>1, <2>1, <2>2, <2>3
<1> QED
  BY <1>2, <1>3

LEMMA MailTypes ==
  ASSUME DigestInv, NEW got
  PROVE  /\ Mail(got) \in [Releases -> Nat]
         /\ \A i \in Releases : mailed[i] <= Mail(got)[i] /\ (i \in got => Mail(got)[i] > 0)
<1>1. mailed \in [Releases -> Nat]
  BY TypesUsed DEF DigestInv
<1> QED
  BY <1>1 DEF Mail

LEMMA FailsStep == ASSUME DigestInv, NEW p \in Parts, Fails(p) PROVE DigestInv'
<1>1. /\ job[p].pc # "none" /\ UNCHANGED <<now, cadence, joined, stamp, visible, late, mark>>
      /\ UNCHANGED <<due, over>> /\ upsets' \in Nat /\ job' = AfterFailure(p)
      /\ mailed' \in {mailed, Mail(job[p].got)}
  BY PartTypes DEF Fails, Upset, reader, ingest
<1>2. PICK j \in PartStates :
        /\ job' = [job EXCEPT ![p] = j] /\ j.pc \in {"waiting", "dropped"}
        /\ j.after <= now /\ Covers(j.after) /\ p[1] <= now
  BY <1>1, FailedState
<1>3. mailed' \in [Releases -> Nat] /\ \A i \in Releases : mailed[i] <= mailed'[i]
  BY <1>1, PartTypes, MailTypes
<1>4. over' \subseteq Releases /\ over \subseteq over' /\ mark' \in 0..MaxTime /\ due' \subseteq due
  BY <1>1, PartTypes
<1> QED
  BY <1>1, <1>2, <1>3, <1>4, QuietStep

\* The watermark is moved to what the part covers.
LEMMA AdvanceStep ==
  ASSUME DigestInv, NEW p \in Parts, Advance(p) \/ AdvanceFails(p)
  PROVE  DigestInv'
<1>1. /\ job[p].pc = "advance" /\ UNCHANGED <<now, cadence, joined, stamp, visible, late>>
      /\ UNCHANGED <<due, mailed, over>> /\ upsets' \in Nat /\ mark' \in {mark, p[1]}
      /\ job' = [job EXCEPT ![p] = Done] \/ job' = AfterFailure(p)
  BY PartTypes DEF Advance, AdvanceFails, Upset, ingest
<1>2. p[1] <= now /\ Covers(p[1]) /\ p[1] \in 0..MaxTime
  <2>1. PartInv(p)
    BY PartTypes
  <2> QED
    BY <1>1, <2>1, DigestAssumption DEF PartInv, Parts
<1>3. PICK j \in PartStates :
        /\ job' = [job EXCEPT ![p] = j] /\ j.pc \in {"done", "waiting", "dropped"}
        /\ j.after <= now /\ Covers(j.after)
  <2>1. CASE job' = [job EXCEPT ![p] = Done]
    <3>1. Done \in PartStates /\ Done.pc = "done" /\ Done.after <= now /\ Covers(Done.after)
      BY FreshParts DEF Done, NoPart
    <3> QED
      BY <2>1, <3>1
  <2>2. CASE job' = AfterFailure(p)
    <3>1. \E j \in PartStates :
            /\ job' = [job EXCEPT ![p] = j] /\ j.pc \in {"waiting", "dropped"}
            /\ j.after <= now /\ Covers(j.after) /\ p[1] <= now
      BY <1>1, <2>2, FailedState
    <3> QED
      BY <3>1
  <2> QED
    BY <1>1, <2>1, <2>2
<1>4. /\ mailed' \in [Releases -> Nat] /\ over' \subseteq Releases /\ over \subseteq over'
      /\ \A i \in Releases : mailed[i] <= mailed'[i]
      /\ due' \subseteq due /\ mark' \in 0..MaxTime
  BY <1>1, <1>2, PartTypes
<1>5. mark' = mark \/ (mark' <= now /\ Covers(mark'))
  BY <1>1, <1>2
<1> QED
  BY <1>1, <1>2, <1>3, <1>4, <1>5, QuietStep

\* A window looks at every regular release of its time, and takes it or says why not.
LEMMA GatherStep == ASSUME DigestInv, NEW p \in Parts, Gather(p) PROVE DigestInv'
<1>1. /\ TypeOK /\ PartInv(p) /\ job \in [Parts -> PartStates] /\ job[p] \in PartStates
      /\ job[p].pc = "gather" /\ p[1] \in Nat /\ job[p].after \in Nat
      /\ UNCHANGED <<now, due, cadence, mark, joined, stamp, visible, late, mailed, upsets>>
  BY PartTypes DEF Gather, reader, ingest
<1>2. PICK got \in SUBSET Window(p) :
        /\ over' = over \cup (Window(p) \ got)
        /\ job' = [job EXCEPT ![p] = IF got = {} THEN Done
                                     ELSE [job[p] EXCEPT !.pc = "send", !.got = got]]
  BY DEF Gather
<1>3. Window(p) \subseteq Releases
  BY <1>1 DEF Window, TypeOK
<1>4. /\ over' \subseteq Releases /\ over \subseteq over' /\ due' \subseteq due
      /\ mailed' \in [Releases -> Nat] /\ \A i \in Releases : mailed[i] <= mailed'[i]
      /\ mark' \in 0..MaxTime /\ upsets' \in Nat
  BY <1>1, <1>2, <1>3, PartTypes
<1>5. CASE got = {}
  <2>1. job' = [job EXCEPT ![p] = Done]
    BY <1>2, <1>5
  <2>2. /\ Done \in PartStates /\ Done.pc \notin {"send", "advance"} /\ Done.after <= now
        /\ Covers(Done.after) /\ p[1] <= now
    BY <1>1, FreshParts DEF PartInv
  <2> QED
    BY <1>1, <1>4, <2>1, <2>2, QuietStep
<1>6. CASE got # {}
  <2> DEFINE j == [job[p] EXCEPT !.pc = "send", !.got = got]
  <2>1. job' = [job EXCEPT ![p] = j]
    BY <1>2, <1>6
  <2>2. j \in PartStates /\ j.pc = "send" /\ j.got = got /\ j.after = job[p].after
    <3>1. got \in SUBSET Releases
      BY <1>2, <1>3
    <3> QED
      BY <1>1, <3>1 DEF PartStates
  <2> HIDE DEF j
  <2>3. /\ job' \in [Parts -> PartStates] /\ job'[p] = j
        /\ \A q \in Parts : q # p => job'[q] = job[q]
    BY <1>1, <2>1, <2>2
  <2>4. TypeOK' /\ Grows
    BY <1>1, <1>4, <2>3, SameTime
  <2>5. job[p].after <= now /\ Covers(job[p].after) /\ p[1] <= now
    BY <1>1 DEF PartInv
  <2>6. \A i \in Regular' : joined' < stamp'[i] /\ stamp'[i] <= p[1] =>
          mailed'[i] > 0 \/ i \in job'[p].got
    <3> SUFFICES ASSUME NEW i \in Regular', joined < stamp[i], stamp[i] <= p[1], i \notin got
                 PROVE  mailed[i] > 0
      BY <1>1, <2>2, <2>3
    <3>1. i \in Regular /\ i \in visible /\ i \notin Window(p)
      BY <1>1, <1>2 DEF Regular
    <3>2. stamp[i] \in Nat
      BY <1>1, <3>1, TypesUsed
    <3>3. stamp[i] <= job[p].after
      BY <1>1, <3>1, <3>2 DEF Window
    <3> QED
      BY <2>5, <3>1, <3>3 DEF Covers
  <2>7. Covers(job[p].after)'
    <3>1. \A i \in Regular' : joined' < stamp'[i] /\ stamp'[i] <= job[p].after => mailed'[i] > 0
      BY <1>1, <2>4, <2>5, CoversKept
    <3> QED
      BY <2>2, <2>3, <3>1 DEF Covers
  <2>8. PartInv(p)'
    BY <1>1, <2>2, <2>3, <2>5, <2>6, <2>7 DEF PartInv
  <2>9. \A q \in Parts : job'[q] = job[q] \/ PartInv(q)'
    BY <2>3, <2>8
  <2> QED
    BY <1>1, <1>4, <2>3, <2>9, JobStep
<1> QED
  BY <1>5, <1>6

LEMMA SendStep == ASSUME DigestInv, NEW p \in Parts, Send(p) PROVE DigestInv'
<1> DEFINE j == [job[p] EXCEPT !.pc = "advance"]
<1>1. /\ TypeOK /\ PartInv(p) /\ job \in [Parts -> PartStates] /\ job[p] \in PartStates
      /\ job[p].pc = "send" /\ p[1] \in Nat /\ job[p].after \in Nat
      /\ mailed' = Mail(job[p].got)
      /\ UNCHANGED <<now, due, cadence, mark, joined, stamp, visible, late, over, upsets>>
  BY PartTypes DEF Send, reader, ingest
<1>2. job' = [job EXCEPT ![p] = j]
  BY DEF Send
<1>3. j \in PartStates /\ j.pc = "advance" /\ j.after = job[p].after
  BY <1>1 DEF PartStates
<1> HIDE DEF j
<1>4. /\ job' \in [Parts -> PartStates] /\ job'[p] = j
      /\ \A q \in Parts : q # p => job'[q] = job[q]
  BY <1>1, <1>2, <1>3
<1>5. /\ mailed' \in [Releases -> Nat]
      /\ \A i \in Releases : mailed[i] <= mailed'[i] /\ (i \in job[p].got => mailed'[i] > 0)
  BY <1>1, MailTypes
<1>6. /\ over' \subseteq Releases /\ over \subseteq over' /\ due' \subseteq due
      /\ mark' \in 0..MaxTime /\ upsets' \in Nat
  BY <1>1, PartTypes
<1>7. TypeOK' /\ Grows
  BY <1>1, <1>4, <1>5, <1>6, SameTime
<1>8. job[p].after <= now /\ Covers(job[p].after) /\ p[1] <= now
  BY <1>1 DEF PartInv
<1>9. Covers(p[1])'
  <2> SUFFICES ASSUME NEW i \in Regular', joined < stamp[i], stamp[i] <= p[1]
               PROVE  mailed'[i] > 0
    BY <1>1 DEF Covers
  <2>1. i \in Regular /\ i \in Releases
    BY <1>1, TypesUsed DEF Regular
  <2>2. mailed[i] > 0 \/ i \in job[p].got
    BY <1>1, <2>1 DEF PartInv
  <2>3. mailed[i] \in Nat /\ mailed'[i] \in Nat /\ mailed[i] <= mailed'[i]
    BY <1>1, <1>5, <2>1, TypesUsed
  <2> QED
    BY <1>5, <2>1, <2>2, <2>3
<1>10. Covers(job[p].after)'
  <2>1. \A i \in Regular' : joined' < stamp'[i] /\ stamp'[i] <= job[p].after => mailed'[i] > 0
    BY <1>1, <1>7, <1>8, CoversKept
  <2> QED
    BY <1>3, <1>4, <2>1 DEF Covers
<1>11. PartInv(p)'
  BY <1>1, <1>3, <1>4, <1>8, <1>9, <1>10 DEF PartInv
<1>12. \A q \in Parts : job'[q] = job[q] \/ PartInv(q)'
  BY <1>4, <1>11
<1> QED
  BY <1>1, <1>4, <1>5, <1>6, <1>12, JobStep

-----------------------------------------------------------------------------
LEMMA DigestSteps == DigestInv /\ [Next]_vars => DigestInv'
<1> SUFFICES ASSUME DigestInv, [Next]_vars PROVE DigestInv'
  OBVIOUS
<1>1. CASE Schedule
  BY <1>1, ScheduleStep
<1>2. ASSUME NEW i \in Releases, Stamp(i) \/ Commit(i) PROVE DigestInv'
  BY <1>2, StampStep, CommitStep
<1>3. ASSUME NEW c \in Cadences \cup {"off"}, Switch(c) PROVE DigestInv'
  BY <1>3, SwitchStep
<1>4. ASSUME NEW r \in due, List(r) PROVE DigestInv'
  BY <1>4, ListStep
<1>5. ASSUME NEW r \in due, ListThrows(r) PROVE DigestInv'
  BY <1>5, ListThrowsStep
<1>6. ASSUME NEW p \in Parts, ListInline(p) \/ Take(p) \/ Check(p) PROVE DigestInv'
  BY <1>6, ReadStep
<1>7. ASSUME NEW p \in Parts, Gather(p) PROVE DigestInv'
  BY <1>7, GatherStep
<1>8. ASSUME NEW p \in Parts, Send(p) PROVE DigestInv'
  BY <1>8, SendStep
<1>9. ASSUME NEW p \in Parts, Advance(p) \/ AdvanceFails(p) PROVE DigestInv'
  BY <1>9, AdvanceStep
<1>10. ASSUME NEW p \in Parts, Fails(p) PROVE DigestInv'
  BY <1>10, FailsStep
<1>11. CASE UNCHANGED vars
  BY <1>11 DEF vars, DigestInv, TypeOK, PartInv, Covers, Regular
<1> QED
  BY <1>1, <1>2, <1>3, <1>4, <1>5, <1>6, <1>7, <1>8, <1>9, <1>10, <1>11 DEF Next

(* What each run has covered at its start, gathered and mailed adds up to  *)
(* what the watermark says, in every state.                                *)
THEOREM DigestInvariance == Spec => []DigestInv
<1>1. Init => DigestInv
  BY InitDigests
<1>2. DigestInv /\ [Next]_vars => DigestInv'
  BY DigestSteps
<1> QED
  BY <1>1, <1>2, PTL DEF Spec

(* The watermark, the runs and the mails of a reader keep their types.     *)
THEOREM FollowTypes == Spec => []TypeOK
<1>1. DigestInv => TypeOK
  BY DEF DigestInv
<1> QED
  BY <1>1, DigestInvariance, PTL

(* Runs that overlap, are re-tried, sent inline or overtaken may move the  *)
(* watermark forwards and backwards, and never past a release that was not *)
(* mailed, save those a full mail left out or that were committed late.    *)
THEOREM NothingIsSkipped == Spec => []WatermarkSkipsNothing
<1>1. DigestInv => WatermarkSkipsNothing
  BY DEF DigestInv, Covers, Regular, WatermarkSkipsNothing
<1> QED
  BY <1>1, DigestInvariance, PTL

-----------------------------------------------------------------------------
(* Copies.  What may still mail a release is counted: the parts that would *)
(* gather it, or leave it to the next run, and that next run.  A part that *)
(* is done without failure hands its claim on, or settles it.              *)

\* Not ingested is later than every run.
Time(i) == IF stamp[i] = 0 THEN MaxTime + 2 ELSE stamp[i]

Reading == {"waiting", "check", "gather"}

\* The part may mail the release, or set the watermark to before it.
MayCopy(i, p) ==
    \/ job[p].pc \notin {"none", "done", "dropped"} /\ p[1] < Time(i)
    \/ job[p].pc = "list"
    \/ job[p].pc \in Reading /\ job[p].after < Time(i)
    \/ job[p].pc = "send" /\ i \in job[p].got

Pending(i) == {p \in Parts : MayCopy(i, p)}

\* A run that is due may mail it; without one, a later run will.
DueAgain(i) == \E r \in due : r[2] = cadence /\ (mark < Time(i) \/ r[1] < Time(i))

Uncovered(i) ==
    /\ mark < Time(i) /\ Pending(i) = {}
    /\ \A p \in Parts : job[p].pc = "advance" => p[1] < Time(i)

Repeats(i) == DueAgain(i) \/ Uncovered(i)

Bit(b) == IF b THEN 1 ELSE 0

Paid(i) == mailed[i] + Cardinality(Pending(i)) + Bit(Repeats(i)) <= 1 + upsets

\* A mail under way holds no release from after its run; a part before its mail, none.
InTime(p) ==
    /\ job[p].pc = "send" => \A i \in job[p].got : 0 < stamp[i] /\ stamp[i] <= p[1]
    /\ job[p].pc \in {"list"} \cup Reading => job[p].got = {}

CopyInv ==
    /\ \A r1, r2 \in due : r1[1] = r2[1]
    /\ \A p \in Parts : InTime(p)
    /\ \A i \in Releases : Paid(i)

-----------------------------------------------------------------------------
(* Counting parts.                                                         *)

LEMMA PartsFinite == IsFiniteSet(Parts)
<1>1. IsFiniteSet(1..MaxTime)
  BY FS_Interval, DigestAssumption
<1>2. IsFiniteSet(Cadences) /\ IsFiniteSet(Via)
  <2>1. IsFiniteSet({"daily"}) /\ IsFiniteSet({"queue"})
    BY FS_Singleton
  <2>2. Cadences = {"daily"} \cup {"weekly"} /\ Via = {"queue"} \cup {"inline"}
    BY DEF Cadences, Via
  <2> QED
    BY <2>1, <2>2, FS_AddElement
<1> DEFINE Pairs == ((1..MaxTime) \X Cadences) \X Via
           Flat == [q \in Pairs |-> <<q[1][1], q[1][2], q[2]>>]
<1>3. IsFiniteSet(Pairs)
  BY <1>1, <1>2, FS_Product
<1>4. Flat \in Surjection(Pairs, Parts)
  <2>1. Flat \in [Pairs -> Parts]
    BY DEF Parts
  <2>2. ASSUME NEW t \in 1..MaxTime, NEW c \in Cadences, NEW v \in Via
        PROVE  \E q \in Pairs : Flat[q] = <<t, c, v>>
    <3>1. <<<<t, c>>, v>> \in Pairs /\ Flat[<<<<t, c>>, v>>] = <<t, c, v>>
      OBVIOUS
    <3> QED
      BY <3>1
  <2>3. \A p \in Parts : \E q \in Pairs : Flat[q] = p
    <3> SUFFICES ASSUME NEW p \in Parts PROVE \E q \in Pairs : Flat[q] = p
      OBVIOUS
    <3>1. p[1] \in 1..MaxTime /\ p[2] \in Cadences /\ p[3] \in Via /\ p = <<p[1], p[2], p[3]>>
      BY DEF Parts
    <3>2. \E q \in Pairs : Flat[q] = <<p[1], p[2], p[3]>>
      BY ONLY <2>2, <3>1
    <3> QED
      BY <3>1, <3>2, Zenon
  <2> QED
    BY <2>1, <2>3 DEF Surjection
<1> QED
  BY <1>3, <1>4, FS_Surjection

\* Two sets of parts that agree but on p.
LEMMA CountStep ==
  ASSUME NEW S \in SUBSET Parts, NEW T \in SUBSET Parts, NEW p \in Parts,
         \A q \in Parts : q # p => (q \in S <=> q \in T)
  PROVE  /\ Cardinality(S) \in Nat /\ Cardinality(T) \in Nat
         /\ Cardinality(T) + Bit(p \in S) = Cardinality(S) + Bit(p \in T)
<1>1. IsFiniteSet(S) /\ IsFiniteSet(T)
  BY PartsFinite, FS_Subset
<1>2. Cardinality(S) \in Nat /\ Cardinality(T) \in Nat
  BY <1>1, FS_CardinalityType
<1>3. CASE p \in S /\ p \notin T
  <2>1. T = S \ {p}
    BY <1>3
  <2> QED
    BY <1>1, <1>2, <1>3, <2>1, FS_RemoveElement DEF Bit
<1>4. CASE p \notin S /\ p \in T
  <2>1. T = S \cup {p}
    BY <1>4
  <2> QED
    BY <1>1, <1>2, <1>4, <2>1, FS_AddElement DEF Bit
<1>5. CASE p \in S <=> p \in T
  <2>1. S = T
    BY <1>5
  <2> QED
    BY <1>2, <2>1
<1> QED
  BY <1>2, <1>3, <1>4, <1>5

LEMMA CopyTypes ==
  ASSUME TypeOK, NEW i \in Releases
  PROVE  /\ MaxTime \in Nat /\ now \in Nat /\ mark \in 0..MaxTime /\ upsets \in Nat
         /\ stamp[i] \in 0..(MaxTime + 1) /\ Time(i) \in Nat /\ mailed[i] \in Nat
         /\ job \in [Parts -> PartStates] /\ Cardinality(Pending(i)) \in Nat
         /\ Pending(i) \subseteq Parts
<1>1. MaxTime \in Nat
  BY DigestAssumption
<1>2. now \in Nat /\ mark \in 0..MaxTime /\ upsets \in Nat /\ mailed[i] \in Nat
  BY <1>1 DEF TypeOK
<1>3. stamp[i] \in 0..(MaxTime + 1)
  BY DEF TypeOK
<1>4. Time(i) \in Nat
  BY <1>1, <1>3 DEF Time
<1>5. job \in [Parts -> PartStates]
  BY TypesUsed
<1>6. Cardinality(Pending(i)) \in Nat /\ Pending(i) \subseteq Parts
  <2>1. Pending(i) \subseteq Parts
    BY DEF Pending
  <2> QED
    BY <2>1, PartsFinite, FS_Subset, FS_CardinalityType
<1> QED
  BY <1>1, <1>2, <1>3, <1>4, <1>5, <1>6

\* When one part goes on, the count changes by what changes for that part.
LEMMA OnePart ==
  ASSUME TypeOK, NEW i \in Releases, stamp'[i] = stamp[i], NEW p \in Parts,
         \A q \in Parts : q # p => job'[q] = job[q]
  PROVE  /\ Cardinality(Pending(i)') \in Nat
         /\ Cardinality(Pending(i)') + Bit(MayCopy(i, p)) =
              Cardinality(Pending(i)) + Bit(MayCopy(i, p)')
<1>1. Time(i)' = Time(i)
  BY DEF Time
<1>2. \A q \in Parts : q # p => (MayCopy(i, q)' <=> MayCopy(i, q))
  BY <1>1 DEF MayCopy
<1>3. \A q \in Parts : q # p => (q \in Pending(i) <=> q \in Pending(i)')
  BY <1>2 DEF Pending
<1>4. /\ p \in Pending(i) <=> MayCopy(i, p)
      /\ p \in Pending(i)' <=> MayCopy(i, p)'
      /\ Pending(i) \in SUBSET Parts /\ Pending(i)' \in SUBSET Parts
  BY DEF Pending
<1>5. /\ Cardinality(Pending(i)') \in Nat
      /\ Cardinality(Pending(i)') + Bit(p \in Pending(i)) =
           Cardinality(Pending(i)) + Bit(p \in Pending(i)')
  BY <1>3, <1>4, CountStep
<1>6. /\ Bit(p \in Pending(i)) = Bit(MayCopy(i, p))
      /\ Bit(p \in Pending(i)') = Bit(MayCopy(i, p)')
  BY <1>4 DEF Bit
<1> QED
  BY <1>5, <1>6

\* So a step of one part is paid when it is for that part, the next run and the mail.
LEMMA Balance ==
  ASSUME TypeOK, TypeOK', NEW i \in Releases, stamp'[i] = stamp[i], NEW p \in Parts,
         \A q \in Parts : q # p => job'[q] = job[q], Paid(i),
         mailed'[i] + Bit(MayCopy(i, p)') + Bit(Repeats(i)') + upsets
           <= mailed[i] + Bit(MayCopy(i, p)) + Bit(Repeats(i)) + upsets'
  PROVE  Paid(i)'
<1>1. /\ Cardinality(Pending(i)) \in Nat /\ Cardinality(Pending(i)') \in Nat
      /\ Cardinality(Pending(i)') + Bit(MayCopy(i, p)) =
              Cardinality(Pending(i)) + Bit(MayCopy(i, p)')
  BY OnePart, CopyTypes
<1>2. /\ mailed[i] \in Nat /\ upsets \in Nat /\ mailed'[i] \in Nat /\ upsets' \in Nat
  BY DEF TypeOK
<1>3. /\ Bit(MayCopy(i, p)) \in Nat /\ Bit(MayCopy(i, p)') \in Nat
      /\ Bit(Repeats(i)) \in Nat /\ Bit(Repeats(i)') \in Nat
  BY DEF Bit
<1>4. mailed[i] + Cardinality(Pending(i)) + Bit(Repeats(i)) <= 1 + upsets
  BY DEF Paid
<1>5. mailed'[i] + Cardinality(Pending(i)') + Bit(Repeats(i)') <= 1 + upsets'
  <2>1. \A m, m2, c, c2, b, b2, n, n2, u, u2 \in Nat :
          /\ c2 + b = c + b2 /\ m + c + n <= 1 + u /\ m2 + b2 + n2 + u <= m + b + n + u2
          => m2 + c2 + n2 <= 1 + u2
    OBVIOUS
  <2> QED
    BY <1>1, <1>2, <1>3, <1>4, <2>1
<1> QED
  BY <1>5 DEF Paid

\* What is due, as long as the watermark and the cadence stand, only gets less.
LEMMA DueFalls ==
  ASSUME NEW i \in Releases, stamp'[i] = stamp[i], UNCHANGED <<mark, cadence>>,
         due' \subseteq due, DueAgain(i)'
  PROVE  DueAgain(i)
<1>1. Time(i)' = Time(i)
  BY DEF Time
<1> QED
  BY <1>1 DEF DueAgain

\* While a part may copy the release, no later run is counted.
LEMMA PartCovers ==
  ASSUME NEW i \in Releases, NEW p \in Parts
  PROVE  /\ MayCopy(i, p) => ~Uncovered(i)
         /\ MayCopy(i, p)' => ~Uncovered(i)'
  BY DEF Uncovered, Pending

\* A failure pays for what a part may copy once more.
LEMMA PartFails ==
  ASSUME NEW i \in Releases, stamp'[i] = stamp[i], UNCHANGED <<mark, cadence>>,
         due' \subseteq due, NEW p \in Parts, MayCopy(i, p)', Repeats(i)'
  PROVE  Repeats(i)
  BY PartCovers, DueFalls DEF Repeats

\* A part that could not copy the release before leaves the next run as it was.
LEMMA PartGoesOn ==
  ASSUME NEW i \in Releases, stamp'[i] = stamp[i], UNCHANGED <<mark, cadence>>,
         due' \subseteq due, NEW p \in Parts, job[p].pc # "advance",
         \A q \in Parts : q # p => job'[q] = job[q],
         ~MayCopy(i, p), ~MayCopy(i, p)', Repeats(i)'
  PROVE  Repeats(i)
<1>1. CASE DueAgain(i)'
  BY <1>1, DueFalls DEF Repeats
<1>2. CASE Uncovered(i)'
  <2>1. Time(i)' = Time(i)
    BY DEF Time
  <2>2. \A q \in Parts : MayCopy(i, q) <=> MayCopy(i, q)'
    BY <2>1 DEF MayCopy
  <2>3. Pending(i) = Pending(i)'
    BY <2>2 DEF Pending
  <2>4. \A q \in Parts : job[q].pc = "advance" => q[1] < Time(i)
    BY <1>2, <2>1 DEF Uncovered
  <2> QED
    BY <1>2, <2>1, <2>3, <2>4 DEF Uncovered, Repeats
<1> QED
  BY <1>1, <1>2 DEF Repeats

-----------------------------------------------------------------------------
(* The steps of one part.                                                  *)

\* One part goes on: the invariant is kept when the count is, for each release.
LEMMA CopyStep ==
  ASSUME DigestInv, CopyInv, TypeOK', NEW p \in Parts,
         \A q \in Parts : q # p => job'[q] = job[q],
         stamp' = stamp, due' \subseteq due,
         InTime(p)',
         \A i \in Releases :
           mailed'[i] + Bit(MayCopy(i, p)') + Bit(Repeats(i)') + upsets
             <= mailed[i] + Bit(MayCopy(i, p)) + Bit(Repeats(i)) + upsets'
  PROVE  CopyInv'
<1>1. TypeOK
  BY DEF DigestInv
<1>2. \A r1, r2 \in due' : r1[1] = r2[1]
  BY DEF CopyInv
<1>3. \A q \in Parts : InTime(q)'
  BY DEF CopyInv, InTime
<1>4. ASSUME NEW i \in Releases PROVE Paid(i)'
  <2>1. Paid(i)
    BY DEF CopyInv
  <2> QED
    BY <1>1, <2>1, Balance
<1> QED
  BY <1>2, <1>3, <1>4 DEF CopyInv

\* Without a mail and without a failure.
LEMMA FreeStep ==
  ASSUME DigestInv, CopyInv, TypeOK', NEW p \in Parts,
         \A q \in Parts : q # p => job'[q] = job[q],
         UNCHANGED <<stamp, mark, cadence, mailed, upsets>>, due' \subseteq due,
         InTime(p)',
         job[p].pc # "advance",
         \A i \in Releases : MayCopy(i, p)' => MayCopy(i, p)
  PROVE  CopyInv'
<1>1. ASSUME NEW i \in Releases
      PROVE  mailed'[i] + Bit(MayCopy(i, p)') + Bit(Repeats(i)') + upsets
               <= mailed[i] + Bit(MayCopy(i, p)) + Bit(Repeats(i)) + upsets'
  <2>1. MayCopy(i, p)' /\ Repeats(i)' => Repeats(i)
    BY PartFails
  <2>2. ~MayCopy(i, p) /\ ~MayCopy(i, p)' /\ Repeats(i)' => Repeats(i)
    BY PartGoesOn
  <2>3. Bit(MayCopy(i, p)') + Bit(Repeats(i)') <= Bit(MayCopy(i, p)) + Bit(Repeats(i))
    BY <2>1, <2>2 DEF Bit
  <2>4. mailed[i] \in Nat /\ upsets \in Nat /\ mailed'[i] = mailed[i] /\ upsets' = upsets
    BY DEF DigestInv, TypeOK
  <2>5. /\ Bit(MayCopy(i, p)) \in Nat /\ Bit(MayCopy(i, p)') \in Nat
        /\ Bit(Repeats(i)) \in Nat /\ Bit(Repeats(i)') \in Nat
    BY DEF Bit
  <2> QED
    BY <2>3, <2>4, <2>5
<1> QED
  BY <1>1, CopyStep

LEMMA ReadCopies ==
  ASSUME DigestInv, CopyInv, TypeOK', NEW p \in Parts, ListInline(p) \/ Take(p) \/ Check(p)
  PROVE  CopyInv'
<1>1. /\ job \in [Parts -> PartStates] /\ job[p] \in PartStates
      /\ UNCHANGED <<stamp, mark, cadence, mailed, upsets>> /\ due' \subseteq due
  BY PartTypes DEF ListInline, Take, Check, reader, ingest
<1>2. Done.pc = "done"
  BY DEF Done, NoPart
<1>3. ASSUME NEW i \in Releases
      PROVE  Time(i)' = Time(i)
  BY <1>1 DEF Time
<1>4. CASE ListInline(p)
  <2>1. /\ \A q \in Parts : q # p => job'[q] = job[q]
        /\ job[p].pc = "list"
        /\ job'[p].pc = "done" \/ (job'[p].pc = "gather" /\ job'[p].got = job[p].got)
    BY <1>1, <1>2, <1>4 DEF ListInline, PartStates
  <2>2. \A i \in Releases : MayCopy(i, p)
    BY <2>1 DEF MayCopy
  <2>3. InTime(p)'
    BY <1>1, <2>1 DEF CopyInv, InTime, Reading
  <2> QED
    BY <1>1, <2>1, <2>2, <2>3, FreeStep
<1>5. CASE Take(p)
  <2>1. /\ \A q \in Parts : q # p => job'[q] = job[q]
        /\ job[p].pc = "waiting" /\ job'[p].pc = "check" /\ job'[p].after = job[p].after
        /\ job'[p].got = job[p].got
    BY <1>1, <1>5 DEF Take, PartStates
  <2>2. \A i \in Releases : MayCopy(i, p)' => MayCopy(i, p)
    BY <1>3, <2>1 DEF MayCopy, Reading
  <2>3. InTime(p)'
    BY <1>1, <2>1 DEF CopyInv, InTime, Reading
  <2> QED
    BY <1>1, <2>1, <2>2, <2>3, FreeStep
<1>6. CASE Check(p)
  <2>1. /\ \A q \in Parts : q # p => job'[q] = job[q]
        /\ job[p].pc = "check"
        /\ \/ job'[p].pc = "done"
           \/ /\ job'[p].pc = "gather" /\ job'[p].after = job[p].after
              /\ job'[p].got = job[p].got
    BY <1>1, <1>2, <1>6 DEF Check, PartStates
  <2>2. \A i \in Releases : MayCopy(i, p)' => MayCopy(i, p)
    BY <1>3, <2>1 DEF MayCopy, Reading
  <2>3. InTime(p)'
    BY <1>1, <2>1 DEF CopyInv, InTime, Reading
  <2> QED
    BY <1>1, <2>1, <2>2, <2>3, FreeStep
<1> QED
  BY <1>4, <1>5, <1>6

LEMMA GatherCopies ==
  ASSUME DigestInv, CopyInv, TypeOK', NEW p \in Parts, Gather(p)
  PROVE  CopyInv'
<1>1. /\ TypeOK /\ job \in [Parts -> PartStates] /\ job[p] \in PartStates
      /\ job[p].pc = "gather" /\ p[1] \in Nat /\ job[p].after \in Nat
      /\ UNCHANGED <<stamp, mark, cadence, mailed, upsets>> /\ due' \subseteq due
  BY PartTypes DEF Gather, reader, ingest
<1>2. PICK got \in SUBSET Window(p) :
        job' = [job EXCEPT ![p] = IF got = {} THEN Done
                                  ELSE [job[p] EXCEPT !.pc = "send", !.got = got]]
  BY DEF Gather
<1>3. /\ \A q \in Parts : q # p => job'[q] = job[q]
      /\ job'[p].pc = "done" \/ (job'[p].pc = "send" /\ job'[p].got = got)
  BY <1>1, <1>2 DEF PartStates, Done, NoPart
<1>4. ASSUME NEW i \in Window(p)
      PROVE  i \in Releases /\ 0 < stamp[i] /\ stamp[i] <= p[1] /\ job[p].after < Time(i)
  <2>1. i \in Releases /\ job[p].after < stamp[i] /\ stamp[i] <= p[1]
    BY <1>1 DEF Window, TypeOK
  <2>2. stamp[i] \in Nat
    BY <1>1, <2>1, TypesUsed
  <2> QED
    BY <1>1, <2>1, <2>2 DEF Time
<1>5. ASSUME NEW i \in Releases, MayCopy(i, p)' PROVE MayCopy(i, p)
  <2>1. Time(i)' = Time(i)
    BY <1>1 DEF Time
  <2> QED
    BY <1>1, <1>3, <1>4, <1>5, <2>1 DEF MayCopy, Reading
<1>6. InTime(p)'
  BY <1>1, <1>3, <1>4 DEF InTime, Reading
<1> QED
  BY <1>1, <1>3, <1>5, <1>6, FreeStep

\* A mail settles the part's claim: its releases are not later than the run.
LEMMA SendCopies ==
  ASSUME DigestInv, CopyInv, TypeOK', NEW p \in Parts, Send(p)
  PROVE  CopyInv'
<1>1. /\ TypeOK /\ job \in [Parts -> PartStates] /\ job[p] \in PartStates
      /\ job[p].pc = "send" /\ p[1] \in Nat /\ mailed' = Mail(job[p].got)
      /\ UNCHANGED <<stamp, mark, cadence, upsets>> /\ due' \subseteq due
  BY PartTypes DEF Send, reader, ingest
<1>2. (\A q \in Parts : q # p => job'[q] = job[q]) /\ job'[p].pc = "advance"
  BY <1>1 DEF Send, PartStates
<1>3. ASSUME NEW i \in Releases
      PROVE  mailed'[i] + Bit(MayCopy(i, p)') + Bit(Repeats(i)') + upsets
               <= mailed[i] + Bit(MayCopy(i, p)) + Bit(Repeats(i)) + upsets'
  <2>1. /\ mailed[i] \in Nat /\ upsets \in Nat /\ upsets' = upsets /\ Time(i) \in Nat
        /\ mailed'[i] = mailed[i] + IF i \in job[p].got THEN 1 ELSE 0
    BY <1>1, CopyTypes DEF Mail
  <2>2. Time(i)' = Time(i)
    BY <1>1 DEF Time
  <2>3. MayCopy(i, p)' <=> p[1] < Time(i)
    BY <1>2, <2>2 DEF MayCopy, Reading
  <2>4. p[1] < Time(i) => MayCopy(i, p)
    BY <1>1 DEF MayCopy
  <2>5. CASE i \in job[p].got
    <3>1. 0 < stamp[i] /\ stamp[i] <= p[1]
      BY <1>1, <2>5 DEF CopyInv, InTime
    <3>2. ~(p[1] < Time(i)) /\ MayCopy(i, p)
      <4>1. stamp[i] \in Nat
        BY <1>1, TypesUsed
      <4>2. Time(i) = stamp[i]
        BY <3>1, <4>1 DEF Time
      <4> QED
        BY <1>1, <2>5, <3>1, <4>1, <4>2 DEF MayCopy
    <3>3. ~Uncovered(i)'
      BY <1>2, <2>2, <3>2 DEF Uncovered
    <3>4. Repeats(i)' => Repeats(i)
      BY <1>1, <3>3, DueFalls DEF Repeats
    <3>5. /\ Bit(MayCopy(i, p)') = 0 /\ Bit(MayCopy(i, p)) = 1
          /\ Bit(Repeats(i)) \in Nat /\ Bit(Repeats(i)') \in Nat
          /\ Bit(Repeats(i)') <= Bit(Repeats(i))
      BY <2>3, <3>2, <3>4 DEF Bit
    <3> QED
      BY <2>1, <2>5, <3>5
  <2>6. CASE i \notin job[p].got
    <3>1. MayCopy(i, p)' /\ Repeats(i)' => Repeats(i)
      BY <1>1, PartFails
    <3>2. ~MayCopy(i, p) /\ ~MayCopy(i, p)' /\ Repeats(i)' => Repeats(i)
      BY <1>1, <1>2, PartGoesOn
    <3>3. /\ Bit(MayCopy(i, p)) \in Nat /\ Bit(MayCopy(i, p)') \in Nat
          /\ Bit(Repeats(i)) \in Nat /\ Bit(Repeats(i)') \in Nat
          /\ Bit(MayCopy(i, p)') + Bit(Repeats(i)') <= Bit(MayCopy(i, p)) + Bit(Repeats(i))
      BY <2>3, <2>4, <3>1, <3>2 DEF Bit
    <3> QED
      BY <2>1, <2>6, <3>3
  <2> QED
    BY <2>5, <2>6
<1>4. InTime(p)'
  BY <1>2 DEF InTime, Reading
<1> QED
  BY <1>1, <1>2, <1>3, <1>4, CopyStep

LEMMA FailedPart ==
  ASSUME TypeOK, NEW p \in Parts, job' = AfterFailure(p)
  PROVE  /\ \A q \in Parts : q # p => job'[q] = job[q]
         /\ job'[p].pc \in {"waiting", "dropped"} /\ InTime(p)'
<1>1. job \in [Parts -> PartStates] /\ job[p] \in PartStates
  BY TypesUsed
<1>2. /\ \A q \in Parts : q # p => job'[q] = job[q]
      /\ job'[p] = IF p[3] = "queue" /\ job[p].tries <= Retries
                   THEN [job[p] EXCEPT !.pc = "waiting", !.got = {}]
                   ELSE [NoPart EXCEPT !.pc = "dropped"]
  BY <1>1 DEF AfterFailure
<1>3. job'[p].pc \in {"waiting", "dropped"} /\ job'[p].got = {}
  BY <1>1, <1>2 DEF PartStates, NoPart
<1> QED
  BY <1>2, <1>3 DEF InTime

\* One failure pays for what the part mailed, or for what it may mail again.
LEMMA FailsCopies ==
  ASSUME DigestInv, CopyInv, TypeOK', NEW p \in Parts, Fails(p)
  PROVE  CopyInv'
<1>1. /\ TypeOK /\ job[p].pc \in {"list", "check", "gather", "send"} /\ job' = AfterFailure(p)
      /\ mailed' \in {mailed, Mail(job[p].got)} /\ upsets' = upsets + 1
      /\ UNCHANGED <<stamp, mark, cadence>> /\ due' \subseteq due
  BY PartTypes DEF Fails, Upset, reader, ingest
<1>2. /\ \A q \in Parts : q # p => job'[q] = job[q]
      /\ job'[p].pc \in {"waiting", "dropped"} /\ InTime(p)'
  BY <1>1, FailedPart
<1>3. ASSUME NEW i \in Releases
      PROVE  mailed'[i] + Bit(MayCopy(i, p)') + Bit(Repeats(i)') + upsets
               <= mailed[i] + Bit(MayCopy(i, p)) + Bit(Repeats(i)) + upsets'
  <2>1. mailed[i] \in Nat /\ upsets \in Nat
    BY <1>1 DEF TypeOK
  <2>2. mailed'[i] = mailed[i] \/ (mailed'[i] = mailed[i] + 1 /\ i \in job[p].got)
    BY <1>1, <2>1 DEF Mail
  <2>3. i \in job[p].got => MayCopy(i, p)
    BY <1>1 DEF MayCopy, CopyInv, InTime, Reading
  <2>4. MayCopy(i, p)' /\ Repeats(i)' => Repeats(i)
    BY <1>1, PartFails
  <2>5. /\ Bit(MayCopy(i, p)) \in Nat /\ Bit(MayCopy(i, p)') \in Nat
        /\ Bit(Repeats(i)) \in Nat /\ Bit(Repeats(i)') \in Nat
        /\ Bit(MayCopy(i, p)') + Bit(Repeats(i)') <= 1 + Bit(Repeats(i))
        /\ i \in job[p].got => Bit(MayCopy(i, p)) = 1
    BY <2>3, <2>4 DEF Bit
  <2> QED
    BY <1>1, <2>1, <2>2, <2>5
<1> QED
  BY <1>1, <1>2, <1>3, CopyStep

\* The watermark covers what the part was no claim on, and leaves the rest to a later run.
LEMMA MarkMoves ==
  ASSUME DigestInv, CopyInv, NEW p \in Parts, job[p].pc = "advance", stamp' = stamp,
         cadence' = cadence, due' = due, mark' = p[1], NEW i \in Releases
  PROVE  /\ p[1] < Time(i) => MayCopy(i, p)
         /\ ~(p[1] < Time(i)) => ~MayCopy(i, p) /\ (Repeats(i)' => Repeats(i))
<1>1. Time(i)' = Time(i)
  BY DEF Time
<1>2. p[1] < Time(i) <=> MayCopy(i, p)
  BY DEF MayCopy, Reading
<1>3. ASSUME ~(p[1] < Time(i)) PROVE Repeats(i)' => Repeats(i)
  <2>1. ~Uncovered(i)'
    BY <1>1, <1>3 DEF Uncovered
  <2>2. DueAgain(i)' => DueAgain(i)
    BY <1>1, <1>3 DEF DueAgain
  <2> QED
    BY <2>1, <2>2 DEF Repeats
<1> QED
  BY <1>2, <1>3

LEMMA AdvanceCopies ==
  ASSUME DigestInv, CopyInv, TypeOK', NEW p \in Parts, Advance(p)
  PROVE  CopyInv'
<1>1. /\ TypeOK /\ job[p].pc = "advance" /\ mark' = p[1]
      /\ UNCHANGED <<stamp, cadence, due, mailed, upsets>>
  BY PartTypes DEF Advance, ingest
<1>2. (\A q \in Parts : q # p => job'[q] = job[q]) /\ job'[p].pc = "done" /\ InTime(p)'
  <2>1. job \in [Parts -> PartStates]
    BY PartTypes
  <2>2. (\A q \in Parts : q # p => job'[q] = job[q]) /\ job'[p].pc = "done"
    BY <2>1 DEF Advance, Done, NoPart
  <2> QED
    BY <2>2 DEF InTime, Reading
<1>3. ASSUME NEW i \in Releases
      PROVE  mailed'[i] + Bit(MayCopy(i, p)') + Bit(Repeats(i)') + upsets
               <= mailed[i] + Bit(MayCopy(i, p)) + Bit(Repeats(i)) + upsets'
  <2>1. mailed[i] \in Nat /\ upsets \in Nat /\ mailed'[i] = mailed[i] /\ upsets' = upsets
    BY <1>1 DEF TypeOK
  <2>2. ~MayCopy(i, p)'
    BY <1>2 DEF MayCopy, Reading
  <2>3. MayCopy(i, p) \/ (Repeats(i)' => Repeats(i))
    BY <1>1, MarkMoves
  <2>4. /\ Bit(MayCopy(i, p)') = 0 /\ Bit(MayCopy(i, p)) \in Nat
        /\ Bit(Repeats(i)) \in Nat /\ Bit(Repeats(i)') \in Nat
        /\ Bit(Repeats(i)') <= Bit(MayCopy(i, p)) + Bit(Repeats(i))
    BY <2>2, <2>3 DEF Bit
  <2> QED
    BY <2>1, <2>4
<1> QED
  BY <1>1, <1>2, <1>3, CopyStep

LEMMA AdvanceFailsCopies ==
  ASSUME DigestInv, CopyInv, TypeOK', NEW p \in Parts, AdvanceFails(p)
  PROVE  CopyInv'
<1>1. /\ TypeOK /\ job[p].pc = "advance" /\ mark' \in {mark, p[1]} /\ upsets' = upsets + 1
      /\ UNCHANGED <<stamp, cadence, due, mailed>> /\ job' = AfterFailure(p)
  BY PartTypes DEF AdvanceFails, Upset, ingest
<1>2. /\ \A q \in Parts : q # p => job'[q] = job[q]
      /\ job'[p].pc \in {"waiting", "dropped"} /\ InTime(p)'
  BY <1>1, FailedPart
<1>3. ASSUME NEW i \in Releases
      PROVE  mailed'[i] + Bit(MayCopy(i, p)') + Bit(Repeats(i)') + upsets
               <= mailed[i] + Bit(MayCopy(i, p)) + Bit(Repeats(i)) + upsets'
  <2>1. mailed[i] \in Nat /\ upsets \in Nat /\ mailed'[i] = mailed[i]
    BY <1>1 DEF TypeOK
  <2>2. mark' = mark => (MayCopy(i, p)' /\ Repeats(i)' => Repeats(i))
    BY <1>1, PartFails
  <2>3. mark' = p[1] => MayCopy(i, p) \/ (Repeats(i)' => Repeats(i))
    BY <1>1, MarkMoves
  <2>4. MayCopy(i, p) \/ (MayCopy(i, p)' /\ Repeats(i)' => Repeats(i))
    BY <1>1, <2>2, <2>3
  <2>5. /\ Bit(MayCopy(i, p)) \in Nat /\ Bit(MayCopy(i, p)') \in Nat
        /\ Bit(Repeats(i)) \in Nat /\ Bit(Repeats(i)') \in Nat
        /\ Bit(MayCopy(i, p)') + Bit(Repeats(i)') <= Bit(MayCopy(i, p)) + Bit(Repeats(i)) + 1
    BY <2>4 DEF Bit
  <2> QED
    BY <1>1, <2>1, <2>5
<1> QED
  BY <1>1, <1>2, <1>3, CopyStep

-----------------------------------------------------------------------------
(* The crons.                                                              *)

\* A run queues at most the part that it was counted for.
LEMMA QueuedPart ==
  ASSUME DigestInv, CopyInv, NEW r \in due, due' = due \ {r}, cadence = r[2],
         UNCHANGED <<stamp, mark, cadence>>, NEW p \in Parts, p[1] = r[1], job'[p] = Queued,
         NEW i \in Releases
  PROVE  /\ MayCopy(i, p)' => Repeats(i) /\ ~Repeats(i)'
         /\ ~MayCopy(i, p)' /\ Repeats(i)' => Repeats(i)
<1>1. Time(i)' = Time(i)
  BY DEF Time
<1>2. Queued.pc = "waiting" /\ Queued.after = mark
  BY DEF Queued, NoPart
<1>3. MayCopy(i, p)' <=> p[1] < Time(i) \/ mark < Time(i)
  BY <1>1, <1>2 DEF MayCopy, Reading
<1>4. ASSUME MayCopy(i, p)' PROVE Repeats(i) /\ ~Repeats(i)'
  <2>1. Repeats(i)
    BY <1>3, <1>4 DEF DueAgain, Repeats
  <2>2. ~Uncovered(i)'
    BY <1>4, PartCovers
  <2>3. ~DueAgain(i)'
    <3> SUFFICES ASSUME NEW s \in due', s[2] = cadence PROVE FALSE
      BY DEF DueAgain
    <3>1. s \in due /\ s # r /\ s[1] = r[1] /\ s[2] = r[2]
      BY DEF CopyInv
    <3>2. s \in (1..now) \X Cadences /\ r \in (1..now) \X Cadences
      BY <3>1 DEF DigestInv
    <3> QED
      BY <3>1, <3>2
  <2> QED
    BY <2>1, <2>2, <2>3 DEF Repeats
<1>5. ASSUME ~MayCopy(i, p)', Repeats(i)' PROVE Repeats(i)
  <2>1. ~Uncovered(i)'
    BY <1>1, <1>3, <1>5 DEF Uncovered
  <2>2. DueAgain(i)
    BY <1>5, <2>1, DueFalls DEF Repeats
  <2> QED
    BY <2>2 DEF Repeats
<1> QED
  BY <1>4, <1>5

LEMMA ListCopies ==
  ASSUME DigestInv, CopyInv, TypeOK', NEW r \in due, List(r)
  PROVE  CopyInv'
<1> DEFINE p == <<r[1], r[2], "queue">>
<1>1. /\ TypeOK /\ due' = due \ {r} /\ due' \subseteq due
      /\ UNCHANGED <<stamp, mark, cadence, mailed, upsets>>
      /\ job \in [Parts -> PartStates] /\ p \in Parts /\ p[1] = r[1]
  BY PartTypes, DueParts DEF List, reader, ingest, Via
<1> HIDE DEF p
<1>2. CASE cadence = r[2] /\ job' = [job EXCEPT ![p] = Queued]
  <2>1. (\A q \in Parts : q # p => job'[q] = job[q]) /\ job'[p] = Queued
    BY <1>1, <1>2
  <2>2. ASSUME NEW i \in Releases
        PROVE  mailed'[i] + Bit(MayCopy(i, p)') + Bit(Repeats(i)') + upsets
                 <= mailed[i] + Bit(MayCopy(i, p)) + Bit(Repeats(i)) + upsets'
    <3>1. mailed[i] \in Nat /\ upsets \in Nat /\ mailed'[i] = mailed[i] /\ upsets' = upsets
      BY <1>1 DEF TypeOK
    <3>2. /\ MayCopy(i, p)' => Repeats(i) /\ ~Repeats(i)'
          /\ ~MayCopy(i, p)' /\ Repeats(i)' => Repeats(i)
      BY <1>1, <1>2, <2>1, QueuedPart
    <3>3. /\ Bit(MayCopy(i, p)) \in Nat /\ Bit(MayCopy(i, p)') \in Nat
          /\ Bit(Repeats(i)) \in Nat /\ Bit(Repeats(i)') \in Nat
          /\ Bit(MayCopy(i, p)') + Bit(Repeats(i)') <= Bit(Repeats(i))
      BY <3>2 DEF Bit
    <3> QED
      BY <3>1, <3>3
  <2>3. InTime(p)'
    BY <2>1 DEF InTime, Queued, NoPart
  <2> QED
    BY <1>1, <2>1, <2>2, <2>3, CopyStep
<1>3. CASE job' = job
  <2>1. ASSUME NEW i \in Releases PROVE Paid(i)'
    <3>1. Time(i)' = Time(i)
      BY <1>1 DEF Time
    <3>2. Pending(i)' = Pending(i)
      BY <1>3, <3>1 DEF Pending, MayCopy
    <3>3. Uncovered(i)' => Uncovered(i)
      BY <1>1, <1>3, <3>1, <3>2 DEF Uncovered
    <3>4. Repeats(i)' => Repeats(i)
      BY <1>1, <3>3, DueFalls DEF Repeats
    <3>5. /\ mailed[i] \in Nat /\ upsets \in Nat /\ mailed'[i] = mailed[i] /\ upsets' = upsets
          /\ Cardinality(Pending(i)) \in Nat
      BY <1>1, CopyTypes DEF TypeOK
    <3>6. mailed[i] + Cardinality(Pending(i)) + Bit(Repeats(i)) <= 1 + upsets
      BY DEF CopyInv, Paid
    <3>7. Bit(Repeats(i)) \in Nat /\ Bit(Repeats(i)') \in Nat /\ Bit(Repeats(i)') <= Bit(Repeats(i))
      BY <3>4 DEF Bit
    <3> QED
      BY <3>2, <3>5, <3>6, <3>7 DEF Paid
  <2> QED
    BY <1>1, <1>3, <2>1 DEF CopyInv, InTime
<1> QED
  BY <1>2, <1>3 DEF List, p

LEMMA TwoParts ==
  ASSUME TypeOK, NEW i \in Releases, stamp' = stamp, NEW p \in Parts, NEW s \in Parts, p # s,
         \A q \in Parts : q # p /\ q # s => job'[q] = job[q]
  PROVE  /\ Cardinality(Pending(i)') \in Nat
         /\ Cardinality(Pending(i)') + Bit(MayCopy(i, p)) + Bit(MayCopy(i, s)) =
              Cardinality(Pending(i)) + Bit(MayCopy(i, p)') + Bit(MayCopy(i, s)')
<1> DEFINE Mid == {q \in Parts : IF q = p THEN q \in Pending(i)' ELSE q \in Pending(i)}
<1>1. Time(i)' = Time(i)
  BY DEF Time
<1>2. \A q \in Parts : q # p /\ q # s => (q \in Pending(i) <=> q \in Pending(i)')
  BY <1>1 DEF Pending, MayCopy
<1>3. /\ p \in Pending(i) <=> MayCopy(i, p)
      /\ p \in Pending(i)' <=> MayCopy(i, p)'
      /\ s \in Pending(i) <=> MayCopy(i, s)
      /\ s \in Pending(i)' <=> MayCopy(i, s)'
      /\ Pending(i) \in SUBSET Parts /\ Pending(i)' \in SUBSET Parts
  BY DEF Pending
<1>4. /\ Mid \in SUBSET Parts
      /\ \A q \in Parts : q # p => (q \in Pending(i) <=> q \in Mid)
      /\ \A q \in Parts : q # s => (q \in Mid <=> q \in Pending(i)')
      /\ p \in Mid <=> p \in Pending(i)'
      /\ s \in Mid <=> s \in Pending(i)
  BY <1>2
<1> HIDE DEF Mid
<1>5. /\ Cardinality(Pending(i)) \in Nat /\ Cardinality(Mid) \in Nat
      /\ Cardinality(Mid) + Bit(p \in Pending(i)) = Cardinality(Pending(i)) + Bit(p \in Mid)
  BY <1>3, <1>4, CountStep
<1>6. /\ Cardinality(Pending(i)') \in Nat
      /\ Cardinality(Pending(i)') + Bit(s \in Mid) = Cardinality(Mid) + Bit(s \in Pending(i)')
  BY <1>3, <1>4, CountStep
<1>7. /\ Bit(p \in Pending(i)) = Bit(MayCopy(i, p)) /\ Bit(p \in Mid) = Bit(MayCopy(i, p)')
      /\ Bit(s \in Mid) = Bit(MayCopy(i, s)) /\ Bit(s \in Pending(i)') = Bit(MayCopy(i, s)')
  BY <1>3, <1>4 DEF Bit
<1>8. /\ Bit(MayCopy(i, p)) \in Nat /\ Bit(MayCopy(i, p)') \in Nat
      /\ Bit(MayCopy(i, s)) \in Nat /\ Bit(MayCopy(i, s)') \in Nat
  BY DEF Bit
<1>9. /\ Cardinality(Mid) + Bit(MayCopy(i, p)) = Cardinality(Pending(i)) + Bit(MayCopy(i, p)')
      /\ Cardinality(Pending(i)') + Bit(MayCopy(i, s)) = Cardinality(Mid) + Bit(MayCopy(i, s)')
  BY <1>5, <1>6, <1>7
<1>10. \A m, c, c2, b, b2, d, d2 \in Nat :
         m + b = c + b2 /\ c2 + d = m + d2 => c2 + b + d = c + b2 + d2
  OBVIOUS
<1> QED
  BY <1>5, <1>6, <1>8, <1>9, <1>10

\* The inline part is what the failure pays for; it stands for the next run as well.
LEMMA ListThrowsCopies ==
  ASSUME DigestInv, CopyInv, TypeOK', NEW r \in due, ListThrows(r)
  PROVE  CopyInv'
<1> DEFINE p == <<r[1], r[2], "queue">>
           s == <<r[1], r[2], "inline">>
<1>1. /\ TypeOK /\ due' = due \ {r} /\ due' \subseteq due /\ upsets' = upsets + 1
      /\ UNCHANGED <<stamp, mark, cadence, mailed>> /\ job \in [Parts -> PartStates]
      /\ p \in Parts /\ s \in Parts /\ p # s /\ p[1] = r[1]
  BY PartTypes, DueParts DEF ListThrows, Upset, reader, ingest, Via
<1>2. PICK part \in {NoPart} \cup (IF cadence = r[2] THEN {Queued} ELSE {}) :
        job' = [job EXCEPT ![p] = part, ![s] = Inline]
  BY DEF ListThrows
<1> HIDE DEF p, s
<1>3. /\ \A q \in Parts : q # p /\ q # s => job'[q] = job[q]
      /\ job'[p] = part /\ job'[s] = Inline
  BY <1>1, <1>2
<1>4. ASSUME NEW i \in Releases PROVE Paid(i)'
  <2>1. /\ mailed[i] \in Nat /\ upsets \in Nat /\ mailed'[i] = mailed[i]
        /\ Cardinality(Pending(i)) \in Nat
    BY <1>1, CopyTypes DEF TypeOK
  <2>2. /\ Cardinality(Pending(i)') \in Nat
        /\ Cardinality(Pending(i)') + Bit(MayCopy(i, p)) + Bit(MayCopy(i, s)) =
              Cardinality(Pending(i)) + Bit(MayCopy(i, p)') + Bit(MayCopy(i, s)')
    BY <1>1, <1>3, TwoParts
  <2>3. MayCopy(i, s)'
    BY <1>3 DEF MayCopy, Inline, NoPart
  <2>4. /\ MayCopy(i, p)' => Repeats(i) /\ ~Repeats(i)'
        /\ ~MayCopy(i, p)' /\ Repeats(i)' => Repeats(i)
    <3>1. CASE part = NoPart
      <4>1. ~MayCopy(i, p)'
        BY <1>3, <3>1 DEF MayCopy, NoPart, Reading
      <4>2. Repeats(i)' => Repeats(i)
        BY <1>1, <2>3, PartFails
      <4> QED
        BY <4>1, <4>2
    <3>2. CASE cadence = r[2] /\ part = Queued
      BY <1>1, <1>3, <3>2, QueuedPart
    <3> QED
      BY <1>2, <3>1, <3>2
  <2>5. /\ Bit(MayCopy(i, p)) \in Nat /\ Bit(MayCopy(i, p)') \in Nat
        /\ Bit(MayCopy(i, s)) \in Nat /\ Bit(MayCopy(i, s)') = 1
        /\ Bit(Repeats(i)) \in Nat /\ Bit(Repeats(i)') \in Nat
        /\ Bit(MayCopy(i, p)') + Bit(Repeats(i)') <= Bit(Repeats(i))
    BY <2>3, <2>4 DEF Bit
  <2>6. mailed[i] + Cardinality(Pending(i)) + Bit(Repeats(i)) <= 1 + upsets
    BY DEF CopyInv, Paid
  <2>7. \A m, c, c2, b, b2, d, n, n2, u \in Nat :
          /\ c2 + b + d = c + b2 + 1 /\ b2 + n2 <= n /\ m + c + n <= 1 + u
          => m + c2 + n2 <= 1 + (u + 1)
    OBVIOUS
  <2>8. mailed[i] + Cardinality(Pending(i)') + Bit(Repeats(i)') <= 1 + (upsets + 1)
    BY <2>1, <2>2, <2>5, <2>6, <2>7
  <2> QED
    BY <1>1, <2>1, <2>8 DEF Paid
<1>5. \A q \in Parts : InTime(q)'
  <2>1. InTime(p)'
    <3>1. part.pc \in {"none", "waiting"} /\ part.got = {}
      <4>1. part = NoPart \/ part = Queued
        BY <1>2
      <4>2. /\ NoPart.pc = "none" /\ NoPart.got = {}
            /\ Queued.pc = "waiting" /\ Queued.got = {}
        BY DEF Queued, NoPart
      <4> QED
        BY <4>1, <4>2
    <3> QED
      BY <1>3, <3>1 DEF InTime
  <2>2. InTime(s)'
    BY <1>3 DEF InTime, Inline, NoPart
  <2>3. ASSUME NEW q \in Parts, q # p, q # s PROVE InTime(q)'
    BY <1>1, <1>3, <2>3 DEF CopyInv, InTime
  <2> QED
    BY <2>1, <2>2, <2>3
<1> QED
  BY <1>1, <1>4, <1>5 DEF CopyInv

\* A run that starts after the one before it was settled is the next run; an overlap is paid.
LEMMA ScheduleCopies ==
  ASSUME DigestInv, CopyInv, TypeOK', Schedule
  PROVE  CopyInv'
<1>1. /\ TypeOK /\ UNCHANGED <<stamp, mark, cadence, mailed, job>>
      /\ (due = {} /\ Settled /\ upsets' = upsets) \/ upsets' = upsets + 1
  BY DEF DigestInv, Schedule, Upset, reader, ingest
<1>2. \A r \in due' : r[1] = now + 1
  <2>1. PICK cs \in {{"daily"}, Cadences} : due' = {now + 1} \X cs
    BY DEF Schedule
  <2> QED
    BY <2>1
<1>3. ASSUME NEW i \in Releases PROVE Paid(i)'
  <2>1. /\ mailed[i] \in Nat /\ upsets \in Nat /\ mailed'[i] = mailed[i]
        /\ Cardinality(Pending(i)) \in Nat /\ now \in Nat /\ mark \in Nat
        /\ MaxTime \in Nat /\ stamp[i] \in Nat /\ stamp[i] <= now + 1 /\ mark <= MaxTime
    BY <1>1, CopyTypes DEF DigestInv
  <2>2. Time(i)' = Time(i)
    BY <1>1 DEF Time
  <2>3. Pending(i)' = Pending(i)
    BY <1>1, <2>2 DEF Pending, MayCopy
  <2>4. mailed[i] + Cardinality(Pending(i)) + Bit(Repeats(i)) <= 1 + upsets
    BY DEF CopyInv, Paid
  <2>5. Bit(Repeats(i)) \in {0, 1} /\ Bit(Repeats(i)') \in {0, 1}
    BY DEF Bit
  <2>6. CASE upsets' = upsets + 1
    BY <2>1, <2>3, <2>4, <2>5, <2>6 DEF Paid
  <2>7. CASE due = {} /\ Settled /\ upsets' = upsets
    <3>1. Pending(i) = {} /\ \A p \in Parts : job[p].pc # "advance"
      BY <2>7 DEF Settled, Pending, MayCopy, Reading
    <3>2. Repeats(i)' => mark < Time(i)
      <4>1. stamp[i] = 0 => mark < Time(i)
        BY <2>1 DEF Time
      <4>2. stamp[i] # 0 => \A r \in due' : ~(r[1] < Time(i))
        BY <1>2, <2>1 DEF Time
      <4> QED
        BY <1>1, <2>2, <4>1, <4>2 DEF Repeats, DueAgain, Uncovered
    <3>3. Repeats(i)' => Repeats(i)
      BY <3>1, <3>2 DEF Repeats, Uncovered
    <3>4. Bit(Repeats(i)') <= Bit(Repeats(i))
      BY <3>3 DEF Bit
    <3> QED
      BY <2>1, <2>3, <2>4, <2>5, <2>7, <3>4 DEF Paid
  <2> QED
    BY <1>1, <2>6, <2>7
<1>4. \A p \in Parts : InTime(p)'
  BY <1>1 DEF CopyInv, InTime
<1> QED
  BY <1>2, <1>3, <1>4 DEF CopyInv

-----------------------------------------------------------------------------
(* The ingestion and the reader.                                           *)

LEMMA SwitchCopies ==
  ASSUME DigestInv, CopyInv, TypeOK', NEW c \in Cadences \cup {"off"}, Switch(c)
  PROVE  CopyInv'
<1>1. /\ TypeOK /\ UNCHANGED <<stamp, mailed, job, due>> /\ upsets' = upsets + 1
  BY DEF DigestInv, Switch, Upset, ingest
<1>2. ASSUME NEW i \in Releases PROVE Paid(i)'
  <2>1. /\ mailed[i] \in Nat /\ upsets \in Nat /\ mailed'[i] = mailed[i]
        /\ Cardinality(Pending(i)) \in Nat
    BY <1>1, CopyTypes
  <2>2. Pending(i)' = Pending(i)
    BY <1>1 DEF Pending, MayCopy, Time
  <2>3. mailed[i] + Cardinality(Pending(i)) + Bit(Repeats(i)) <= 1 + upsets
    BY DEF CopyInv, Paid
  <2>4. Bit(Repeats(i)) \in {0, 1} /\ Bit(Repeats(i)') \in {0, 1}
    BY DEF Bit
  <2> QED
    BY <1>1, <2>1, <2>2, <2>3, <2>4 DEF Paid
<1> QED
  BY <1>1, <1>2 DEF CopyInv, InTime

\* No run is later than now, so an ingestion is after all of them, as it was before.
LEMMA StampCopies ==
  ASSUME DigestInv, CopyInv, TypeOK', NEW k \in Releases, Stamp(k)
  PROVE  CopyInv'
<1>1. /\ TypeOK /\ UNCHANGED <<mailed, job, due, mark, cadence, upsets>>
      /\ stamp[k] = 0 /\ stamp' = [stamp EXCEPT ![k] = now + 1]
      /\ MaxTime \in Nat /\ now \in 0..MaxTime /\ stamp \in [Releases -> Nat]
      /\ mark \in Nat /\ mark <= now /\ job \in [Parts -> PartStates]
  BY TypesUsed DEF DigestInv, TypeOK, Stamp, reader
<1>2. \A t \in Nat : t <= now => t < Time(k) /\ t < Time(k)'
  BY <1>1 DEF Time
<1>3. ASSUME NEW p \in Parts
      PROVE  /\ p[1] \in Nat /\ job[p].after \in Nat /\ job[p].after <= now
             /\ job[p].pc # "none" => p[1] <= now
  <2>1. PartInv(p) /\ p[1] \in Nat /\ job[p].after \in 0..MaxTime
    BY PartTypes
  <2> QED
    BY <1>1, <2>1 DEF PartInv
<1>4. ASSUME NEW r \in due PROVE r[1] \in Nat /\ r[1] <= now
  <2>1. r \in (1..now) \X Cadences
    BY DEF DigestInv
  <2> QED
    BY <1>1, <2>1
<1>5. ASSUME NEW i \in Releases PROVE Pending(i)' = Pending(i) /\ (Repeats(i)' <=> Repeats(i))
  <2>1. CASE i # k
    <3>1. Time(i)' = Time(i)
      BY <1>1, <2>1 DEF Time
    <3>2. Pending(i)' = Pending(i)
      BY <1>1, <3>1 DEF Pending, MayCopy
    <3> QED
      BY <1>1, <3>1, <3>2 DEF Repeats, DueAgain, Uncovered
  <2>2. CASE i = k
    <3>1. \A p \in Parts : MayCopy(k, p)' <=> MayCopy(k, p)
      BY <1>1, <1>2, <1>3 DEF MayCopy
    <3>2. Pending(k)' = Pending(k)
      BY <3>1 DEF Pending
    <3>3. DueAgain(k)' <=> DueAgain(k)
      BY <1>1, <1>2, <1>4 DEF DueAgain
    <3>4. Uncovered(k)' <=> Uncovered(k)
      BY <1>1, <1>2, <1>3, <3>2 DEF Uncovered
    <3> QED
      BY <2>2, <3>2, <3>3, <3>4 DEF Repeats
  <2> QED
    BY <2>1, <2>2
<1>6. \A i \in Releases : Paid(i)'
  BY <1>1, <1>5 DEF CopyInv, Paid, Bit
<1>7. ASSUME NEW p \in Parts PROVE InTime(p)'
  <2>1. InTime(p) /\ job[p].got \subseteq Releases
    BY <1>1 DEF CopyInv, PartStates
  <2> QED
    BY <1>1, <2>1 DEF InTime
<1> QED
  BY <1>1, <1>6, <1>7 DEF CopyInv

\* What the count does not look at.
LEMMA SameCopies ==
  ASSUME CopyInv, UNCHANGED <<mailed, job, due, mark, cadence, upsets, stamp>>
  PROVE  CopyInv'
<1>1. \A i \in Releases : Paid(i)'
  BY DEF CopyInv, Paid, Bit, Pending, MayCopy, Repeats, DueAgain, Uncovered, Time
<1> QED
  BY <1>1 DEF CopyInv, InTime

LEMMA InitCopies == Init => CopyInv
<1> SUFFICES ASSUME Init PROVE CopyInv
  OBVIOUS
<1>1. /\ due = {} /\ upsets = 0 /\ mailed = [i \in Releases |-> 0]
      /\ job = [p \in Parts |-> NoPart]
  BY DEF Init
<1>2. \A p \in Parts : job[p].pc = "none"
  BY <1>1 DEF NoPart
<1>3. ASSUME NEW i \in Releases PROVE Paid(i)
  <2>1. Pending(i) = {}
    BY <1>2 DEF Pending, MayCopy, Reading
  <2>2. Cardinality(Pending(i)) = 0
    BY <2>1, FS_EmptySet
  <2>3. Bit(Repeats(i)) \in {0, 1}
    BY DEF Bit
  <2> QED
    BY <1>1, <2>2, <2>3 DEF Paid
<1> QED
  BY <1>1, <1>2, <1>3 DEF CopyInv, InTime, Reading

LEMMA CopySteps == DigestInv /\ CopyInv /\ DigestInv' /\ [Next]_vars => CopyInv'
<1> SUFFICES ASSUME DigestInv, CopyInv, TypeOK', [Next]_vars PROVE CopyInv'
  BY DEF DigestInv
<1>1. CASE Schedule
  BY <1>1, ScheduleCopies
<1>2. ASSUME NEW i \in Releases, Stamp(i) PROVE CopyInv'
  BY <1>2, StampCopies
<1>3. ASSUME NEW i \in Releases, Commit(i) PROVE CopyInv'
  BY <1>3, SameCopies DEF Commit, reader
<1>4. ASSUME NEW c \in Cadences \cup {"off"}, Switch(c) PROVE CopyInv'
  BY <1>4, SwitchCopies
<1>5. ASSUME NEW r \in due, List(r) PROVE CopyInv'
  BY <1>5, ListCopies
<1>6. ASSUME NEW r \in due, ListThrows(r) PROVE CopyInv'
  BY <1>6, ListThrowsCopies
<1>7. ASSUME NEW p \in Parts, ListInline(p) \/ Take(p) \/ Check(p) PROVE CopyInv'
  BY <1>7, ReadCopies
<1>8. ASSUME NEW p \in Parts, Gather(p) \/ Send(p) PROVE CopyInv'
  BY <1>8, GatherCopies, SendCopies
<1>9. ASSUME NEW p \in Parts, Advance(p) \/ AdvanceFails(p) PROVE CopyInv'
  BY <1>9, AdvanceCopies, AdvanceFailsCopies
<1>10. ASSUME NEW p \in Parts, Fails(p) PROVE CopyInv'
  BY <1>10, FailsCopies
<1>11. CASE UNCHANGED vars
  BY <1>11, SameCopies DEF vars
<1> QED
  BY <1>1, <1>2, <1>3, <1>4, <1>5, <1>6, <1>7, <1>8, <1>9, <1>10, <1>11 DEF Next

(* The claims on a release never outnumber what was paid for: the mails it *)
(* had, the parts that may mail it and the run to come are at most one     *)
(* more than the failures, overlaps and changes of cadence so far.         *)
THEOREM CopyInvariance == Spec => []CopyInv
<1>1. Init => CopyInv
  BY InitCopies
<1>2. DigestInv /\ CopyInv /\ DigestInv' /\ [Next]_vars => CopyInv'
  BY CopySteps
<1> QED
  BY <1>1, <1>2, DigestInvariance, PTL DEF Spec

(* A release is mailed to the reader once, and once more only for each     *)
(* failure, overlap of two days' runs or change of cadence.                *)
THEOREM CopiesAreCounted == Spec => []CopiesNeedFailures
<1>1. DigestInv /\ CopyInv => CopiesNeedFailures
  <2> SUFFICES ASSUME DigestInv, CopyInv, NEW i \in Releases PROVE mailed[i] <= 1 + upsets
    BY DEF CopiesNeedFailures
  <2>1. mailed[i] \in Nat /\ upsets \in Nat /\ Cardinality(Pending(i)) \in Nat
    BY CopyTypes DEF DigestInv
  <2>2. mailed[i] + Cardinality(Pending(i)) + Bit(Repeats(i)) <= 1 + upsets
    BY DEF CopyInv, Paid
  <2>3. Bit(Repeats(i)) \in Nat
    BY DEF Bit
  <2> QED
    BY <2>1, <2>2, <2>3
<1> QED
  BY <1>1, DigestInvariance, CopyInvariance, PTL

=============================================================================
