--------------------------- MODULE ReleaseHubProofs ----------------------------
(***************************************************************************)
(* The ring buffer of ReleaseHub, for every EVENT_BUFFER_SIZE and every    *)
(* batch: a replay is complete or a gap is announced, a gap is never       *)
(* announced without need, even after appends cut short by crashes; a      *)
(* socket is sent each event once, across its replay and the broadcasts;   *)
(* the reader of ReleaseStream that pages through the buffer misses        *)
(* nothing; and ReleaseStream uses the hub as ReleaseHub says.             *)
(***************************************************************************)
EXTENDS ReleaseStream, FiniteSetTheorems, WellFoundedInduction, TLAPS

\* The empty object satisfies the invariant.
LEMMA InitRing == Init => RingInv
<1> SUFFICES ASSUME Init PROVE RingInv
  OBVIOUS
<1>1. StoreTypeOK
  BY DEF Init, StoreTypeOK, Steps
<1>2. KeptInv
  BY BufferOK DEF Init, KeptInv, Low
<1>3. OldestInv /\ StepInv
  BY BufferOK DEF Init, OldestInv, StepInv, Low
<1> QED
  BY <1>1, <1>2, <1>3 DEF RingInv

LEMMA BelowNext == \A k, n \in Nat : k <= n => k <= n + 1
  OBVIOUS

\* What a completed append must establish.
LEMMA Completed ==
  ASSUME RingInv, todo > 0, todo \in Nat, Appended,
         kept' \subseteq Nat, seq' \in Nat, oldest' \in Nat,
         (Low..seq \subseteq kept)',
         (\A k \in kept' : k <= seq'),
         (seq <= EVENT_BUFFER_SIZE => oldest \in {0, 1})',
         (seq > EVENT_BUFFER_SIZE => oldest = Low)'
  PROVE  RingInv'
<1>1. StoreTypeOK'
  <2>1. torn' \in BOOLEAN /\ start' \in Nat
    BY DEF Appended, RingInv, StoreTypeOK
  <2>2. todo' \in Nat /\ step' \in Steps
    BY DEF Appended, Steps
  <2> QED
    BY <2>1, <2>2 DEF StoreTypeOK
<1>2. step' \in {"event", "fanout"} /\ (step' = "event" => todo' > 0)
  BY DEF Appended
<1>3. \A k \in kept' : k <= seq' + 1
  BY BelowNext
<1>4. KeptInv'
  BY <1>2, <1>3 DEF KeptInv
<1>5. OldestInv'
  BY DEF OldestInv
<1>6. StepInv'
  BY <1>2 DEF StepInv
<1> QED
  BY <1>1, <1>4, <1>5, <1>6 DEF RingInv

\* Each write of appendEvent.
LEMMA PutEventStep == RingInv /\ PutEvent => RingInv'
  BY BufferOK DEF PutEvent, RingInv, StoreTypeOK, Steps, KeptInv, OldestInv, StepInv, AtRest, Low

LEMMA PutSeqStep == RingInv /\ PutSeq => RingInv'
<1> SUFFICES ASSUME RingInv, PutSeq PROVE RingInv'
  OBVIOUS
<1> USE BufferOK DEF RingInv, StoreTypeOK, KeptInv, OldestInv, StepInv, Low
<1>1. /\ kept' \subseteq Nat /\ seq' \in Nat /\ oldest' \in Nat
      /\ todo > 0 /\ todo \in Nat
      /\ (\A k \in kept' : k <= seq')
  BY DEF PutSeq
<1>2. (Low..seq \subseteq kept)'
  BY DEF PutSeq
<1>3. CASE seq = 0 \/ seq + 1 > EVENT_BUFFER_SIZE
  BY <1>1, <1>2, <1>3 DEF PutSeq, Steps, AtRest
<1>4. CASE ~ (seq = 0 \/ seq + 1 > EVENT_BUFFER_SIZE)
  <2>1. Appended
    BY <1>4 DEF PutSeq
  <2>2. (seq <= EVENT_BUFFER_SIZE => oldest \in {0, 1})'
    BY <1>4 DEF PutSeq
  <2>3. (seq > EVENT_BUFFER_SIZE => oldest = Low)'
    BY <1>4 DEF PutSeq
  <2> QED
    BY ONLY RingInv, <1>1, <1>2, <2>1, <2>2, <2>3, Completed
<1> QED
  BY <1>3, <1>4

LEMMA PutFirstOldestStep == RingInv /\ PutFirstOldest => RingInv'
<1> SUFFICES ASSUME RingInv, PutFirstOldest PROVE RingInv'
  OBVIOUS
<1>1. /\ kept' \subseteq Nat /\ seq' \in Nat /\ oldest' \in Nat
      /\ todo > 0 /\ todo \in Nat
      /\ Appended
      /\ (Low..seq \subseteq kept)'
      /\ (\A k \in kept' : k <= seq')
      /\ (seq <= EVENT_BUFFER_SIZE => oldest \in {0, 1})'
      /\ (seq > EVENT_BUFFER_SIZE => oldest = Low)'
  BY BufferOK DEF PutFirstOldest, RingInv, StoreTypeOK, KeptInv, OldestInv, StepInv, Low
<1> QED
  BY <1>1, Completed

LEMMA TrimStep == RingInv /\ Trim => RingInv'
  BY BufferOK DEF Trim, RingInv, StoreTypeOK, Steps, KeptInv, OldestInv, StepInv, AtRest, Low

LEMMA PutOldestStep == RingInv /\ PutOldest => RingInv'
<1> SUFFICES ASSUME RingInv, PutOldest PROVE RingInv'
  OBVIOUS
<1>1. /\ kept' \subseteq Nat /\ seq' \in Nat /\ oldest' \in Nat
      /\ todo > 0 /\ todo \in Nat
      /\ Appended
      /\ (Low..seq \subseteq kept)'
      /\ (\A k \in kept' : k <= seq')
      /\ (seq <= EVENT_BUFFER_SIZE => oldest \in {0, 1})'
      /\ (seq > EVENT_BUFFER_SIZE => oldest = Low)'
  BY BufferOK DEF PutOldest, RingInv, StoreTypeOK, KeptInv, OldestInv, StepInv, Low
<1> QED
  BY <1>1, Completed

\* A crash between two writes leaves what KeptInv still describes.
LEMMA CrashStep == RingInv /\ Crash => RingInv'
<1> SUFFICES ASSUME RingInv, Crash PROVE RingInv'
  OBVIOUS
<1>1. /\ kept' = kept /\ seq' = seq /\ oldest' = oldest /\ start' = start
      /\ step' = "idle" /\ todo' = 0
      /\ torn' = IF step \in {"seq", "first", "trim", "oldest"} THEN TRUE ELSE torn
  BY DEF Crash, store
<1>2. StoreTypeOK'
  BY <1>1 DEF RingInv, StoreTypeOK, Steps
<1>3. AtRest' => AtRest
  BY <1>1 DEF AtRest, RingInv, StoreTypeOK, Steps
<1>4. Low' = Low
  BY <1>1 DEF Low
<1>5. KeptInv'
  BY <1>1, <1>3, <1>4 DEF KeptInv, RingInv
<1>6. OldestInv' /\ StepInv'
  BY <1>1, <1>3, <1>4 DEF OldestInv, StepInv, RingInv
<1> QED
  BY <1>2, <1>5, <1>6 DEF RingInv

LEMMA PublishStep ==
  ASSUME RingInv, NEW b \in 1..MaxBatch, Publish(b)
  PROVE  RingInv'
  BY BufferOK, BoundsOK DEF Publish, store, RingInv, StoreTypeOK, Steps, KeptInv, OldestInv, StepInv, AtRest, Low

\* The sockets' steps leave the storage and the handler alone.
LEMMA SocketStep ==
  ASSUME RingInv, UNCHANGED <<store, handler, torn>>
  PROVE  RingInv'
  BY DEF store, handler, RingInv, StoreTypeOK, KeptInv, OldestInv, StepInv, AtRest, Low

LEMMA FanoutStep == RingInv /\ Fanout => RingInv'
  BY DEF Fanout, store, RingInv, StoreTypeOK, Steps, KeptInv, OldestInv, StepInv, AtRest, Low

LEMMA NextRing == RingInv /\ [Next]_vars => RingInv'
<1> SUFFICES ASSUME RingInv, [Next]_vars PROVE RingInv'
  OBVIOUS
<1>1. CASE HubNext
  BY <1>1, PublishStep, PutEventStep, PutSeqStep, PutFirstOldestStep, TrimStep,
     PutOldestStep, FanoutStep, CrashStep DEF HubNext, AppendEvent
<1>2. ASSUME NEW c \in Clients,
             Deliver(c) \/ Drop(c) \/ \E since \in 0..MaxSeq \cup {NoCursor} : Subscribe(c, since)
      PROVE  RingInv'
  <2>1. UNCHANGED <<store, handler, torn>>
    BY <1>2 DEF Deliver, Drop, Subscribe
  <2> QED
    BY <2>1, SocketStep
<1>3. CASE UNCHANGED vars
  BY <1>3, SocketStep DEF vars
<1> QED
  BY <1>1, <1>2, <1>3 DEF Next

\* The storage invariant holds in every reachable state, for any buffer size,
\* any batch and any crashes: appendEvent's writes, in their order, heal what an
\* interrupted append left.
THEOREM RingInvariance == Spec => []RingInv
  BY InitRing, NextRing, PTL DEF Spec

\* Without a gap a replay is complete.
LEMMA RingIsHonest == RingInv => GapIsHonest
<1> SUFFICES ASSUME RingInv, step = "idle", ~ torn, NEW since \in 0..seq, ~ Gap(since)
             PROVE  Replay(since) = (since + 1)..seq
  BY DEF GapIsHonest
<1> USE BufferOK DEF RingInv, StoreTypeOK, KeptInv, OldestInv, AtRest, Low
<1>1. \A k \in kept : k <= seq
  OBVIOUS
<1>2. ASSUME NEW k \in Replay(since) PROVE k \in (since + 1)..seq
  BY <1>1 DEF Replay
<1>3. Low <= since + 1
  BY DEF Gap
<1>4. (since + 1)..seq \subseteq Replay(since)
  BY <1>3 DEF Replay
<1> QED
  BY <1>2, <1>4

\* A gap means that the event after the cursor is gone.
LEMMA RingNeedsGap == RingInv => GapIsNeeded
<1> SUFFICES ASSUME RingInv, step = "idle", ~ torn, NEW since \in 0..seq, Gap(since)
             PROVE  since + 1 < Low
  BY DEF GapIsNeeded
<1>1. seq > EVENT_BUFFER_SIZE
  BY BufferOK DEF Gap, RingInv, StoreTypeOK, OldestInv
<1>2. oldest = Low
  BY <1>1 DEF RingInv, OldestInv, AtRest
<1> QED
  BY <1>2 DEF Gap, RingInv, StoreTypeOK

\* A subscriber or reader with any cursor gets every event after it, or is told
\* of a gap (release-hub.ts, /subscribe and /replay).
THEOREM ReplayIsComplete == Spec => []GapIsHonest
  BY RingInvariance, RingIsHonest, PTL

\* It is told of a gap only when it has missed an event.
THEOREM GapsAreReal == Spec => []GapIsNeeded
  BY RingInvariance, RingNeedsGap, PTL

-----------------------------------------------------------------------------
(* The size of the buffer.                                                 *)

\* What is kept beside the events a replay needs.
Orphans == kept \ (Low..seq)

\* One event more while an append is between its writes.
Extra == IF step \in {"seq", "trim"} THEN 1 ELSE 0

SizeInv ==
  /\ RingInv
  /\ crashes \in Nat
  /\ step = "trim" => Low - 1 \in kept
  /\ Cardinality(Orphans) <= crashes + Extra

LEMMA KeptFinite ==
  ASSUME RingInv
  PROVE  /\ IsFiniteSet(kept) /\ IsFiniteSet(Orphans)
         /\ Cardinality(Orphans) \in Nat
<1>1. kept \subseteq 0..(seq + 1) /\ seq \in Nat
  BY DEF RingInv, StoreTypeOK, KeptInv
<1>2. IsFiniteSet(0..(seq + 1))
  BY <1>1, FS_Interval
<1>3. IsFiniteSet(kept)
  BY <1>1, <1>2, FS_Subset
<1>4. IsFiniteSet(Orphans)
  BY <1>3, FS_Subset DEF Orphans
<1> QED
  BY <1>3, <1>4, FS_CardinalityType

LEMMA OneMore ==
  ASSUME NEW S, IsFiniteSet(S), NEW x
  PROVE  /\ IsFiniteSet(S \cup {x}) /\ Cardinality(S) \in Nat
         /\ Cardinality(S \cup {x}) \in Nat /\ Cardinality(S \cup {x}) <= Cardinality(S) + 1
<1>1. /\ IsFiniteSet(S \cup {x}) /\ Cardinality(S) \in Nat
      /\ Cardinality(S \cup {x}) = IF x \in S THEN Cardinality(S) ELSE Cardinality(S) + 1
  BY FS_AddElement, FS_CardinalityType
<1> QED
  BY <1>1

LEMMA InitSize == Init => SizeInv
<1> SUFFICES ASSUME Init PROVE SizeInv
  OBVIOUS
<1>1. Orphans = {}
  BY DEF Init, Orphans
<1> QED
  BY <1>1, InitRing, FS_EmptySet DEF Init, SizeInv, Extra

LEMMA SizePutEvent == SizeInv /\ PutEvent => SizeInv'
<1> SUFFICES ASSUME SizeInv, PutEvent PROVE SizeInv'
  OBVIOUS
<1>1. RingInv /\ RingInv' /\ crashes' = crashes /\ crashes \in Nat /\ seq \in Nat
  BY PutEventStep DEF SizeInv, PutEvent, RingInv, StoreTypeOK
<1>2. Orphans' = Orphans \cup {seq + 1}
  BY <1>1, BufferOK DEF PutEvent, Orphans, Low
<1>3. /\ Cardinality(Orphans) \in Nat /\ Cardinality(Orphans') \in Nat
      /\ Cardinality(Orphans') <= Cardinality(Orphans) + 1
  BY <1>1, <1>2, KeptFinite, OneMore
<1>4. Extra = 0 /\ Extra' = 1 /\ step' # "trim"
  BY DEF PutEvent, Extra
<1> QED
  BY <1>1, <1>3, <1>4 DEF SizeInv

\* The new event stops being an orphan; the oldest becomes one if the buffer is full.
LEMMA SizePutSeq == SizeInv /\ PutSeq => SizeInv'
<1> SUFFICES ASSUME SizeInv, PutSeq PROVE SizeInv'
  OBVIOUS
<1>1. /\ RingInv /\ RingInv' /\ crashes' = crashes /\ crashes \in Nat /\ seq \in Nat
      /\ kept' = kept /\ seq' = seq + 1 /\ seq + 1 \in kept
      /\ EVENT_BUFFER_SIZE \in Nat \ {0} /\ Low..seq \subseteq kept
      /\ step = "seq" /\ kept \subseteq Nat
  BY PutSeqStep, BufferOK DEF SizeInv, PutSeq, Appended, RingInv, StoreTypeOK, KeptInv
<1>2. seq + 1 \in Orphans /\ IsFiniteSet(Orphans) /\ Cardinality(Orphans) \in Nat
  BY <1>1, KeptFinite DEF Orphans
<1>3. /\ IsFiniteSet(Orphans \ {seq + 1})
      /\ Cardinality(Orphans \ {seq + 1}) = Cardinality(Orphans) - 1
  BY <1>2, FS_RemoveElement
<1>4. Cardinality(Orphans) <= crashes + 1
  BY <1>1 DEF SizeInv, Extra
<1>5. CASE seq + 1 > EVENT_BUFFER_SIZE
  <2>1. step' = "trim" /\ Low' = Low + 1 /\ Low \in Low..seq
    BY <1>1, <1>5 DEF PutSeq, Low
  <2>2. Orphans' = (Orphans \ {seq + 1}) \cup {Low}
    BY <1>1, <2>1 DEF Orphans, Low
  <2>3. Cardinality(Orphans') \in Nat /\ Cardinality(Orphans') <= Cardinality(Orphans)
    <3>1. /\ Cardinality(Orphans \ {seq + 1}) \in Nat
          /\ Cardinality((Orphans \ {seq + 1}) \cup {Low}) \in Nat
          /\ Cardinality((Orphans \ {seq + 1}) \cup {Low}) <= Cardinality(Orphans \ {seq + 1}) + 1
      BY <1>3, OneMore
    <3>2. /\ Cardinality(Orphans') \in Nat
          /\ Cardinality(Orphans') <= Cardinality(Orphans \ {seq + 1}) + 1
      BY <3>1, <2>2
    <3>3. \A a, b, c \in Nat : a <= b + 1 /\ b = c - 1 => a <= c
      OBVIOUS
    <3> QED
      BY <1>2, <1>3, <3>1, <3>2, <3>3
  <2>4. Low' - 1 \in kept' /\ Extra' = 1
    BY <1>1, <2>1 DEF Extra, Low
  <2> QED
    BY <1>1, <1>2, <1>4, <2>3, <2>4 DEF SizeInv
<1>6. CASE ~ (seq + 1 > EVENT_BUFFER_SIZE)
  <2>1. step' # "trim" /\ Low = 1 /\ Low' = 1 /\ Extra' = 0
    BY <1>1, <1>6 DEF PutSeq, Appended, Low, Extra
  <2>2. Orphans' = Orphans \ {seq + 1}
    BY <1>1, <2>1 DEF Orphans
  <2> QED
    BY <1>1, <1>2, <1>3, <1>4, <2>1, <2>2 DEF SizeInv
<1> QED
  BY <1>5, <1>6

LEMMA SizeTrim == SizeInv /\ Trim => SizeInv'
<1> SUFFICES ASSUME SizeInv, Trim PROVE SizeInv'
  OBVIOUS
<1>1. /\ RingInv /\ RingInv' /\ crashes' = crashes /\ crashes \in Nat /\ seq \in Nat
      /\ seq' = seq /\ step = "trim" /\ step' = "oldest" /\ seq > EVENT_BUFFER_SIZE
      /\ kept' = kept \ {seq - EVENT_BUFFER_SIZE} /\ EVENT_BUFFER_SIZE \in Nat \ {0}
      /\ Low - 1 \in kept
  BY TrimStep, BufferOK DEF SizeInv, Trim, RingInv, StoreTypeOK, StepInv
<1>2. Low - 1 = seq - EVENT_BUFFER_SIZE /\ Low - 1 \in Orphans /\ Low' = Low
  BY <1>1 DEF Low, Orphans
<1>3. Orphans' = Orphans \ {Low - 1}
  BY <1>1, <1>2 DEF Orphans
<1>4. Cardinality(Orphans') = Cardinality(Orphans) - 1 /\ Cardinality(Orphans) \in Nat
  BY <1>1, <1>2, <1>3, KeptFinite, FS_RemoveElement
<1>5. Extra = 1 /\ Extra' = 0
  BY <1>1 DEF Extra
<1> QED
  BY <1>1, <1>4, <1>5 DEF SizeInv

\* The other steps keep the events; a crash keeps what an append left behind.
LEMMA SizeOther ==
  ASSUME SizeInv, RingInv', kept' = kept, seq' = seq, step' # "trim", crashes' \in Nat,
         crashes + Extra <= crashes' + Extra'
  PROVE  SizeInv'
<1>1. Orphans' = Orphans
  BY DEF Orphans, Low
<1>2. Cardinality(Orphans) \in Nat /\ crashes \in Nat /\ Extra \in Nat /\ Extra' \in Nat
  BY KeptFinite DEF SizeInv, Extra
<1>3. Cardinality(Orphans) <= crashes + Extra
  BY DEF SizeInv
<1>4. \A a, b, c, d, e \in Nat : a <= b + c /\ b + c <= d + e => a <= d + e
  OBVIOUS
<1>5. Cardinality(Orphans) <= crashes' + Extra'
  BY <1>2, <1>3, <1>4
<1>6. Cardinality(Orphans') <= crashes' + Extra'
  BY <1>1, <1>5
<1> QED
  BY <1>6 DEF SizeInv

LEMMA NextSize == SizeInv /\ [Next]_vars => SizeInv'
<1> SUFFICES ASSUME SizeInv, [Next]_vars PROVE SizeInv'
  OBVIOUS
<1>1. RingInv' /\ RingInv /\ crashes \in Nat
  BY NextRing DEF SizeInv
<1>2. CASE PutEvent \/ PutSeq \/ Trim
  BY <1>2, SizePutEvent, SizePutSeq, SizeTrim
<1>3. CASE Crash
  BY <1>1, <1>3, SizeOther DEF Crash, store, Extra
<1>4. CASE PutFirstOldest \/ PutOldest
  BY <1>1, <1>4, SizeOther DEF PutFirstOldest, PutOldest, Appended, Extra
<1>5. CASE Fanout \/ \E b \in 1..MaxBatch : Publish(b)
  <2>1. /\ kept' = kept /\ seq' = seq /\ crashes' = crashes
        /\ step \in {"idle", "fanout"} /\ step' \in {"idle", "event"}
    BY <1>5 DEF Fanout, Publish, store
  <2>2. Extra = 0 /\ Extra' = 0
    BY <2>1 DEF Extra
  <2> QED
    BY <1>1, <2>1, <2>2, SizeOther
<1>6. CASE UNCHANGED <<store, step, crashes>>
  BY <1>1, <1>6 DEF SizeInv, store, Orphans, Low, Extra
<1>7. ASSUME NEW c \in Clients,
             Deliver(c) \/ Drop(c) \/ \E since \in 0..MaxSeq \cup {NoCursor} : Subscribe(c, since)
      PROVE  UNCHANGED <<store, step, crashes>>
  BY <1>7 DEF Deliver, Drop, Subscribe, handler
<1> QED
  BY <1>2, <1>3, <1>4, <1>5, <1>6, <1>7 DEF Next, HubNext, AppendEvent, vars, handler

\* However appends are cut short, the buffer holds its size and one event more for
\* each crash.
THEOREM BufferStaysBounded == Spec => []BufferIsBounded
<1>1. SizeInv => BufferIsBounded
  <2> SUFFICES ASSUME SizeInv, step = "idle"
               PROVE  Cardinality(kept) <= EVENT_BUFFER_SIZE + crashes
    BY DEF BufferIsBounded
  <2>1. /\ RingInv /\ crashes \in Nat /\ seq \in Nat /\ Cardinality(Orphans) <= crashes
        /\ Low..seq \subseteq kept /\ EVENT_BUFFER_SIZE \in Nat \ {0}
    BY BufferOK DEF SizeInv, Extra, RingInv, StoreTypeOK, KeptInv
  <2>2. Low \in Nat /\ Low <= seq + 1 /\ seq - Low + 1 <= EVENT_BUFFER_SIZE
    BY <2>1 DEF Low
  <2>3. /\ IsFiniteSet(Low..seq)
        /\ Cardinality(Low..seq) = (IF Low > seq THEN 0 ELSE seq - Low + 1)
    BY <2>1, <2>2, FS_Interval
  <2>4. /\ Cardinality(Low..seq) \in Nat /\ Cardinality(Low..seq) <= EVENT_BUFFER_SIZE
    BY <2>1, <2>2, <2>3
  <2>5. IsFiniteSet(Orphans) /\ Cardinality(Orphans) \in Nat
    BY <2>1, KeptFinite
  <2>6. kept = Orphans \cup (Low..seq) /\ Orphans \cap (Low..seq) = {}
    BY <2>1 DEF Orphans
  <2>7. Cardinality(kept) = Cardinality(Orphans) + Cardinality(Low..seq) - Cardinality({})
    <3>1. Cardinality(Orphans \cup (Low..seq))
            = Cardinality(Orphans) + Cardinality(Low..seq) - Cardinality(Orphans \cap (Low..seq))
      BY <2>3, <2>5, FS_Union
    <3> QED
      BY <3>1, <2>6
  <2>8. Cardinality({}) = 0
    BY FS_EmptySet
  <2>9. \A a, b, c, d, e \in Nat : a = b + c - 0 /\ c <= d /\ b <= e => a <= d + e
    OBVIOUS
  <2>10. Cardinality(kept) \in Nat
    BY <2>1, KeptFinite, FS_CardinalityType
  <2> QED
    BY <2>1, <2>4, <2>5, <2>7, <2>8, <2>9, <2>10
<1>2. Spec => []SizeInv
  BY InitSize, NextSize, PTL DEF Spec
<1> QED
  BY <1>1, <1>2, PTL

-----------------------------------------------------------------------------
(* The paging reader.                                                      *)

\* The clamp is a number.
LEMMA ClampedIsNat == limit \in Limits => Clamped \in Nat
<1> SUFFICES ASSUME limit \in Limits PROVE Clamped \in Nat
  OBVIOUS
<1>1. limit \in Nat /\ MAX_LIMIT \in Nat
  BY LimitsOK
<1>2. \E m \in {MAX_LIMIT, limit} : \A y \in {MAX_LIMIT, limit} : m =< y
  BY <1>1
<1>3. Min({MAX_LIMIT, limit}) \in Nat
  BY <1>1, <1>2 DEF Min
<1>4. ASSUME NEW n \in Nat PROVE \E m \in {1, n} : \A y \in {1, n} : m >= y
  <2>1. CASE n >= 1
    BY <2>1
  <2>2. CASE n = 0
    BY <2>2
  <2> QED
    BY <2>1, <2>2
<1>5. \A n \in Nat : Max({1, n}) \in {1, n}
  BY <1>4 DEF Max
<1> QED
  BY <1>3, <1>5 DEF Clamped

\* A set of numbers below a bound has a greatest one: the least distance to the
\* bound is there because the numbers are well-founded.
LEMMA GreatestExists ==
  ASSUME NEW n \in Nat, NEW S, S \subseteq 0..n, S # {}
  PROVE  Max(S) \in S /\ \A y \in S : y <= Max(S)
<1> DEFINE T == {n - x : x \in S}
<1>1. T \subseteq Nat /\ T # {}
  <2>1. ASSUME NEW x \in S PROVE n - x \in Nat
    BY <2>1
  <2> QED
    BY <2>1
<1>2. PICK d \in T : \A e \in T : ~ (<<e, d>> \in OpToRel(<, Nat))
  BY <1>1, NatLessThanWellFounded, WFMin
<1>3. \A e \in T : ~ (e < d)
  BY <1>1, <1>2 DEF OpToRel
<1>4. PICK x \in S : d = n - x
  BY <1>2
<1>5. \A y \in S : x >= y
  BY <1>3, <1>4
<1>6. \E m \in S : \A y \in S : m >= y
  BY <1>5
<1>7. Max(S) \in S /\ \A y \in S : Max(S) >= y
  BY <1>6 DEF Max
<1> QED
  BY <1>7

\* While nothing has crashed, the reader has what lies behind its cursor.
ReaderInv ==
  /\ RingInv
  /\ crashes \in Nat /\ cursor \in Nat /\ limit \in Limits
  /\ crashes = 0 => ~ torn /\ 1..cursor \subseteq got \cup told

LEMMA InitReader == StreamInit => ReaderInv
  BY InitRing DEF StreamInit, Init, ReaderInv

\* The events up to one of a page are in the page, or gone and announced.
LEMMA PageIsAPrefix ==
  ASSUME RingInv, limit \in Limits, step = "idle", ~ torn, NEW since \in Nat, NEW e \in Page(since),
         NEW k \in (since + 1)..e, ~ (Gap(since) /\ k <= oldest - 1)
  PROVE  k \in Page(since)
<1>1. /\ kept \subseteq Nat /\ seq \in Nat /\ oldest \in Nat
      /\ \A j \in kept : j <= seq
      /\ Low..seq \subseteq kept
      /\ seq <= EVENT_BUFFER_SIZE => oldest \in {0, 1}
      /\ seq > EVENT_BUFFER_SIZE => oldest = Low
      /\ EVENT_BUFFER_SIZE \in Nat \ {0}
  BY BufferOK DEF RingInv, StoreTypeOK, KeptInv, OldestInv, AtRest
<1>2. since < seq /\ e \in Replay(since)
  BY DEF Page
<1>3. e \in kept /\ e \in Nat /\ e <= seq /\ k \in Nat /\ since < k /\ k <= e
  BY <1>1, <1>2 DEF Replay
<1>4. Low <= k
  BY <1>1, <1>3 DEF Gap, Low
<1>5. k \in Replay(since)
  BY <1>1, <1>3, <1>4 DEF Replay, Low
<1> DEFINE Before(x) == {j \in Replay(since) : j < x}
<1>6. Before(k) \subseteq Before(e)
  <2>1. ASSUME NEW j \in Replay(since), j < k PROVE j < e
    BY <1>1, <1>3, <2>1 DEF Replay
  <2> QED
    BY <2>1
<1>7. IsFiniteSet(Before(e))
  <2>1. Before(e) \subseteq kept
    BY DEF Replay
  <2> QED
    BY <2>1, KeptFinite, FS_Subset
<1>8. /\ Cardinality(Before(k)) \in Nat /\ Cardinality(Before(e)) \in Nat
      /\ Cardinality(Before(k)) <= Cardinality(Before(e))
  BY <1>6, <1>7, FS_Subset, FS_CardinalityType
<1>9. Cardinality(Before(e)) < Clamped
  BY <1>2 DEF Page
<1> HIDE DEF Before
<1>10. Cardinality(Before(k)) < Clamped
  BY <1>8, <1>9, ClampedIsNat
<1> QED
  BY <1>2, <1>5, <1>10 DEF Page, Before

LEMMA ReadStep == ReaderInv /\ Read => ReaderInv'
<1> SUFFICES ASSUME ReaderInv, Read PROVE ReaderInv'
  OBVIOUS
<1> DEFINE events == Page(cursor)
<1>1. /\ UNCHANGED <<vars, limit>> /\ step = "idle"
      /\ got' = got \cup events
      /\ told' = IF Gap(cursor) THEN told \cup ((cursor + 1)..(oldest - 1)) ELSE told
      /\ cursor' = Max(events \cup {cursor})
      /\ RingInv /\ crashes \in Nat /\ cursor \in Nat /\ limit \in Limits
  BY DEF Read, ReaderInv
<1>2. RingInv' /\ crashes' = crashes /\ torn' = torn /\ limit' = limit
  <2>1. UNCHANGED <<store, handler, torn, crashes>>
    BY <1>1 DEF vars
  <2> QED
    BY <1>1, <2>1, SocketStep
<1>3. /\ kept \subseteq 0..(seq + 1) /\ seq \in Nat /\ oldest \in Nat
      /\ events \subseteq kept /\ \A e \in events : e > cursor
  BY <1>1 DEF RingInv, StoreTypeOK, KeptInv, Page, Replay
<1>4. events \cup {cursor} \subseteq 0..(seq + 1 + cursor)
  <2> HIDE DEF events
  <2>1. ASSUME NEW e \in events PROVE e \in 0..(seq + 1 + cursor)
    BY <1>1, <1>3, <2>1
  <2> QED
    BY <1>1, <1>3, <2>1
<1>5. /\ cursor' \in events \cup {cursor}
      /\ \A y \in events \cup {cursor} : y <= cursor'
  <2>1. seq + 1 + cursor \in Nat /\ events \cup {cursor} # {}
    BY <1>1, <1>3
  <2> QED
    BY <1>1, <1>4, <2>1, GreatestExists
<1>6. cursor' \in Nat
  BY <1>4, <1>5, <1>1, <1>3
<1>7. ASSUME crashes = 0 PROVE 1..cursor' \subseteq got' \cup told'
  <2>1. ~ torn /\ 1..cursor \subseteq got \cup told
    BY <1>7 DEF ReaderInv
  <2>2. SUFFICES ASSUME NEW k \in 1..cursor', ~ (k <= cursor) PROVE k \in got' \cup told'
    BY <1>1, <2>1
  <2>3. cursor' \in events /\ k \in (cursor + 1)..cursor'
    BY <1>1, <1>5, <1>6, <2>2
  <2>4. CASE Gap(cursor) /\ k <= oldest - 1
    BY <1>1, <1>3, <2>3, <2>4
  <2>5. CASE ~ (Gap(cursor) /\ k <= oldest - 1)
    <3>1. k \in events
      BY <1>1, <2>1, <2>3, <2>5, PageIsAPrefix
    <3> QED
      BY <1>1, <3>1
  <2> QED
    BY <2>4, <2>5
<1> QED
  BY <1>1, <1>2, <1>6, <1>7 DEF ReaderInv

LEMMA NextReader == ReaderInv /\ [StreamNext]_allVars => ReaderInv'
<1> SUFFICES ASSUME ReaderInv, [StreamNext]_allVars PROVE ReaderInv'
  OBVIOUS
<1>1. CASE Read
  BY <1>1, ReadStep
<1>2. ASSUME HubNext \/ UNCHANGED <<store, handler, torn, crashes>>, UNCHANGED reader
      PROVE  ReaderInv'
  <2>1. RingInv'
    BY <1>2, NextRing, SocketStep DEF ReaderInv, Next
  <2>2. crashes' \in Nat /\ (crashes' = 0 => crashes = 0 /\ (torn' => torn))
    <3>1. CASE Crash
      BY <3>1 DEF ReaderInv, Crash
    <3>2. ASSUME NEW b \in 1..MaxBatch, Publish(b) PROVE UNCHANGED <<crashes, torn>>
      BY <3>2 DEF Publish
    <3>3. ASSUME PutEvent \/ Trim \/ Fanout PROVE UNCHANGED <<crashes, torn>>
      <4>1. ASSUME Fanout PROVE crashes' = crashes /\ torn' = torn
        BY ONLY <4>1, Zenon DEF Fanout
      <4> QED
        BY <3>3, <4>1 DEF PutEvent, Trim
    <3>4. CASE PutSeq \/ PutFirstOldest \/ PutOldest
      BY <3>4 DEF ReaderInv, PutSeq, PutFirstOldest, PutOldest, Appended
    <3> QED
      BY <1>2, <3>1, <3>2, <3>3, <3>4 DEF ReaderInv, HubNext, AppendEvent
  <2> QED
    BY <1>2, <2>1, <2>2 DEF ReaderInv, reader
<1>3. ASSUME NEW c \in Clients, Connect(c) \/ Receive(c) \/ Poll(c) \/ Disconnect(c)
      PROVE  UNCHANGED <<store, handler, torn, crashes>> /\ UNCHANGED reader
  BY <1>3 DEF Connect, Receive, Poll, Disconnect, Deliver, Drop, Subscribe, vars
<1>4. CASE Hub
  BY <1>2, <1>4 DEF Hub
<1>5. CASE UNCHANGED allVars
  BY <1>2, <1>5 DEF allVars, vars
<1> QED
  BY <1>1, <1>2, <1>3, <1>4, <1>5 DEF StreamNext

\* GET /v1/webhooks/events: a reader that pages with ?since and any limit has, or
\* was told of the loss of, every event up to its cursor, while the object lives.
THEOREM ReadersMissNothing == StreamSpec => []ReaderMissesNothing
<1>1. ReaderInv => ReaderMissesNothing
  BY DEF ReaderInv, ReaderMissesNothing
<1> QED
  BY <1>1, InitReader, NextReader, PTL DEF StreamSpec
-----------------------------------------------------------------------------
(* Keys in order.  A set of numbers has an i-th one, and that of an        *)
(* interval is where it should be.                                         *)

LEMMA LeastExists ==
  ASSUME NEW S, S \subseteq Nat, S # {}
  PROVE  \E m \in S : \A y \in S : m <= y
<1>1. PICK m \in S : \A y \in S : ~ (<<y, m>> \in OpToRel(<, Nat))
  BY NatLessThanWellFounded, WFMin
<1>2. \A y \in S : ~ (y < m)
  BY <1>1 DEF OpToRel
<1> QED
  BY <1>2

LEMMA NthKey ==
  ASSUME NEW n \in Nat, NEW S, S \subseteq 0..n, NEW i \in 1..Cardinality(S)
  PROVE  Nth(S, i) \in S /\ Cardinality({j \in S : j < Nth(S, i)}) = i - 1
<1> DEFINE Below(m) == {j \in S : j < m}
           T == {m \in Nat : Cardinality(Below(m)) >= i}
<1>1. IsFiniteSet(S) /\ Cardinality(S) \in Nat
  <2>1. IsFiniteSet(0..n)
    BY FS_Interval
  <2> QED
    BY <2>1, FS_Subset, FS_CardinalityType
<1>2. \A m \in Nat : IsFiniteSet(Below(m)) /\ Cardinality(Below(m)) \in Nat
  <2>1. \A m \in Nat : Below(m) \subseteq S
    OBVIOUS
  <2> HIDE DEF Below
  <2> QED
    BY <1>1, <2>1, FS_Subset, FS_CardinalityType
<1>3. n + 1 \in T
  <2>1. \A j \in S : j < n + 1
    OBVIOUS
  <2>2. Below(n + 1) = S
    BY <2>1
  <2>3. Cardinality(Below(n + 1)) >= i
    BY <1>1, <2>2
  <2> QED
    BY <2>3
<1>4. PICK m \in T : \A y \in T : m <= y
  <2>1. T \subseteq Nat /\ T # {}
    BY <1>3
  <2> HIDE DEF T
  <2> QED
    BY <2>1, LeastExists
<1>5. m # 0
  <2>0. \A j \in S : ~ (j < 0)
    OBVIOUS
  <2>1. Below(0) = {}
    BY <2>0
  <2>2. Cardinality(Below(0)) = 0
    BY <2>1, FS_EmptySet
  <2> QED
    BY <1>1, <1>4, <2>2
<1>6. m - 1 \in Nat /\ Cardinality(Below(m - 1)) < i /\ Cardinality(Below(m)) >= i
  <2>1. m - 1 \in Nat /\ ~ (m <= m - 1)
    BY <1>4, <1>5
  <2>2. m - 1 \notin T
    BY <1>4, <2>1
  <2>3. Cardinality(Below(m - 1)) \in Nat
    BY <1>2, <2>1
  <2> QED
    BY <1>1, <1>4, <2>1, <2>2, <2>3
<1>7. m - 1 \in S /\ Below(m) = Below(m - 1) \cup {m - 1}
  <2>1. \A j \in S : j < m <=> j < m - 1 \/ j = m - 1
    BY <1>6
  <2>2. m - 1 \notin S => Below(m) = Below(m - 1)
    BY <2>1
  <2>3. m - 1 \in S
    <3> HIDE DEF Below
    <3>1. Cardinality(Below(m - 1)) \in Nat /\ i \in Nat
      BY <1>1, <1>2, <1>6
    <3> QED
      BY <1>6, <2>2, <3>1
  <2> QED
    BY <2>1, <2>3
<1>8. Cardinality(Below(m - 1)) = i - 1
  <2>1. m - 1 \notin Below(m - 1)
    BY <1>6
  <2> HIDE DEF Below
  <2>2. Cardinality(Below(m)) = Cardinality(Below(m - 1)) + 1
    BY <1>2, <1>6, <1>7, <2>1, FS_AddElement
  <2>3. Cardinality(Below(m - 1)) \in Nat /\ i \in Nat
    BY <1>1, <1>2, <1>6
  <2> QED
    BY <1>6, <2>2, <2>3
<1>9. \E k \in S : Cardinality({j \in S : j < k}) = i - 1
  BY <1>7, <1>8
<1> QED
  BY ONLY <1>9, Zenon DEF Nth

LEMMA IntervalSize ==
  ASSUME NEW a \in Nat, NEW b \in Int, a <= b + 1
  PROVE  Cardinality(a..b) = b + 1 - a /\ b + 1 - a \in Nat
<1>1. Cardinality(a..b) = IF a > b THEN 0 ELSE b - a + 1
  BY FS_Interval
<1> QED
  BY <1>1

LEMMA NthOfInterval ==
  ASSUME NEW a \in Nat, NEW b \in Nat, a <= b + 1, NEW i \in 1..(b + 1 - a)
  PROVE  Nth(a..b, i) = a + i - 1
<1> DEFINE k == Nth(a..b, i)
<1>1. Cardinality(a..b) = b + 1 - a /\ b + 1 - a \in Nat
  BY IntervalSize
<1>2. k \in a..b /\ Cardinality({j \in a..b : j < k}) = i - 1
  <2>1. a..b \subseteq 0..b /\ i \in 1..Cardinality(a..b)
    BY <1>1
  <2> QED
    BY <2>1, NthKey
<1> HIDE DEF k
<1>3. {j \in a..b : j < k} = a..(k - 1)
  BY <1>2
<1>4. Cardinality(a..(k - 1)) = k - a
  <2>1. k - 1 \in Int /\ a <= (k - 1) + 1 /\ (k - 1) + 1 - a = k - a
    BY <1>2
  <2> QED
    BY <2>1, IntervalSize
<1>5. k = a + i - 1
  <2>1. k - a = i - 1
    BY ONLY <1>2, <1>3, <1>4, Zenon
  <2>2. k \in Int
    BY <1>2
  <2> QED
    BY <2>1, <2>2
<1> QED
  BY <1>5 DEF k

-----------------------------------------------------------------------------
(* The frames on their way.                                                *)

\* An event has a number; the others may speak of an empty buffer.
Sent == {f \in Frame : f.type = "release.created" => f.seq > 0}

LEMMA FramesOfKeys ==
  ASSUME NEW S, S \subseteq 1..MaxSeq
  PROVE  EventFrames(S) \in Seq(Sent)
<1>1. MaxSeq \in Nat /\ S \subseteq 0..MaxSeq
  BY BoundsOK
<1>2. Cardinality(S) \in Nat
  <2>1. IsFiniteSet(0..MaxSeq)
    BY <1>1, FS_Interval
  <2> QED
    BY <1>1, <2>1, FS_Subset, FS_CardinalityType
<1>3. \A i \in 1..Cardinality(S) : Nth(S, i) \in 1..MaxSeq
  BY <1>1, NthKey
<1>4. \A i \in 1..Cardinality(S) : [type |-> "release.created", seq |-> Nth(S, i)] \in Sent
  BY <1>1, <1>3 DEF Sent, Frame
<1>5. EventFrames(S) \in [1..Cardinality(S) -> Sent]
  BY <1>4 DEF EventFrames
<1> QED
  BY <1>2, <1>5

LEMMA FramesOfInterval ==
  ASSUME NEW a \in Nat, NEW b \in Nat, a <= b + 1
  PROVE  EventFrames(a..b) =
           [i \in 1..(b + 1 - a) |-> [type |-> "release.created", seq |-> a + i - 1]]
<1>1. Cardinality(a..b) = b + 1 - a
  BY IntervalSize
<1>2. \A i \in 1..(b + 1 - a) : Nth(a..b, i) = a + i - 1
  BY NthOfInterval
<1> QED
  BY <1>1, <1>2 DEF EventFrames

SocketTypes ==
  /\ wire \in [Clients -> Seq(Sent) \cup {Closed}]
  /\ upto \in [Clients -> Nat]

\* The events numbered so far and those still to come stay within the bound.
HubInv ==
  /\ RingInv /\ TypeOK /\ SocketTypes
  /\ start <= seq
  /\ step \in {"event", "seq"} => seq + todo <= MaxSeq
  /\ step \in {"first", "trim", "oldest"} => seq + todo <= MaxSeq + 1
  /\ torn => crashes > 0

LEMMA WireTypes ==
  SocketTypes => \A c \in Clients : wire[c] = Closed \/ Range(wire[c]) \subseteq Frame
<1> SUFFICES ASSUME SocketTypes, NEW c \in Clients, wire[c] # Closed
             PROVE  Range(wire[c]) \subseteq Frame
  OBVIOUS
<1>1. wire[c] \in Seq(Sent)
  BY DEF SocketTypes
<1>2. \A i \in DOMAIN wire[c] : wire[c][i] \in Sent
  BY <1>1
<1> QED
  BY <1>2 DEF Range, Sent

LEMMA InitHub == Init => HubInv
<1> SUFFICES ASSUME Init PROVE HubInv
  OBVIOUS
<1>1. RingInv
  BY InitRing
<1>2. TypeOK
  BY <1>1, BoundsOK DEF Init, TypeOK, RingInv
<1> QED
  BY <1>1, <1>2 DEF Init, HubInv, SocketTypes

\* The writes of appendEvent and the start of a /publish.
LEMMA WriteStep ==
  ASSUME HubInv, RingInv', AppendEvent \/ \E b \in 1..MaxBatch : Publish(b)
  PROVE  HubInv'
<1>1. /\ RingInv /\ UNCHANGED <<wire, upto, crashes>>
      /\ wire \in [Clients -> Seq(Sent) \cup {Closed}] /\ upto \in [Clients -> Nat]
  BY DEF HubInv, SocketTypes, sockets, AppendEvent, PutEvent, PutSeq, PutFirstOldest, Trim,
         PutOldest, Publish, Appended
<1>2. SocketTypes'
  BY <1>1 DEF SocketTypes
<1>3. /\ MaxSeq \in Nat /\ MaxBatch \in Nat /\ EVENT_BUFFER_SIZE \in Nat \ {0}
      /\ kept \subseteq 1..MaxSeq /\ seq \in 0..MaxSeq /\ oldest \in 0..MaxSeq
      /\ todo \in 0..MaxBatch /\ start \in Nat /\ start <= seq /\ torn \in BOOLEAN
      /\ step \in {"event", "seq"} => seq + todo <= MaxSeq
      /\ step \in {"first", "trim", "oldest"} => seq + todo <= MaxSeq + 1
      /\ step \in {"event", "seq", "first", "trim", "oldest"} => todo > 0
      /\ step = "first" => seq = 1
      /\ step \in {"trim", "oldest"} => seq > EVENT_BUFFER_SIZE
      /\ torn => crashes > 0
  BY BoundsOK, BufferOK DEF HubInv, TypeOK, RingInv, StoreTypeOK, StepInv
<1>4. /\ kept' \subseteq 1..MaxSeq /\ seq' \in 0..MaxSeq /\ oldest' \in 0..MaxSeq
      /\ todo' \in 0..MaxBatch /\ start' <= seq'
      /\ step' \in {"event", "seq"} => seq' + todo' <= MaxSeq
      /\ step' \in {"first", "trim", "oldest"} => seq' + todo' <= MaxSeq + 1
      /\ torn' => torn
  <2>1. CASE \E b \in 1..MaxBatch : Publish(b)
    BY <1>3, <2>1 DEF Publish, store
  <2>2. CASE PutEvent
    BY <1>3, <2>2 DEF PutEvent
  <2>3. CASE PutSeq
    BY <1>3, <2>3 DEF PutSeq, Appended
  <2>4. CASE PutFirstOldest
    BY <1>3, <2>4 DEF PutFirstOldest, Appended
  <2>5. CASE Trim
    BY <1>3, <2>5 DEF Trim
  <2>6. CASE PutOldest
    BY <1>3, <2>6 DEF PutOldest, Appended
  <2> QED
    BY <2>1, <2>2, <2>3, <2>4, <2>5, <2>6 DEF AppendEvent
<1>5. TypeOK'
  <2>1. \A c \in Clients : wire'[c] = Closed \/ Range(wire'[c]) \subseteq Frame
    <3>1. \A c \in Clients : wire[c] = Closed \/ Range(wire[c]) \subseteq Frame
      BY WireTypes DEF HubInv
    <3> QED
      BY <1>1, <3>1
  <2>2. crashes' \in 0..MaxCrashes /\ upto' \in [Clients -> Nat] /\ StoreTypeOK'
    BY <1>1 DEF HubInv, TypeOK, RingInv
  <2> QED
    BY <1>4, <2>1, <2>2 DEF TypeOK
<1> QED
  BY <1>1, <1>2, <1>3, <1>4, <1>5 DEF HubInv

\* The steps of the sockets: new frames, or new ends of them.
LEMMA WireStep ==
  ASSUME HubInv, RingInv', UNCHANGED <<kept, seq, oldest, start>>, SocketTypes',
         todo' \in 0..MaxBatch, step' = step \/ step' = "idle", todo' = todo \/ step' = "idle",
         crashes' \in 0..MaxCrashes, crashes' >= crashes, torn' => torn \/ crashes' > 0
  PROVE  HubInv'
<1>1. \A c \in Clients : wire'[c] = Closed \/ Range(wire'[c]) \subseteq Frame
  <2> SUFFICES ASSUME NEW c \in Clients, wire'[c] # Closed PROVE Range(wire'[c]) \subseteq Frame
    OBVIOUS
  <2>1. wire'[c] \in Seq(Sent)
    BY DEF SocketTypes
  <2>2. \A i \in DOMAIN wire'[c] : wire'[c][i] \in Sent
    BY <2>1
  <2> QED
    BY <2>2 DEF Range, Sent
<1>2. TypeOK'
  <2>1. StoreTypeOK' /\ upto' \in [Clients -> Nat]
    BY DEF RingInv, SocketTypes
  <2> QED
    BY <1>1, <2>1 DEF HubInv, TypeOK
<1>3. torn' => crashes' > 0
  BY BoundsOK DEF HubInv, TypeOK
<1>4. /\ start' <= seq'
      /\ step' \in {"event", "seq"} => seq' + todo' <= MaxSeq
      /\ step' \in {"first", "trim", "oldest"} => seq' + todo' <= MaxSeq + 1
  BY DEF HubInv
<1> QED
  BY <1>2, <1>3, <1>4 DEF HubInv

LEMMA FanoutTypes ==
  ASSUME HubInv, Fanout
  PROVE  SocketTypes'
<1>1. /\ wire \in [Clients -> Seq(Sent) \cup {Closed}] /\ upto \in [Clients -> Nat] /\ upto' = upto
      /\ start \in Nat /\ seq \in 0..MaxSeq /\ MaxSeq \in Nat
  BY BoundsOK, Zenon DEF HubInv, SocketTypes, TypeOK, StoreTypeOK, Fanout
<1> DEFINE new == EventFrames((start + 1)..seq)
<1>2. new \in Seq(Sent)
  <2>1. (start + 1)..seq \subseteq 1..MaxSeq
    BY <1>1
  <2> QED
    BY <2>1, FramesOfKeys
<1>3. wire' = [c \in Clients |-> IF wire[c] = Closed THEN Closed ELSE wire[c] \o new]
  BY ONLY Fanout, Zenon DEF Fanout
<1> HIDE DEF new
<1>4. \A c \in Clients : wire[c] # Closed => wire[c] \o new \in Seq(Sent)
  BY <1>1, <1>2
<1>5. wire' \in [Clients -> Seq(Sent) \cup {Closed}]
  BY <1>3, <1>4
<1> QED
  BY <1>1, <1>5 DEF SocketTypes

LEMMA AnswerTypes ==
  ASSUME HubInv, NEW since
  PROVE  Answer(since) \in Seq(Sent)
<1>1. MaxSeq \in Nat /\ oldest \in 0..MaxSeq /\ kept \subseteq 1..MaxSeq
  BY BoundsOK DEF HubInv, TypeOK
<1>2. [type |-> "snapshot_gap", seq |-> oldest] \in Sent
  BY <1>1 DEF Sent, Frame
<1>3. <<[type |-> "snapshot_gap", seq |-> oldest]>> \in Seq(Sent) /\ <<>> \in Seq(Sent)
  BY <1>2
<1>4. EventFrames(Replay(since)) \in Seq(Sent)
  <2>1. Replay(since) \subseteq 1..MaxSeq
    BY <1>1 DEF Replay
  <2> QED
    BY <2>1, FramesOfKeys
<1>5. Answer(since) \in {<<>>, <<[type |-> "snapshot_gap", seq |-> oldest]>>,
                         EventFrames(Replay(since))}
  BY ONLY Zenon DEF Answer
<1> QED
  BY ONLY <1>3, <1>4, <1>5, Zenon

LEMMA SubscribeTypes ==
  ASSUME HubInv, NEW c \in Clients, NEW since \in 0..MaxSeq \cup {NoCursor}, Subscribe(c, since)
  PROVE  SocketTypes'
<1>1. /\ wire \in [Clients -> Seq(Sent) \cup {Closed}] /\ upto \in [Clients -> Nat]
      /\ seq \in 0..MaxSeq /\ MaxSeq \in Nat
  BY BoundsOK DEF HubInv, SocketTypes, TypeOK
<1> DEFINE greeting == <<[type |-> "ready", seq |-> seq]>> \o Answer(since)
<1>2. greeting \in Seq(Sent)
  <2>1. [type |-> "ready", seq |-> seq] \in Sent
    BY <1>1 DEF Sent, Frame
  <2>2. Answer(since) \in Seq(Sent)
    BY AnswerTypes
  <2> QED
    BY <2>1, <2>2
<1>3. wire' = [wire EXCEPT ![c] = greeting]
  BY ONLY Subscribe(c, since), Zenon DEF Subscribe
<1> HIDE DEF greeting
<1>4. wire' \in [Clients -> Seq(Sent) \cup {Closed}]
  BY <1>1, <1>2, <1>3
<1>5. upto' \in [Clients -> Nat]
  <2>1. PICK n \in Nat : upto' = [upto EXCEPT ![c] = n]
    <3> DEFINE n == 1 + (IF since = NoCursor \/ since > seq \/ Gap(since) THEN seq ELSE since)
    <3>1. upto' = [upto EXCEPT ![c] = n]
      BY DEF Subscribe
    <3>2. n \in Nat
      BY <1>1
    <3> HIDE DEF n
    <3> QED
      BY <3>1, <3>2
  <2> QED
    BY <1>1, <2>1
<1> QED
  BY <1>4, <1>5 DEF SocketTypes

LEMMA DeliverTypes ==
  ASSUME HubInv, NEW c \in Clients, Deliver(c)
  PROVE  SocketTypes'
<1>1. /\ wire \in [Clients -> Seq(Sent) \cup {Closed}] /\ upto \in [Clients -> Nat]
      /\ wire[c] # Closed /\ wire[c] # <<>> /\ wire' = [wire EXCEPT ![c] = Tail(wire[c])]
      /\ upto' = upto \/ upto' = [upto EXCEPT ![c] = upto[c] + 1]
  BY DEF HubInv, SocketTypes, Deliver
<1>2. wire[c] \in Seq(Sent) /\ Tail(wire[c]) \in Seq(Sent)
  BY <1>1
<1>3. wire' \in [Clients -> Seq(Sent) \cup {Closed}]
  BY <1>1, <1>2
<1>4. upto' \in [Clients -> Nat]
  BY <1>1
<1> QED
  BY <1>3, <1>4 DEF SocketTypes

LEMMA HubSteps == HubInv /\ [Next]_vars => HubInv'
<1> SUFFICES ASSUME HubInv, [Next]_vars PROVE HubInv'
  OBVIOUS
<1>1. RingInv'
  BY NextRing DEF HubInv
<1>2. CASE AppendEvent \/ \E b \in 1..MaxBatch : Publish(b)
  BY <1>1, <1>2, WriteStep
<1>3. /\ todo \in 0..MaxBatch /\ 0 \in 0..MaxBatch /\ crashes \in 0..MaxCrashes /\ crashes >= crashes
      /\ MaxCrashes \in Nat /\ wire \in [Clients -> Seq(Sent) \cup {Closed}] /\ upto \in [Clients -> Nat]
  BY BoundsOK DEF HubInv, TypeOK, SocketTypes
<1>4. CASE Fanout
  <2>1. /\ UNCHANGED <<kept, seq, oldest, start, todo, crashes, torn>> /\ step' = "idle"
    BY ONLY <1>4, Zenon DEF Fanout, store
  <2>2. SocketTypes'
    BY <1>4, FanoutTypes
  <2> QED
    BY <1>1, <1>3, <2>1, <2>2, WireStep
<1>5. CASE Crash
  <2>1. /\ UNCHANGED <<kept, seq, oldest, start>> /\ step' = "idle" /\ todo' = 0
        /\ crashes' = crashes + 1 /\ crashes < MaxCrashes
        /\ wire' = [c \in Clients |-> Closed] /\ upto' = [c \in Clients |-> 0]
    BY <1>5 DEF Crash, store
  <2>2. SocketTypes'
    BY <2>1 DEF SocketTypes
  <2>3. crashes' \in 0..MaxCrashes /\ crashes' >= crashes /\ crashes' > 0
    BY <1>3, <2>1
  <2> QED
    BY <1>1, <1>3, <2>1, <2>2, <2>3, WireStep
<1>6. ASSUME NEW c \in Clients, Deliver(c) PROVE HubInv'
  <2>1. UNCHANGED <<kept, seq, oldest, start, step, todo, crashes, torn>>
    BY <1>6 DEF Deliver, store, handler
  <2>2. SocketTypes'
    BY <1>6, DeliverTypes
  <2> QED
    BY <1>1, <1>3, <2>1, <2>2, WireStep
<1>7. ASSUME NEW c \in Clients, Drop(c) PROVE HubInv'
  <2>1. /\ UNCHANGED <<kept, seq, oldest, start, step, todo, crashes, torn>>
        /\ wire' = [wire EXCEPT ![c] = Closed] /\ upto' = [upto EXCEPT ![c] = 0]
    BY <1>7 DEF Drop, store, handler
  <2>2. SocketTypes'
    BY <1>3, <2>1 DEF SocketTypes
  <2> QED
    BY <1>1, <1>3, <2>1, <2>2, WireStep
<1>8. ASSUME NEW c \in Clients, NEW since \in 0..MaxSeq \cup {NoCursor}, Subscribe(c, since)
      PROVE  HubInv'
  <2>1. UNCHANGED <<kept, seq, oldest, start, step, todo, crashes, torn>>
    BY <1>8 DEF Subscribe, store, handler
  <2>2. SocketTypes'
    BY <1>8, SubscribeTypes
  <2> QED
    BY <1>1, <1>3, <2>1, <2>2, WireStep
<1>9. CASE UNCHANGED vars
  <2>1. UNCHANGED <<kept, seq, oldest, start, step, todo, crashes, torn, wire, upto>>
    BY <1>9 DEF vars, store, handler, sockets
  <2>2. SocketTypes'
    BY <1>3, <2>1 DEF SocketTypes
  <2> QED
    BY <1>1, <1>3, <2>1, <2>2, WireStep
<1> QED
  BY <1>2, <1>4, <1>5, <1>6, <1>7, <1>8, <1>9 DEF Next, HubNext

\* Storage, handler and sockets keep their types, and no event is numbered past
\* what its /publish was let in for.
THEOREM HubInvariance == Spec => []HubInv
<1>1. Init => HubInv
  BY InitHub
<1>2. HubInv /\ [Next]_vars => HubInv'
  BY HubSteps
<1> QED
  BY <1>1, <1>2, PTL DEF Spec

-----------------------------------------------------------------------------
(* The events on their way to a socket, while the object lives.            *)

\* The last event that was broadcast: a batch is, when it is all in storage.
Aired == IF step = "idle" THEN seq ELSE start

Pushed(k) == [type |-> "release.created", seq |-> k]

\* Behind n frames of another kind come the events from u to h, one by one.
Carries(w, u, n, h) ==
  /\ Len(w) = n + (h + 1 - u)
  /\ \A i \in 1..n : w[i].type # "release.created"
  /\ \A i \in 1..(h + 1 - u) : w[n + i] = Pushed(u + i - 1)

Contiguous(w, u, h) == u <= h + 1 /\ \E n \in Nat : Carries(w, u, n, h)

FrameInv ==
  /\ HubInv
  /\ crashes = 0 =>
       \A c \in Clients : wire[c] # Closed => Contiguous(wire[c], upto[c], Aired)

LEMMA PushedInterval ==
  ASSUME NEW a \in Nat, NEW b \in Nat, a <= b + 1
  PROVE  EventFrames(a..b) = [i \in 1..(b + 1 - a) |-> Pushed(a + i - 1)]
  BY FramesOfInterval DEF Pushed

LEMMA NoFrames == EventFrames({}) = <<>>
<1>1. Cardinality({}) = 0
  BY FS_EmptySet
<1>2. EventFrames({}) \in Seq(Sent)
  BY FramesOfKeys
<1>3. DOMAIN EventFrames({}) = 1..0
  BY <1>1 DEF EventFrames
<1> QED
  BY <1>2, <1>3

\* A broadcast goes on where the frames before it end.
LEMMA FanoutFrames ==
  ASSUME NEW w \in Seq(Sent), NEW u \in Nat, NEW h \in Nat, NEW k \in Nat, h <= k,
         Contiguous(w, u, h)
  PROVE  Contiguous(w \o EventFrames((h + 1)..k), u, k)
<1>1. u <= h + 1
  BY DEF Contiguous
<1>2. PICK n \in Nat : Carries(w, u, n, h)
  BY DEF Contiguous
<1> DEFINE new == [i \in 1..(k - h) |-> Pushed(h + i)]
           v == w \o new
<1>3. EventFrames((h + 1)..k) = new
  <2>1. EventFrames((h + 1)..k) = [i \in 1..(k + 1 - (h + 1)) |-> Pushed((h + 1) + i - 1)]
    BY PushedInterval
  <2>2. k + 1 - (h + 1) = k - h /\ \A i \in 1..(k - h) : (h + 1) + i - 1 = h + i
    OBVIOUS
  <2> QED
    BY <2>1, <2>2
<1> DEFINE All == Sent \cup {Pushed(j) : j \in Nat}
<1>4. new \in Seq(All) /\ Len(new) = k - h /\ \A i \in 1..(k - h) : new[i] = Pushed(h + i)
  <2>1. k - h \in Nat /\ \A i \in 1..(k - h) : Pushed(h + i) \in All
    OBVIOUS
  <2> HIDE DEF All
  <2>2. new \in [1..(k - h) -> All]
    BY <2>1
  <2> QED
    BY <2>1, <2>2
<1> HIDE DEF new
<1>5. /\ Len(w) \in Nat /\ Len(w) = n + (h + 1 - u)
      /\ \A i \in 1..n : w[i].type # "release.created"
      /\ \A i \in 1..(h + 1 - u) : w[n + i] = Pushed(u + i - 1)
  BY <1>2 DEF Carries
<1>6. /\ Len(v) = Len(w) + (k - h)
      /\ \A i \in 1..Len(w) : v[i] = w[i]
      /\ \A i \in 1..(k - h) : v[Len(w) + i] = new[i]
  <2>1. w \in Seq(All)
    OBVIOUS
  <2> HIDE DEF All
  <2>2. Len(v) = Len(w) + Len(new)
    BY <1>4, <2>1
  <2>3. \A i \in 1..(Len(w) + Len(new)) : v[i] = IF i <= Len(w) THEN w[i] ELSE new[i - Len(w)]
    BY <1>4, <2>1
  <2>4. k - h \in Nat
    OBVIOUS
  <2> HIDE DEF v
  <2> QED
    BY <1>4, <1>5, <2>2, <2>3, <2>4
<1> HIDE DEF v, All
<1>7. Len(v) = n + (k + 1 - u)
  BY <1>5, <1>6
<1>8. \A i \in 1..n : v[i].type # "release.created"
  BY <1>1, <1>5, <1>6
<1>9. ASSUME NEW i \in 1..(k + 1 - u) PROVE v[n + i] = Pushed(u + i - 1)
  <2>1. CASE i <= h + 1 - u
    <3>1. i \in 1..(h + 1 - u) /\ n + i \in 1..Len(w)
      BY <1>1, <1>5, <2>1
    <3> QED
      BY <1>5, <1>6, <3>1
  <2>2. CASE ~ (i <= h + 1 - u)
    <3> DEFINE j == i - (h + 1 - u)
    <3>1. j \in 1..(k - h) /\ n + i = Len(w) + j /\ h + j = u + i - 1
      BY <1>1, <1>5, <2>2
    <3> HIDE DEF j
    <3> QED
      BY <1>4, <1>6, <3>1
  <2> QED
    BY <2>1, <2>2
<1>10. Contiguous(v, u, k)
  BY <1>1, <1>7, <1>8, <1>9 DEF Contiguous, Carries
<1> QED
  BY <1>3, <1>10 DEF v

\* A frame that is received is the next event, or speaks of none.
LEMMA DeliverFrames ==
  ASSUME NEW w \in Seq(Sent), w # <<>>, NEW u \in Nat, NEW h \in Nat, Contiguous(w, u, h)
  PROVE  Contiguous(Tail(w), IF Head(w).type = "release.created" THEN u + 1 ELSE u, h)
<1>1. u <= h + 1
  BY DEF Contiguous
<1>2. PICK n \in Nat : Carries(w, u, n, h)
  BY DEF Contiguous
<1>3. /\ Len(w) \in Nat /\ Len(w) >= 1 /\ Len(w) = n + (h + 1 - u)
      /\ \A i \in 1..n : w[i].type # "release.created"
      /\ \A i \in 1..(h + 1 - u) : w[n + i] = Pushed(u + i - 1)
      /\ Head(w) = w[1]
  BY <1>2 DEF Carries
<1>4. Len(Tail(w)) = Len(w) - 1 /\ \A i \in 1..(Len(w) - 1) : Tail(w)[i] = w[i + 1]
  BY <1>3
<1>5. CASE n = 0
  <2>1. 1 \in 1..(h + 1 - u) /\ u + 1 <= h + 1
    BY <1>1, <1>3, <1>5
  <2>2. w[1].type = "release.created"
    <3>1. w[n + 1] = Pushed(u + 1 - 1) /\ n + 1 = 1
      BY <1>3, <1>5, <2>1
    <3> QED
      BY <3>1 DEF Pushed
  <2>3. Len(Tail(w)) = 0 + (h + 1 - (u + 1))
    BY <1>3, <1>4, <1>5
  <2>4. ASSUME NEW i \in 1..(h + 1 - (u + 1)) PROVE Tail(w)[0 + i] = Pushed((u + 1) + i - 1)
    <3>1. i + 1 \in 1..(h + 1 - u) /\ i \in 1..(Len(w) - 1) /\ u + (i + 1) - 1 = (u + 1) + i - 1
      BY <1>3, <1>5
    <3> QED
      BY <1>3, <1>4, <1>5, <3>1
  <2>5. Carries(Tail(w), u + 1, 0, h)
    BY <2>3, <2>4 DEF Carries
  <2> QED
    BY <1>3, <2>1, <2>2, <2>5 DEF Contiguous
<1>6. CASE n > 0
  <2>1. w[1].type # "release.created" /\ n - 1 \in Nat
    BY <1>3, <1>6
  <2>2. Len(Tail(w)) = (n - 1) + (h + 1 - u)
    BY <1>3, <1>4
  <2>3. \A i \in 1..(n - 1) : Tail(w)[i].type # "release.created"
    <3> SUFFICES ASSUME NEW i \in 1..(n - 1) PROVE Tail(w)[i].type # "release.created"
      OBVIOUS
    <3>1. i + 1 \in 1..n /\ i \in 1..(Len(w) - 1)
      BY <1>1, <1>3, <1>6
    <3> QED
      BY <1>3, <1>4, <3>1
  <2>4. ASSUME NEW i \in 1..(h + 1 - u) PROVE Tail(w)[(n - 1) + i] = Pushed(u + i - 1)
    <3>1. (n - 1) + i \in 1..(Len(w) - 1) /\ ((n - 1) + i) + 1 = n + i
      BY <1>3, <1>6
    <3> QED
      BY <1>3, <1>4, <3>1
  <2>5. Carries(Tail(w), u, n - 1, h)
    BY <2>2, <2>3, <2>4 DEF Carries
  <2> QED
    BY <1>1, <1>3, <2>1, <2>5 DEF Contiguous
<1> QED
  BY <1>5, <1>6

\* A subscriber is sent the events after its cursor, or counts from the head.
LEMMA SubscribeFrames ==
  ASSUME HubInv, step = "idle", ~ torn, NEW since \in 0..MaxSeq \cup {NoCursor}
  PROVE  Contiguous(<<[type |-> "ready", seq |-> seq]>> \o Answer(since),
                    1 + (IF since = NoCursor \/ since > seq \/ Gap(since) THEN seq ELSE since),
                    seq)
<1>1. seq \in Nat /\ oldest \in Nat
  BY BoundsOK DEF HubInv, TypeOK
<1> DEFINE ready == <<[type |-> "ready", seq |-> seq]>>
<1>2. CASE since = NoCursor \/ since > seq \/ Gap(since)
  <2>1. Answer(since) = <<>> \/ Answer(since) = <<[type |-> "snapshot_gap", seq |-> oldest]>>
    <3>1. CASE since = NoCursor
      BY ONLY <3>1, Zenon DEF Answer
    <3>2. CASE since # NoCursor /\ Gap(since)
      BY ONLY <3>2, Zenon DEF Answer
    <3>3. CASE since # NoCursor /\ ~ Gap(since)
      <4>1. ~ (since < seq)
        BY <1>1, <1>2, <3>3
      <4> QED
        BY ONLY <3>3, <4>1, Zenon DEF Answer
    <3> QED
      BY <3>1, <3>2, <3>3
  <2>2. PICK n \in Nat : Carries(ready \o Answer(since), seq + 1, n, seq)
    <3>1. CASE Answer(since) = <<>>
      <4>1. Carries(ready \o <<>>, seq + 1, 1, seq)
        BY <1>1 DEF Carries
      <4> QED
        BY <3>1, <4>1
    <3>2. CASE Answer(since) = <<[type |-> "snapshot_gap", seq |-> oldest]>>
      <4>1. Carries(ready \o <<[type |-> "snapshot_gap", seq |-> oldest]>>, seq + 1, 2, seq)
        BY <1>1 DEF Carries
      <4> QED
        BY <3>2, <4>1
    <3> QED
      BY <2>1, <3>1, <3>2
  <2>3. Contiguous(ready \o Answer(since), seq + 1, seq)
    BY <1>1, <2>2 DEF Contiguous
  <2>4. 1 + (IF since = NoCursor \/ since > seq \/ Gap(since) THEN seq ELSE since) = seq + 1
    BY <1>1, <1>2
  <2> QED
    BY <2>3, <2>4
<1>3. CASE ~ (since = NoCursor \/ since > seq \/ Gap(since))
  <2>1. since \in 0..seq /\ since # NoCursor /\ ~ Gap(since)
    BY <1>1, <1>3
  <2>2. Answer(since) = EventFrames((since + 1)..seq)
    <3>1. CASE since < seq
      <4>1. Replay(since) = (since + 1)..seq
        BY <2>1, RingIsHonest DEF HubInv, GapIsHonest
      <4>2. Answer(since) = EventFrames(Replay(since))
        BY ONLY <2>1, <3>1, Zenon DEF Answer
      <4> QED
        BY <4>1, <4>2
    <3>2. CASE since = seq
      <4>1. Answer(since) = <<>>
        <5>1. ~ (since < seq)
          BY <1>1, <3>2
        <5> QED
          BY ONLY <2>1, <5>1, Zenon DEF Answer
      <4>2. (since + 1)..seq = {}
        BY <1>1, <3>2
      <4>3. EventFrames({}) = <<>>
        BY NoFrames
      <4> QED
        BY <4>1, <4>2, <4>3
    <3> QED
      BY <1>1, <2>1, <3>1, <3>2
  <2>3. Contiguous(ready, since + 1, since)
    <3>1. Carries(ready, since + 1, 1, since)
      BY <2>1 DEF Carries
    <3> QED
      BY <2>1, <3>1 DEF Contiguous
  <2>4. ready \in Seq(Sent)
    <3>1. [type |-> "ready", seq |-> seq] \in Sent
      BY BoundsOK DEF Sent, Frame, HubInv, TypeOK
    <3> QED
      BY <3>1
  <2>5. Contiguous(ready \o EventFrames((since + 1)..seq), since + 1, seq)
    <3> HIDE DEF ready
    <3>1. since \in Nat /\ since + 1 \in Nat /\ since <= seq
      BY <1>1, <2>1
    <3> QED
      BY <1>1, <2>3, <2>4, <3>1, FanoutFrames
  <2>6. 1 + (IF since = NoCursor \/ since > seq \/ Gap(since) THEN seq ELSE since) = since + 1
    BY <1>3, <2>1
  <2> QED
    BY <2>2, <2>5, <2>6
<1> QED
  BY <1>2, <1>3

\* The steps that move no socket: what was broadcast stands.
LEMMA WritesKeepFrames ==
  ASSUME FrameInv, HubInv', AppendEvent \/ \E b \in 1..MaxBatch : Publish(b)
  PROVE  FrameInv'
<1>1. UNCHANGED <<wire, upto, crashes>>
  BY DEF sockets, AppendEvent, PutEvent, PutSeq, PutFirstOldest, Trim, PutOldest, Publish, Appended
<1>2. Aired' = Aired
  <2>1. CASE \E b \in 1..MaxBatch : Publish(b)
    BY <2>1 DEF Publish, store, Aired
  <2>2. CASE AppendEvent
    <3>1. step # "idle" /\ step' # "idle" /\ start' = start
      BY <2>2 DEF AppendEvent, PutEvent, PutSeq, PutFirstOldest, Trim, PutOldest, Appended
    <3> QED
      BY <3>1 DEF Aired
  <2> QED
    BY <2>1, <2>2
<1> QED
  BY <1>1, <1>2 DEF FrameInv

LEMMA FanoutKeepsFrames ==
  ASSUME FrameInv, HubInv', Fanout
  PROVE  FrameInv'
<1>1. /\ step = "fanout" /\ step' = "idle" /\ seq' = seq /\ crashes' = crashes /\ upto' = upto
      /\ wire' = [c \in Clients |-> IF wire[c] = Closed THEN Closed
                                    ELSE wire[c] \o EventFrames((start + 1)..seq)]
  BY ONLY Fanout, Zenon DEF Fanout, store
<1>2. Aired = start /\ Aired' = seq
  BY <1>1 DEF Aired
<1>3. start \in Nat /\ seq \in Nat /\ start <= seq
  BY BoundsOK DEF FrameInv, HubInv, TypeOK, StoreTypeOK
<1>4. ASSUME crashes = 0, NEW c \in Clients, wire'[c] # Closed
      PROVE  Contiguous(wire'[c], upto[c], seq)
  <2>1. wire[c] # Closed /\ wire'[c] = wire[c] \o EventFrames((start + 1)..seq)
    BY ONLY <1>1, <1>4, Zenon
  <2>2. wire[c] \in Seq(Sent) /\ upto[c] \in Nat
    BY <2>1 DEF FrameInv, HubInv, SocketTypes
  <2>3. Contiguous(wire[c], upto[c], start)
    BY <1>2, <1>4, <2>1 DEF FrameInv
  <2>4. Contiguous(wire[c] \o EventFrames((start + 1)..seq), upto[c], seq)
    BY <1>3, <2>2, <2>3, FanoutFrames
  <2> QED
    BY <2>1, <2>4
<1>5. crashes' = 0 => \A c \in Clients : wire'[c] # Closed => Contiguous(wire'[c], upto'[c], Aired')
  BY <1>1, <1>2, <1>4
<1> QED
  BY ONLY HubInv', <1>5, Zenon DEF FrameInv, Contiguous, Carries, Pushed

\* The steps of one socket.
LEMMA SocketKeepsFrames ==
  ASSUME FrameInv, HubInv', NEW c \in Clients, UNCHANGED <<seq, start, step, crashes>>,
         \A d \in Clients : d # c => wire'[d] = wire[d] /\ upto'[d] = upto[d],
         crashes = 0 /\ wire'[c] # Closed => Contiguous(wire'[c], upto'[c], Aired)
  PROVE  FrameInv'
<1>1. Aired' = Aired
  BY DEF Aired
<1>2. ASSUME crashes = 0, NEW d \in Clients, wire'[d] # Closed
      PROVE  Contiguous(wire'[d], upto'[d], Aired)
  <2>1. CASE d = c
    BY <1>2, <2>1
  <2>2. CASE d # c
    BY <1>2, <2>2 DEF FrameInv
  <2> QED
    BY <2>1, <2>2
<1> QED
  BY <1>1, <1>2 DEF FrameInv

LEMMA FrameSteps == FrameInv /\ [Next]_vars => FrameInv'
<1> SUFFICES ASSUME FrameInv, [Next]_vars PROVE FrameInv'
  OBVIOUS
<1>1. HubInv /\ HubInv'
  BY HubSteps DEF FrameInv
<1>2. /\ wire \in [Clients -> Seq(Sent) \cup {Closed}] /\ upto \in [Clients -> Nat]
      /\ seq \in Nat /\ start \in Nat
  BY <1>1, BoundsOK DEF HubInv, SocketTypes, TypeOK, StoreTypeOK
<1>3. CASE AppendEvent \/ \E b \in 1..MaxBatch : Publish(b)
  BY <1>1, <1>3, WritesKeepFrames
<1>4. CASE Fanout
  BY <1>1, <1>4, FanoutKeepsFrames
<1>5. CASE Crash
  <2>1. crashes' # 0
    <3>1. crashes' = crashes + 1 /\ crashes \in Nat
      BY <1>1, <1>5, BoundsOK DEF Crash, HubInv, TypeOK
    <3> QED
      BY <3>1
  <2> QED
    BY <1>1, <2>1 DEF FrameInv
<1>6. ASSUME NEW c \in Clients, Deliver(c) PROVE FrameInv'
  <2>1. /\ UNCHANGED <<seq, start, step, crashes>> /\ wire[c] # Closed /\ wire[c] # <<>>
        /\ wire' = [wire EXCEPT ![c] = Tail(wire[c])]
        /\ upto' = [upto EXCEPT ![c] = IF Head(wire[c]).type = "release.created" THEN upto[c] + 1
                                                                                ELSE upto[c]]
    BY <1>6 DEF Deliver, store, handler
  <2>2. /\ wire'[c] = Tail(wire[c])
        /\ upto'[c] = IF Head(wire[c]).type = "release.created" THEN upto[c] + 1 ELSE upto[c]
        /\ \A d \in Clients : d # c => wire'[d] = wire[d] /\ upto'[d] = upto[d]
    BY <1>2, <2>1
  <2>3. wire[c] \in Seq(Sent) /\ upto[c] \in Nat /\ Aired \in Nat
    BY <1>2, <2>1 DEF Aired
  <2>4. crashes = 0 => Contiguous(wire[c], upto[c], Aired)
    BY <2>1 DEF FrameInv
  <2>5. crashes = 0 => Contiguous(wire'[c], upto'[c], Aired)
    BY <2>1, <2>2, <2>3, <2>4, DeliverFrames
  <2> QED
    BY <1>1, <2>1, <2>2, <2>5, SocketKeepsFrames
<1>7. ASSUME NEW c \in Clients, Drop(c) PROVE FrameInv'
  <2>1. /\ UNCHANGED <<seq, start, step, crashes>>
        /\ wire' = [wire EXCEPT ![c] = Closed] /\ upto' = [upto EXCEPT ![c] = 0]
    BY <1>7 DEF Drop, store, handler
  <2>2. wire'[c] = Closed /\ \A d \in Clients : d # c => wire'[d] = wire[d] /\ upto'[d] = upto[d]
    BY <1>2, <2>1
  <2> QED
    BY <1>1, <2>1, <2>2, SocketKeepsFrames
<1>8. ASSUME NEW c \in Clients, NEW since \in 0..MaxSeq \cup {NoCursor}, Subscribe(c, since)
      PROVE  FrameInv'
  <2> DEFINE greeting == <<[type |-> "ready", seq |-> seq]>> \o Answer(since)
             first == 1 + (IF since = NoCursor \/ since > seq \/ Gap(since) THEN seq ELSE since)
  <2>1. /\ UNCHANGED <<seq, start, step, crashes>> /\ step = "idle"
        /\ wire' = [wire EXCEPT ![c] = greeting] /\ upto' = [upto EXCEPT ![c] = first]
    BY ONLY <1>8, Zenon DEF Subscribe, store, handler
  <2>2. crashes = 0 => Contiguous(greeting, first, seq)
    <3>1. crashes = 0 => ~ torn
      BY <1>1 DEF HubInv
    <3> QED
      BY <1>1, <2>1, <3>1, SubscribeFrames
  <2> HIDE DEF greeting, first
  <2>3. /\ wire'[c] = greeting /\ upto'[c] = first
        /\ \A d \in Clients : d # c => wire'[d] = wire[d] /\ upto'[d] = upto[d]
    BY <1>2, <2>1
  <2>4. Aired = seq
    BY <2>1 DEF Aired
  <2> QED
    BY <1>1, <2>1, <2>2, <2>3, <2>4, SocketKeepsFrames
<1>9. CASE UNCHANGED vars
  BY <1>1, <1>9 DEF FrameInv, vars, store, handler, sockets, Aired
<1> QED
  BY <1>3, <1>4, <1>5, <1>6, <1>7, <1>8, <1>9 DEF Next, HubNext

LEMMA FramesFit == FrameInv => FramesAreContiguous
<1> SUFFICES ASSUME FrameInv, step = "idle", crashes = 0, NEW c \in Clients, wire[c] # Closed
             PROVE  \E n \in 0..Len(wire[c]) :
                      /\ \A i \in 1..n : wire[c][i].type # "release.created"
                      /\ SubSeq(wire[c], n + 1, Len(wire[c])) = EventFrames(upto[c]..seq)
  BY DEF FramesAreContiguous
<1>1. wire[c] \in Seq(Sent) /\ upto[c] \in Nat /\ seq \in Nat /\ Aired = seq
  BY BoundsOK DEF FrameInv, HubInv, SocketTypes, TypeOK, Aired
<1>2. Contiguous(wire[c], upto[c], seq)
  BY <1>1 DEF FrameInv
<1> DEFINE w == wire[c]
           u == upto[c]
<1>3. u <= seq + 1
  BY <1>2 DEF Contiguous
<1>4. PICK n \in Nat : Carries(w, u, n, seq)
  BY <1>2 DEF Contiguous
<1> HIDE DEF w, u
<1>5. w \in Seq(Sent) /\ u \in Nat
  BY <1>1 DEF w, u
<1>6. /\ Len(w) \in Nat /\ Len(w) = n + (seq + 1 - u) /\ n \in 0..Len(w)
      /\ \A i \in 1..n : w[i].type # "release.created"
      /\ \A i \in 1..(seq + 1 - u) : w[n + i] = Pushed(u + i - 1)
  BY <1>1, <1>3, <1>4, <1>5 DEF Carries
<1>7. EventFrames(u..seq) = [i \in 1..(seq + 1 - u) |-> Pushed(u + i - 1)]
  BY <1>1, <1>3, <1>5, PushedInterval
<1>8. SubSeq(w, n + 1, Len(w)) = [i \in 1..(Len(w) - n) |-> w[n + i]]
  <2>1. SubSeq(w, n + 1, Len(w)) = [i \in 1..(Len(w) - (n + 1) + 1) |-> w[i + (n + 1) - 1]]
    OBVIOUS
  <2>2. Len(w) - (n + 1) + 1 = Len(w) - n /\ \A i \in 1..(Len(w) - n) : i + (n + 1) - 1 = n + i
    BY <1>6
  <2> QED
    BY <2>1, <2>2
<1>9. Len(w) - n = seq + 1 - u
  BY <1>1, <1>5, <1>6
<1>10. SubSeq(w, n + 1, Len(w)) = EventFrames(u..seq)
  BY <1>6, <1>7, <1>8, <1>9
<1> QED
  BY <1>6, <1>10 DEF w, u

\* Whatever the batches, the buffer size and the moments at which sockets come and
\* go, each has exactly the events after its cursor on its way, until the object dies.
THEOREM FramesStayContiguous == Spec => []FramesAreContiguous
<1>1. Init => FrameInv
  <2>1. Init => \A c \in Clients : wire[c] = Closed
    BY DEF Init
  <2> QED
    BY <2>1, InitHub DEF FrameInv
<1>2. FrameInv /\ [Next]_vars => FrameInv'
  BY FrameSteps
<1>3. FrameInv => FramesAreContiguous
  BY FramesFit
<1> QED
  BY <1>1, <1>2, <1>3, PTL DEF Spec

-----------------------------------------------------------------------------
(* The page and the reader use the hub as ReleaseHub says.                 *)

Cursors == 0..MaxSeq \cup {NoCursor}

StreamInv ==
  /\ HubInv
  /\ lastSeq \in [Clients -> Cursors] /\ base \in [Clients -> Cursors]
  /\ shown \in [Clients -> SUBSET (1..MaxSeq)]
  /\ excused \in [Clients -> BOOLEAN]
  /\ limit \in Limits /\ cursor \in 0..MaxSeq
  /\ got \subseteq 1..MaxSeq /\ told \subseteq 1..MaxSeq

\* A page's cursor is one that /subscribe takes, so its steps are the hub's.
LEMMA StreamStepsHub == StreamInv /\ [StreamNext]_allVars => [Next]_vars
<1> SUFFICES ASSUME StreamInv, [StreamNext]_allVars PROVE [Next]_vars
  OBVIOUS
<1>1. CASE Hub
  BY <1>1 DEF Hub, Next
<1>2. ASSUME NEW c \in Clients, Connect(c) PROVE Next
  <2>1. lastSeq[c] \in 0..MaxSeq \cup {NoCursor}
    BY DEF StreamInv, Cursors
  <2>2. Subscribe(c, lastSeq[c])
    BY <1>2 DEF Connect
  <2> QED
    BY <2>1, <2>2 DEF Next
<1>3. ASSUME NEW c \in Clients, Receive(c) \/ Disconnect(c) PROVE Next
  BY <1>3 DEF Receive, Disconnect, Next
<1>4. ASSUME NEW c \in Clients, Poll(c) PROVE UNCHANGED vars
  BY <1>4 DEF Poll
<1>5. CASE Read
  BY <1>5 DEF Read
<1>6. CASE UNCHANGED allVars
  BY <1>6 DEF allVars
<1> QED
  BY <1>1, <1>2, <1>3, <1>4, <1>5, <1>6 DEF StreamNext

LEMMA InitStream == StreamInit => StreamInv
<1> SUFFICES ASSUME StreamInit PROVE StreamInv
  OBVIOUS
<1>1. HubInv
  BY InitHub DEF StreamInit
<1> QED
  BY <1>1, BoundsOK DEF StreamInit, StreamInv, Cursors

LEMMA ReceiveTypes ==
  ASSUME StreamInv, HubInv', NEW c \in Clients, Receive(c)
  PROVE  StreamInv'
<1> DEFINE f == Head(wire[c])
<1>1. f \in Sent
  <2>1. wire[c] \in Seq(Sent) /\ wire[c] # <<>>
    BY DEF Receive, Deliver, StreamInv, HubInv, SocketTypes
  <2> QED
    BY <2>1
<1>2. /\ MaxSeq \in Nat /\ f.seq \in 0..MaxSeq
      /\ f.type = "release.created" => f.seq \in 1..MaxSeq
  BY <1>1, BoundsOK DEF Sent, Frame
<1>3. /\ UNCHANGED reader
      /\ \/ /\ lastSeq' = [lastSeq EXCEPT ![c] = f.seq]
            /\ base' = [base EXCEPT ![c] = IF base[c] = NoCursor THEN f.seq ELSE base[c]]
            /\ UNCHANGED <<shown, excused>>
         \/ /\ f.type = "release.created"
            /\ lastSeq' = [lastSeq EXCEPT ![c] = f.seq]
            /\ shown' = [shown EXCEPT ![c] = shown[c] \cup {f.seq}]
            /\ UNCHANGED <<base, excused>>
         \/ /\ lastSeq' = [lastSeq EXCEPT ![c] = NoCursor]
            /\ shown' = [shown EXCEPT ![c] = shown[c] \cup Latest]
            /\ excused' = [excused EXCEPT ![c] = TRUE]
            /\ UNCHANGED base
  BY DEF Receive
<1> HIDE DEF f
<1>4. Latest \subseteq 1..MaxSeq
  <2>1. seq \in 0..MaxSeq
    BY DEF StreamInv, HubInv, TypeOK
  <2> QED
    BY <1>2, <2>1 DEF Latest
<1>5. /\ lastSeq \in [Clients -> Cursors] /\ base \in [Clients -> Cursors]
      /\ shown \in [Clients -> SUBSET (1..MaxSeq)] /\ excused \in [Clients -> BOOLEAN]
      /\ f.seq \in Cursors /\ NoCursor \in Cursors
  BY <1>2 DEF StreamInv, Cursors
<1>6. lastSeq' \in [Clients -> Cursors]
  BY <1>3, <1>5
<1>7. base' \in [Clients -> Cursors]
  BY <1>3, <1>5
<1>8. shown' \in [Clients -> SUBSET (1..MaxSeq)]
  <2>1. \A S \in SUBSET (1..MaxSeq) : [shown EXCEPT ![c] = S] \in [Clients -> SUBSET (1..MaxSeq)]
    BY <1>5
  <2>2. shown[c] \in SUBSET (1..MaxSeq)
    BY <1>5
  <2>3. shown[c] \cup Latest \in SUBSET (1..MaxSeq)
    BY <1>4, <2>2
  <2>4. f.type = "release.created" => shown[c] \cup {f.seq} \in SUBSET (1..MaxSeq)
    BY <1>2, <2>2
  <2> QED
    BY <1>3, <1>5, <2>1, <2>3, <2>4
<1>9. excused' \in [Clients -> BOOLEAN]
  BY <1>3, <1>5
<1> QED
  BY <1>3, <1>6, <1>7, <1>8, <1>9 DEF StreamInv, reader

LEMMA ReadTypes ==
  ASSUME StreamInv, HubInv', Read
  PROVE  StreamInv'
<1> DEFINE events == Page(cursor)
<1>1. /\ UNCHANGED <<page, limit>>
      /\ got' = got \cup events
      /\ told' = IF Gap(cursor) THEN told \cup ((cursor + 1)..(oldest - 1)) ELSE told
      /\ cursor' = Max(events \cup {cursor})
  BY DEF Read
<1>2. /\ MaxSeq \in Nat /\ oldest \in 0..MaxSeq /\ kept \subseteq 1..MaxSeq /\ cursor \in 0..MaxSeq
      /\ got \subseteq 1..MaxSeq /\ told \subseteq 1..MaxSeq
  BY BoundsOK DEF StreamInv, HubInv, TypeOK
<1>3. events \subseteq 1..MaxSeq
  BY <1>2 DEF Page, Replay
<1>4. cursor' \in 0..MaxSeq
  <2> HIDE DEF events
  <2>1. events \cup {cursor} \subseteq 0..MaxSeq /\ events \cup {cursor} # {}
    BY <1>2, <1>3
  <2>2. cursor' \in events \cup {cursor}
    BY <1>1, <1>2, <2>1, GreatestExists
  <2> QED
    BY <2>1, <2>2
<1>5. got' \subseteq 1..MaxSeq /\ told' \subseteq 1..MaxSeq
  <2>1. (cursor + 1)..(oldest - 1) \subseteq 1..MaxSeq
    BY <1>2
  <2> HIDE DEF events
  <2> QED
    BY <1>1, <1>2, <1>3, <2>1
<1> QED
  BY <1>1, <1>4, <1>5 DEF StreamInv, page

LEMMA StreamSteps == StreamInv /\ [StreamNext]_allVars => StreamInv'
<1> SUFFICES ASSUME StreamInv, [StreamNext]_allVars PROVE StreamInv'
  OBVIOUS
<1>1. HubInv'
  BY StreamStepsHub, HubSteps DEF StreamInv
<1>2. CASE Hub \/ UNCHANGED allVars
  BY <1>1, <1>2 DEF Hub, allVars, page, reader, StreamInv
<1>3. ASSUME NEW c \in Clients, Connect(c) \/ Disconnect(c) PROVE StreamInv'
  BY <1>1, <1>3 DEF Connect, Disconnect, page, reader, StreamInv
<1>4. ASSUME NEW c \in Clients, Receive(c) PROVE StreamInv'
  BY <1>1, <1>4, ReceiveTypes
<1>5. ASSUME NEW c \in Clients, Poll(c) PROVE StreamInv'
  <2>1. /\ UNCHANGED <<lastSeq, base, limit, cursor, got, told>>
        /\ shown' = [shown EXCEPT ![c] = shown[c] \cup Latest]
        /\ excused' = [excused EXCEPT ![c] = TRUE]
    BY <1>5 DEF Poll, reader
  <2>2. Latest \subseteq 1..MaxSeq
    BY BoundsOK DEF Latest, StreamInv, HubInv, TypeOK
  <2>3. shown' \in [Clients -> SUBSET (1..MaxSeq)] /\ excused' \in [Clients -> BOOLEAN]
    BY <2>1, <2>2 DEF StreamInv
  <2> QED
    BY <1>1, <2>1, <2>3 DEF StreamInv
<1>6. CASE Read
  BY <1>1, <1>6, ReadTypes
<1> QED
  BY <1>2, <1>3, <1>4, <1>5, <1>6 DEF StreamNext

LEMMA StreamInvariance == StreamSpec => []StreamInv
<1>1. StreamInit => StreamInv
  BY InitStream
<1>2. StreamInv /\ [StreamNext]_allVars => StreamInv'
  BY StreamSteps
<1> QED
  BY <1>1, <1>2, PTL DEF StreamSpec

\* The page and the reader keep their types: a page's cursor is the number of a frame
\* it received, and a reader's is in the page it was given.
THEOREM StreamTypes == StreamSpec => []StreamTypeOK
<1>1. StreamInv => StreamTypeOK
  BY DEF StreamInv, StreamTypeOK, HubInv, Cursors
<1> QED
  BY <1>1, StreamInvariance, PTL

\* With its two consumers the hub does what it does with any: what is proved of the
\* hub holds of the live page and of the reader of /v1/webhooks/events.
THEOREM StreamsFollowTheHub == StreamSpec => Spec
<1>1. StreamInit => Init
  BY DEF StreamInit
<1>2. StreamInv /\ [StreamNext]_allVars => [Next]_vars
  BY StreamStepsHub
<1> QED
  BY <1>1, <1>2, StreamInvariance, PTL DEF StreamSpec, Spec
=============================================================================
