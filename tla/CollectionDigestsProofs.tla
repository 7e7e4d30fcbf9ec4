------------------------ MODULE CollectionDigestsProofs ------------------------
(***************************************************************************)
(* The claims of a collection digest, for any number of weeks, copies of a *)
(* message, re-tries and failures.  A message that sends, or undoes its    *)
(* claim, holds the weeks it took the subscription past; the invariant     *)
(* counts who holds a week, and who would give a week back.                *)
(***************************************************************************)
EXTENDS CollectionDigests, FiniteSets, FiniteSetTheorems, TLAPS

MessageStates == [pc : {"none", "waiting", "check", "claim", "send", "release", "done", "dropped"},
                  previous : 0..Weeks, was : 0..Weeks, tries : Nat]

Bit(b) == IF b THEN 1 ELSE 0

Claimed(j) == j.pc \in {"send", "release"}

\* The messages that hold a claim on week w; that would give w back, as the week
\* before theirs; and that took the subscription past w or to it.
On(w)    == {p \in Messages : Claimed(job[p]) /\ p[1] = w}
After(w) == {p \in Messages : Claimed(job[p]) /\ job[p].was = w}
Held(w)  == {p \in Messages : Claimed(job[p]) /\ job[p].was < w /\ w <= p[1]}

\* A week is mailed, held or open once, and once more for each cause to repeat it.
Sparing ==
    \A w \in 1..Weeks :
        mailed[w] + Cardinality(Held(w)) + Bit(subscribed /\ last < w) <= 1 + repeats

\* Every place that says a week was sent has a message that is at it.
Backed ==
    \A w \in 1..Weeks :
        \/ mailed[w] > 0 \/ w \in abandoned
        \/ Cardinality(After(w)) + Bit(last = w) <= Cardinality(On(w))

ClaimInv ==
    /\ TypeOK
    /\ ~subscribed => last = 0
    /\ \A p \in Messages : /\ job[p].pc \in {"claim", "send", "release"} => job[p].previous < p[1]
                           /\ Claimed(job[p]) => job[p].was < p[1]
    /\ Sparing /\ Backed

-----------------------------------------------------------------------------
(* Counting messages.                                                      *)

LEMMA MessagesFinite == IsFiniteSet(Messages)
<1>1. Weeks \in Nat /\ Copies \in Nat
  BY CollectionAssumption
<1>2. IsFiniteSet(1..Weeks) /\ IsFiniteSet(1..Copies)
  BY <1>1, FS_Interval
<1> QED
  BY <1>2, FS_Product DEF Messages

\* Two sets of messages that agree but on p.
LEMMA CountStep ==
  ASSUME NEW S \in SUBSET Messages, NEW T \in SUBSET Messages, NEW p \in Messages,
         \A q \in Messages : q # p => (q \in S <=> q \in T)
  PROVE  /\ Cardinality(S) \in Nat /\ Cardinality(T) \in Nat
         /\ Cardinality(T) + Bit(p \in S) = Cardinality(S) + Bit(p \in T)
<1>1. IsFiniteSet(S) /\ IsFiniteSet(T)
  BY MessagesFinite, FS_Subset
<1>2. Cardinality(S) \in Nat /\ Cardinality(T) \in Nat
  BY <1>1, FS_CardinalityType
<1>3. CASE p \in S /\ p \notin T
  <2>1. T = S \ {p}
    BY <1>3
  <2> QED
    BY <1>1, <1>2, <1>3, <2>1, FS_RemoveElement DEF Bit
<1>4. CASE p \notin S /\ p \in T
  <2>1. T = S \cup {p}
    BY <1>4
  <2> QED
    BY <1>1, <1>2, <1>4, <2>1, FS_AddElement DEF Bit
<1>5. CASE p \in S <=> p \in T
  <2>1. S = T
    BY <1>5
  <2> QED
    BY <1>2, <2>1
<1> QED
  BY <1>2, <1>3, <1>4, <1>5

LEMMA JobTypes == TypeOK => job \in [Messages -> MessageStates]
  BY DEF TypeOK, MessageStates

\* What replacing one message's state does to the counts of a week.
LEMMA Counts ==
  ASSUME TypeOK, NEW p \in Messages, NEW j \in MessageStates, NEW w \in Nat,
         job' = [job EXCEPT ![p] = j]
  PROVE  /\ Cardinality(On(w)) \in Nat /\ Cardinality(On(w))' \in Nat
         /\ Cardinality(After(w)) \in Nat /\ Cardinality(After(w))' \in Nat
         /\ Cardinality(Held(w)) \in Nat /\ Cardinality(Held(w))' \in Nat
         /\ Cardinality(On(w))' + Bit(Claimed(job[p]) /\ p[1] = w)
              = Cardinality(On(w)) + Bit(Claimed(j) /\ p[1] = w)
         /\ Cardinality(After(w))' + Bit(Claimed(job[p]) /\ job[p].was = w)
              = Cardinality(After(w)) + Bit(Claimed(j) /\ j.was = w)
         /\ Cardinality(Held(w))' + Bit(Claimed(job[p]) /\ job[p].was < w /\ w <= p[1])
              = Cardinality(Held(w)) + Bit(Claimed(j) /\ j.was < w /\ w <= p[1])
<1>1. job'[p] = j /\ \A q \in Messages : q # p => job'[q] = job[q]
  BY JobTypes
<1>2. /\ Cardinality(On(w)) \in Nat /\ Cardinality(On(w)') \in Nat
      /\ Cardinality(On(w)') + Bit(p \in On(w)) = Cardinality(On(w)) + Bit(p \in On(w)')
  <2>1. \A q \in Messages : q # p => (q \in On(w) <=> q \in On(w)')
    BY <1>1 DEF On
  <2>2. On(w) \in SUBSET Messages /\ On(w)' \in SUBSET Messages
    BY DEF On
  <2> QED
    BY <2>1, <2>2, CountStep
<1>3. /\ Cardinality(After(w)) \in Nat /\ Cardinality(After(w)') \in Nat
      /\ Cardinality(After(w)') + Bit(p \in After(w)) = Cardinality(After(w)) + Bit(p \in After(w)')
  <2>1. \A q \in Messages : q # p => (q \in After(w) <=> q \in After(w)')
    BY <1>1 DEF After
  <2>2. After(w) \in SUBSET Messages /\ After(w)' \in SUBSET Messages
    BY DEF After
  <2> QED
    BY <2>1, <2>2, CountStep
<1>4. /\ Cardinality(Held(w)) \in Nat /\ Cardinality(Held(w)') \in Nat
      /\ Cardinality(Held(w)') + Bit(p \in Held(w)) = Cardinality(Held(w)) + Bit(p \in Held(w)')
  <2>1. \A q \in Messages : q # p => (q \in Held(w) <=> q \in Held(w)')
    BY <1>1 DEF Held
  <2>2. Held(w) \in SUBSET Messages /\ Held(w)' \in SUBSET Messages
    BY DEF Held
  <2> QED
    BY <2>1, <2>2, CountStep
<1>5. /\ p \in On(w) <=> Claimed(job[p]) /\ p[1] = w
      /\ p \in On(w)' <=> Claimed(j) /\ p[1] = w
      /\ p \in After(w) <=> Claimed(job[p]) /\ job[p].was = w
      /\ p \in After(w)' <=> Claimed(j) /\ j.was = w
      /\ p \in Held(w) <=> Claimed(job[p]) /\ job[p].was < w /\ w <= p[1]
      /\ p \in Held(w)' <=> Claimed(j) /\ j.was < w /\ w <= p[1]
  BY <1>1 DEF On, After, Held
<1> QED
  BY <1>2, <1>3, <1>4, <1>5 DEF Bit

-----------------------------------------------------------------------------
(* One message's step.                                                     *)

\* The share of a message in state j, of week v, in the counts of week w.
OnBit(j, v, w)    == Bit(Claimed(j) /\ v = w)
AfterBit(j, w)    == Bit(Claimed(j) /\ j.was = w)
HeldBit(j, v, w)  == Bit(Claimed(j) /\ j.was < w /\ w <= v)
OpenBit(sub, l, w) == Bit(sub /\ l < w)

LEMMA SumSpared ==
  ASSUME NEW m \in Nat, NEW m2 \in Nat, NEW h \in Nat, NEW h2 \in Nat, NEW b \in Nat,
         NEW b2 \in Nat, NEW o \in Nat, NEW o2 \in Nat, NEW r \in Nat, NEW r2 \in Nat,
         m + h + o <= 1 + r, h2 + b = h + b2, m2 + b2 + o2 + r <= m + b + o + r2
  PROVE  m2 + h2 + o2 <= 1 + r2
  OBVIOUS

LEMMA SumBacked ==
  ASSUME NEW a \in Nat, NEW a2 \in Nat, NEW n \in Nat, NEW n2 \in Nat, NEW b \in Nat,
         NEW b2 \in Nat, NEW c \in Nat, NEW c2 \in Nat, NEW l \in Nat, NEW l2 \in Nat,
         a + l <= n, a2 + b = a + b2, n2 + c = n + c2, b2 + l2 + c <= b + l + c2
  PROVE  a2 + l2 <= n2
  OBVIOUS

\* A message's step keeps the invariant if, week by week, it mails, holds and opens
\* no more than it held, opened and has a cause for, and backs what it leaves behind.
LEMMA MessageStep ==
  ASSUME ClaimInv, NEW p \in Messages, NEW j \in MessageStates,
         job' = [job EXCEPT ![p] = j],
         UNCHANGED <<week, subscribed>>, last' \in 0..Weeks, ~subscribed => last' = last,
         mailed' \in [1..Weeks -> Nat], repeats' \in Nat, abandoned' \subseteq 0..Weeks,
         upsets' \in Nat,
         j.pc \in {"claim", "send", "release"} => j.previous < p[1],
         Claimed(j) => j.was < p[1],
         \A w \in 1..Weeks :
           mailed'[w] + HeldBit(j, p[1], w) + OpenBit(subscribed, last', w) + repeats
             <= mailed[w] + HeldBit(job[p], p[1], w) + OpenBit(subscribed, last, w) + repeats',
         \A w \in 1..Weeks :
           \/ mailed'[w] > 0 \/ w \in abandoned'
           \/ /\ mailed[w] = 0 /\ w \notin abandoned
              /\ AfterBit(j, w) + Bit(last' = w) + OnBit(job[p], p[1], w)
                   <= AfterBit(job[p], w) + Bit(last = w) + OnBit(j, p[1], w)
  PROVE  ClaimInv'
<1>1. /\ TypeOK /\ Sparing /\ Backed
      /\ ~subscribed => last = 0
      /\ \A q \in Messages : /\ job[q].pc \in {"claim", "send", "release"} => job[q].previous < q[1]
                             /\ Claimed(job[q]) => job[q].was < q[1]
  BY DEF ClaimInv
<1>2. job' \in [Messages -> MessageStates] /\ job'[p] = j /\ \A q \in Messages : q # p => job'[q] = job[q]
  BY <1>1, JobTypes
<1>3. TypeOK'
  BY <1>1, <1>2 DEF TypeOK, MessageStates
<1>4. \A q \in Messages : /\ job'[q].pc \in {"claim", "send", "release"} => job'[q].previous < q[1]
                          /\ Claimed(job'[q]) => job'[q].was < q[1]
  BY <1>1, <1>2
<1>5. \A w \in 1..Weeks : mailed[w] \in Nat /\ mailed'[w] \in Nat /\ repeats \in Nat
  BY <1>1 DEF TypeOK
<1>6. ASSUME NEW w \in 1..Weeks
      PROVE  mailed'[w] + Cardinality(Held(w))' + OpenBit(subscribed, last', w) <= 1 + repeats'
  <2>1. w \in Nat
    BY CollectionAssumption
  <2>2. /\ Cardinality(Held(w)) \in Nat /\ Cardinality(Held(w))' \in Nat
        /\ Cardinality(Held(w))' + HeldBit(job[p], p[1], w) = Cardinality(Held(w)) + HeldBit(j, p[1], w)
    BY <1>1, <2>1, Counts DEF HeldBit
  <2>3. mailed[w] + Cardinality(Held(w)) + OpenBit(subscribed, last, w) <= 1 + repeats
    BY <1>1 DEF Sparing, OpenBit
  <2>4. HeldBit(job[p], p[1], w) \in Nat /\ HeldBit(j, p[1], w) \in Nat
        /\ OpenBit(subscribed, last, w) \in Nat /\ OpenBit(subscribed, last', w) \in Nat
    BY DEF HeldBit, OpenBit, Bit
  <2>5. mailed'[w] + HeldBit(j, p[1], w) + OpenBit(subscribed, last', w) + repeats
          <= mailed[w] + HeldBit(job[p], p[1], w) + OpenBit(subscribed, last, w) + repeats'
    OBVIOUS
  <2>6. mailed[w] \in Nat /\ mailed'[w] \in Nat /\ repeats \in Nat /\ repeats' \in Nat
    BY <1>5
  <2> QED
    BY ONLY <2>2, <2>3, <2>4, <2>5, <2>6, SumSpared
<1>7. Sparing'
  BY <1>6 DEF Sparing, OpenBit
<1>8. ASSUME NEW w \in 1..Weeks
      PROVE  \/ mailed'[w] > 0 \/ w \in abandoned'
             \/ Cardinality(After(w))' + Bit(last' = w) <= Cardinality(On(w))'
  <2> SUFFICES ASSUME ~(mailed'[w] > 0), w \notin abandoned'
               PROVE  Cardinality(After(w))' + Bit(last' = w) <= Cardinality(On(w))'
    OBVIOUS
  <2>1. w \in Nat
    BY CollectionAssumption
  <2>2. /\ Cardinality(On(w)) \in Nat /\ Cardinality(On(w))' \in Nat
        /\ Cardinality(After(w)) \in Nat /\ Cardinality(After(w))' \in Nat
        /\ Cardinality(On(w))' + OnBit(job[p], p[1], w) = Cardinality(On(w)) + OnBit(j, p[1], w)
        /\ Cardinality(After(w))' + AfterBit(job[p], w) = Cardinality(After(w)) + AfterBit(j, w)
    <3>1. job' = [job EXCEPT ![p] = j]
      OBVIOUS
    <3> QED
      BY ONLY <1>1, <2>1, <3>1, Counts, p \in Messages, j \in MessageStates DEF OnBit, AfterBit
  <2>3. Cardinality(After(w)) + Bit(last = w) <= Cardinality(On(w))
    BY <1>1, <1>5 DEF Backed
  <2>4. /\ OnBit(job[p], p[1], w) \in Nat /\ OnBit(j, p[1], w) \in Nat
        /\ AfterBit(job[p], w) \in Nat /\ AfterBit(j, w) \in Nat
        /\ Bit(last = w) \in Nat /\ Bit(last' = w) \in Nat
    BY DEF OnBit, AfterBit, Bit
  <2>5. AfterBit(j, w) + Bit(last' = w) + OnBit(job[p], p[1], w)
          <= AfterBit(job[p], w) + Bit(last = w) + OnBit(j, p[1], w)
    OBVIOUS
  <2> QED
    BY ONLY <2>2, <2>3, <2>4, <2>5, SumBacked
<1>9. Backed'
  BY <1>8 DEF Backed
<1> QED
  BY <1>1, <1>3, <1>4, <1>7, <1>9 DEF ClaimInv

-----------------------------------------------------------------------------
(* The steps.                                                              *)

LEMMA OneMessage ==
  ASSUME ClaimInv, NEW p \in Messages
  PROVE  /\ job \in [Messages -> MessageStates] /\ job[p] \in MessageStates
         /\ p[1] \in 1..Weeks /\ Weeks \in Nat
         /\ job[p].pc \in {"claim", "send", "release"} => job[p].previous < p[1]
         /\ Claimed(job[p]) => job[p].was < p[1]
         /\ last \in 0..Weeks /\ mailed \in [1..Weeks -> Nat] /\ repeats \in Nat
         /\ abandoned \subseteq 0..Weeks /\ upsets \in Nat /\ (~subscribed => last = 0)
  BY JobTypes, CollectionAssumption DEF ClaimInv, TypeOK, Messages

LEMMA RetriedState ==
  ASSUME NEW t \in Nat
  PROVE  /\ [NoMessage EXCEPT !.pc = "waiting", !.tries = t] \in MessageStates
         /\ [NoMessage EXCEPT !.pc = "waiting", !.tries = t].pc = "waiting"
<1>1. 0 \in 0..Weeks
  BY CollectionAssumption
<1>2. NoMessage \in MessageStates
  BY <1>1 DEF NoMessage, MessageStates
<1> QED
  BY <1>1, <1>2 DEF MessageStates

\* The state a message is re-tried or dropped in.
LEMMA AgainState ==
  ASSUME ClaimInv, NEW p \in Messages
  PROVE  \E j \in MessageStates : Again(p) = [job EXCEPT ![p] = j] /\ j.pc \in {"waiting", "dropped"}
<1>1. job[p].tries \in Nat /\ Weeks \in Nat
  BY OneMessage DEF MessageStates
<1>2. [NoMessage EXCEPT !.pc = "waiting", !.tries = job[p].tries] \in MessageStates
  BY <1>1, RetriedState
<1>3. [NoMessage EXCEPT !.pc = "dropped"] \in MessageStates
  BY <1>1 DEF NoMessage, MessageStates
<1>4. CASE job[p].tries <= Retries
  BY <1>1, <1>2, <1>4, RetriedState DEF Again
<1>5. CASE ~(job[p].tries <= Retries)
  BY <1>3, <1>5 DEF Again, NoMessage, MessageStates
<1> QED
  BY <1>4, <1>5

\* A message that holds nothing before or after.
LEMMA QuietStep ==
  ASSUME ClaimInv, NEW p \in Messages, NEW j \in MessageStates, job' = [job EXCEPT ![p] = j],
         ~Claimed(job[p]), ~Claimed(j), j.pc = "claim" => j.previous < p[1],
         UNCHANGED <<week, subscribed, last, mailed, repeats, abandoned>>, upsets' \in Nat
  PROVE  ClaimInv'
<1>1. /\ last \in 0..Weeks /\ mailed \in [1..Weeks -> Nat] /\ repeats \in Nat
      /\ abandoned \subseteq 0..Weeks
  BY OneMessage
<1>2. \A w \in 1..Weeks :
        mailed'[w] + HeldBit(j, p[1], w) + OpenBit(subscribed, last', w) + repeats
          <= mailed[w] + HeldBit(job[p], p[1], w) + OpenBit(subscribed, last, w) + repeats'
  BY <1>1 DEF HeldBit, OpenBit, Bit
<1>3. \A w \in 1..Weeks :
        \/ mailed'[w] > 0 \/ w \in abandoned'
        \/ /\ mailed[w] = 0 /\ w \notin abandoned
           /\ AfterBit(j, w) + Bit(last' = w) + OnBit(job[p], p[1], w)
                <= AfterBit(job[p], w) + Bit(last = w) + OnBit(j, p[1], w)
  BY <1>1 DEF AfterBit, OnBit, Bit
<1>4. j.pc \in {"claim", "send", "release"} => j.previous < p[1]
  BY DEF Claimed
<1> QED
  BY <1>1, <1>2, <1>3, <1>4, MessageStep

LEMMA EnqueueStep == ASSUME ClaimInv, NEW k \in 1..Copies, Enqueue(k) PROVE ClaimInv'
<1>1. /\ <<week, k>> \in Messages /\ ~Claimed(job[<<week, k>>])
      /\ job' = [job EXCEPT ![<<week, k>>] = [NoMessage EXCEPT !.pc = "waiting"]]
      /\ UNCHANGED <<week, subscribed, last, mailed, repeats, abandoned>> /\ upsets' \in Nat
  BY CollectionAssumption DEF ClaimInv, TypeOK, Enqueue, Messages, Claimed, Upset
<1>2. [NoMessage EXCEPT !.pc = "waiting"] \in MessageStates
  BY CollectionAssumption DEF NoMessage, MessageStates
<1>3. [NoMessage EXCEPT !.pc = "waiting"].pc = "waiting"
  BY DEF NoMessage
<1> DEFINE j == [NoMessage EXCEPT !.pc = "waiting"]
<1>4. ~Claimed(j) /\ j.pc # "claim"
  BY <1>3 DEF Claimed
<1> HIDE DEF j
<1> QED
  BY <1>1, <1>2, <1>4, QuietStep DEF j

LEMMA TakeStep == ASSUME ClaimInv, NEW p \in Messages, Take(p) PROVE ClaimInv'
<1> DEFINE j == [job[p] EXCEPT !.pc = "check", !.tries = job[p].tries + 1]
<1>1. /\ ~Claimed(job[p])
      /\ UNCHANGED <<week, subscribed, last, mailed, repeats, abandoned>> /\ upsets' \in Nat
  BY OneMessage DEF Take, Claimed
<1>2. job' = [job EXCEPT ![p] = j]
  BY OneMessage DEF Take, MessageStates
<1>3. job[p].tries + 1 \in Nat
  BY OneMessage DEF MessageStates
<1>4. j \in MessageStates /\ j.pc = "check"
  BY <1>3, OneMessage DEF MessageStates
<1> HIDE DEF j
<1> QED
  BY <1>1, <1>2, <1>4, QuietStep DEF Claimed

LEMMA CheckStep == ASSUME ClaimInv, NEW p \in Messages, Check(p) PROVE ClaimInv'
<1> DEFINE j == IF subscribed /\ last < p[1]
                THEN [job[p] EXCEPT !.pc = "claim", !.previous = last] ELSE Done
<1>1. /\ ~Claimed(job[p])
      /\ UNCHANGED <<week, subscribed, last, mailed, repeats, abandoned>> /\ upsets' \in Nat
  BY OneMessage DEF Check, Claimed
<1>2. job' = [job EXCEPT ![p] = j]
  BY OneMessage DEF Check
<1>3. j \in MessageStates /\ j.pc \in {"claim", "done"} /\ (j.pc = "claim" => j.previous < p[1])
  <2>1. job[p] \in MessageStates /\ last \in 0..Weeks /\ Weeks \in Nat
    BY OneMessage
  <2>2. Done \in MessageStates /\ Done.pc = "done"
    BY <2>1 DEF Done, NoMessage, MessageStates
  <2>3. CASE subscribed /\ last < p[1]
    BY <2>1, <2>3 DEF MessageStates
  <2>4. CASE ~(subscribed /\ last < p[1])
    BY <2>2, <2>4
  <2> QED
    BY <2>3, <2>4
<1> HIDE DEF j
<1> QED
  BY <1>1, <1>2, <1>3, QuietStep DEF Claimed

LEMMA ReadFailsStep == ASSUME ClaimInv, NEW p \in Messages, ReadFails(p) PROVE ClaimInv'
<1>1. /\ ~Claimed(job[p])
      /\ UNCHANGED <<week, subscribed, last, mailed, repeats, abandoned>> /\ upsets' \in Nat
  BY OneMessage DEF ReadFails, Claimed, Upset
<1>2. PICK j \in MessageStates : job' = [job EXCEPT ![p] = j] /\ j.pc \in {"waiting", "dropped"}
  BY AgainState DEF ReadFails
<1> QED
  BY <1>1, <1>2, QuietStep DEF Claimed

\* A claim takes the subscription from the weeks it passes and holds them.
LEMMA ClaimStep == ASSUME ClaimInv, NEW p \in Messages, Claim(p) PROVE ClaimInv'
<1>1. /\ job[p].pc = "claim" /\ job[p].previous < p[1] /\ job[p] \in MessageStates
      /\ p[1] \in 1..Weeks /\ Weeks \in Nat /\ last \in 0..Weeks
      /\ mailed \in [1..Weeks -> Nat] /\ repeats \in Nat /\ abandoned \subseteq 0..Weeks
      /\ UNCHANGED <<week, subscribed, mailed, repeats, abandoned>> /\ upsets' \in Nat
  BY OneMessage DEF Claim
<1>2. CASE subscribed /\ last < p[1]
  <2> DEFINE j == [job[p] EXCEPT !.pc = "send", !.was = last]
  <2>1. job' = [job EXCEPT ![p] = j] /\ last' = p[1]
    BY <1>2, OneMessage DEF Claim, MessageStates
  <2>2. j \in MessageStates /\ j.pc = "send" /\ j.was = last /\ j.previous = job[p].previous
    BY <1>1 DEF MessageStates
  <2> HIDE DEF j
  <2>3. ~Claimed(job[p]) /\ Claimed(j)
    BY <1>1, <2>2 DEF Claimed
  <2>4. \A w \in 1..Weeks :
          mailed'[w] + HeldBit(j, p[1], w) + OpenBit(subscribed, last', w) + repeats
            <= mailed[w] + HeldBit(job[p], p[1], w) + OpenBit(subscribed, last, w) + repeats'
    BY ONLY <1>1, <1>2, <2>1, <2>2, <2>3 DEF HeldBit, OpenBit, Bit
  <2>5. \A w \in 1..Weeks :
          \/ mailed'[w] > 0 \/ w \in abandoned'
          \/ /\ mailed[w] = 0 /\ w \notin abandoned
             /\ AfterBit(j, w) + Bit(last' = w) + OnBit(job[p], p[1], w)
                  <= AfterBit(job[p], w) + Bit(last = w) + OnBit(j, p[1], w)
    BY ONLY <1>1, <1>2, <2>1, <2>2, <2>3 DEF AfterBit, OnBit, Bit
  <2>6. /\ j.pc \in {"claim", "send", "release"} => j.previous < p[1]
        /\ Claimed(j) => j.was < p[1]
    BY ONLY <1>1, <1>2, <2>2
  <2>7. last' \in 0..Weeks /\ mailed' \in [1..Weeks -> Nat] /\ repeats' \in Nat /\ abandoned' \subseteq 0..Weeks
    BY ONLY <1>1, <2>1
  <2>8. UNCHANGED <<week, subscribed>> /\ (~subscribed => last' = last) /\ upsets' \in Nat
    BY ONLY <1>1, <1>2
  <2> QED
    BY <2>1, <2>2, <2>4, <2>5, <2>6, <2>7, <2>8, MessageStep
<1>3. CASE ~(subscribed /\ last < p[1])
  <2>1. job' = [job EXCEPT ![p] = Done] /\ last' = last
    BY <1>3 DEF Claim
  <2>2. Done \in MessageStates /\ Done.pc = "done"
    BY <1>1 DEF Done, NoMessage, MessageStates
  <2> QED
    BY <1>1, <2>1, <2>2, QuietStep DEF Claimed
<1> QED
  BY <1>2, <1>3

LEMMA ClaimAnswerLostStep ==
  ASSUME ClaimInv, NEW p \in Messages, ClaimAnswerLost(p) PROVE ClaimInv'
<1>1. /\ job[p].pc = "claim" /\ subscribed /\ last < p[1] /\ last' = p[1]
      /\ abandoned' = abandoned \cup {p[1]}
      /\ p[1] \in 1..Weeks /\ Weeks \in Nat /\ last \in 0..Weeks
      /\ mailed \in [1..Weeks -> Nat] /\ repeats \in Nat /\ abandoned \subseteq 0..Weeks
      /\ UNCHANGED <<week, subscribed, mailed, repeats>> /\ upsets' \in Nat
  BY OneMessage DEF ClaimAnswerLost, Upset
<1>2. PICK j \in MessageStates : job' = [job EXCEPT ![p] = j] /\ j.pc \in {"waiting", "dropped"}
  BY AgainState DEF ClaimAnswerLost
<1>3. ~Claimed(job[p]) /\ ~Claimed(j)
  BY <1>1, <1>2 DEF Claimed
<1>4. \A w \in 1..Weeks :
        mailed'[w] + HeldBit(j, p[1], w) + OpenBit(subscribed, last', w) + repeats
          <= mailed[w] + HeldBit(job[p], p[1], w) + OpenBit(subscribed, last, w) + repeats'
  BY ONLY <1>1, <1>3 DEF HeldBit, OpenBit, Bit
<1>5. \A w \in 1..Weeks :
        \/ mailed'[w] > 0 \/ w \in abandoned'
        \/ /\ mailed[w] = 0 /\ w \notin abandoned
           /\ AfterBit(j, w) + Bit(last' = w) + OnBit(job[p], p[1], w)
                <= AfterBit(job[p], w) + Bit(last = w) + OnBit(j, p[1], w)
  BY ONLY <1>1, <1>3 DEF AfterBit, OnBit, Bit
<1>6. p[1] \in 0..Weeks
  BY ONLY <1>1
<1>7. abandoned' \subseteq 0..Weeks /\ last' \in 0..Weeks
  BY <1>1, <1>6
<1> QED
  BY <1>1, <1>2, <1>3, <1>4, <1>5, <1>7, MessageStep DEF Claimed

\* A message lets go of its claim and leaves the subscription alone: its week is
\* mailed, or known to be used up.
LEMMA EndStep ==
  ASSUME ClaimInv, NEW p \in Messages, NEW j \in MessageStates, job' = [job EXCEPT ![p] = j],
         Claimed(job[p]), j.pc \in {"waiting", "dropped", "done"},
         UNCHANGED <<week, subscribed, last, repeats>>, upsets' \in Nat,
         mailed' = mailed \/ mailed' = [mailed EXCEPT ![p[1]] = @ + 1],
         abandoned' = abandoned \/ abandoned' = abandoned \cup {p[1]},
         mailed'[p[1]] > 0 \/ p[1] \in abandoned'
  PROVE  ClaimInv'
<1>1. /\ p[1] \in 1..Weeks /\ Weeks \in Nat /\ last \in 0..Weeks /\ job[p].was < p[1]
      /\ job[p] \in MessageStates
      /\ mailed \in [1..Weeks -> Nat] /\ repeats \in Nat /\ abandoned \subseteq 0..Weeks
  BY OneMessage
<1>2. /\ mailed' \in [1..Weeks -> Nat] /\ abandoned \subseteq abandoned' /\ abandoned' \subseteq 0..Weeks
      /\ \A w \in 1..Weeks : /\ mailed'[w] \in {mailed[w], mailed[w] + 1}
                             /\ w # p[1] => mailed'[w] = mailed[w]
  <2>1. p[1] \in 0..Weeks
    BY ONLY <1>1
  <2>2. abandoned \subseteq abandoned' /\ abandoned' \subseteq 0..Weeks
    BY <1>1, <2>1
  <2>3. CASE mailed' = mailed
    BY <1>1, <2>2, <2>3
  <2>4. CASE mailed' = [mailed EXCEPT ![p[1]] = @ + 1]
    BY <1>1, <2>2, <2>4
  <2> QED
    BY <2>3, <2>4
<1>3. ~Claimed(j) /\ last' = last /\ repeats' = repeats /\ Claimed(job[p])
      /\ (mailed'[p[1]] > 0 \/ p[1] \in abandoned')
  BY DEF Claimed
<1>4. job[p].was \in Nat
  BY <1>1 DEF MessageStates
<1>5. \A w \in 1..Weeks :
        mailed'[w] + HeldBit(j, p[1], w) + OpenBit(subscribed, last', w) + repeats
          <= mailed[w] + HeldBit(job[p], p[1], w) + OpenBit(subscribed, last, w) + repeats'
  <2> SUFFICES ASSUME NEW w \in 1..Weeks
               PROVE  mailed'[w] + HeldBit(j, p[1], w) + OpenBit(subscribed, last', w) + repeats
                        <= mailed[w] + HeldBit(job[p], p[1], w) + OpenBit(subscribed, last, w) + repeats'
    OBVIOUS
  <2>1. mailed[w] \in Nat /\ mailed'[w] \in Nat
    BY ONLY <1>1, <1>2, w \in 1..Weeks
  <2>2. OpenBit(subscribed, last', w) = OpenBit(subscribed, last, w)
    BY <1>3
  <2>3. HeldBit(j, p[1], w) = 0 /\ HeldBit(job[p], p[1], w) \in {0, 1}
    BY ONLY <1>3 DEF HeldBit, Bit
  <2>4. w = p[1] => HeldBit(job[p], p[1], w) = 1
    BY ONLY <1>1, <1>3, <1>4, w \in 1..Weeks DEF HeldBit, Bit
  <2>5. mailed'[w] + HeldBit(j, p[1], w) <= mailed[w] + HeldBit(job[p], p[1], w)
    BY ONLY <1>2, <2>1, <2>3, <2>4, w \in 1..Weeks
  <2>6. OpenBit(subscribed, last, w) \in Nat /\ HeldBit(job[p], p[1], w) \in Nat
        /\ HeldBit(j, p[1], w) \in Nat
    BY ONLY <2>3 DEF OpenBit, Bit
  <2>7. repeats' = repeats /\ repeats \in Nat
    BY ONLY <1>1, <1>3
  <2> QED
    BY ONLY <2>1, <2>2, <2>5, <2>6, <2>7
<1>6. \A w \in 1..Weeks :
        \/ mailed'[w] > 0 \/ w \in abandoned'
        \/ /\ mailed[w] = 0 /\ w \notin abandoned
           /\ AfterBit(j, w) + Bit(last' = w) + OnBit(job[p], p[1], w)
                <= AfterBit(job[p], w) + Bit(last = w) + OnBit(j, p[1], w)
  BY ONLY <1>1, <1>2, <1>3 DEF AfterBit, OnBit, Bit
<1>7. /\ j.pc \in {"claim", "send", "release"} => j.previous < p[1]
      /\ Claimed(j) => j.was < p[1]
      /\ UNCHANGED <<week, subscribed>> /\ repeats' \in Nat /\ last' \in 0..Weeks
  BY <1>1, <1>3
<1> QED
  BY <1>2, <1>3, <1>5, <1>6, <1>7, MessageStep

LEMMA SendStep == ASSUME ClaimInv, NEW p \in Messages, Send(p) PROVE ClaimInv'
<1>1. Done \in MessageStates /\ Done.pc = "done"
  BY CollectionAssumption DEF Done, NoMessage, MessageStates
<1>2. /\ Claimed(job[p]) /\ job' = [job EXCEPT ![p] = Done]
      /\ mailed' = [mailed EXCEPT ![p[1]] = @ + 1] /\ mailed'[p[1]] > 0
      /\ UNCHANGED <<week, subscribed, last, repeats, abandoned>> /\ upsets' \in Nat
  BY OneMessage DEF Send, Claimed
<1> QED
  BY <1>1, <1>2, EndStep

LEMMA DiesInSendStep == ASSUME ClaimInv, NEW p \in Messages, DiesInSend(p) PROVE ClaimInv'
<1>1. /\ Claimed(job[p]) /\ mailed' \in {mailed, [mailed EXCEPT ![p[1]] = @ + 1]}
      /\ abandoned' = abandoned \cup {p[1]}
      /\ UNCHANGED <<week, subscribed, last, repeats>> /\ upsets' \in Nat
  BY OneMessage DEF DiesInSend, Claimed, Upset
<1>2. PICK j \in MessageStates : job' = [job EXCEPT ![p] = j] /\ j.pc \in {"waiting", "dropped"}
  BY AgainState DEF DiesInSend
<1> QED
  BY <1>1, <1>2, EndStep

LEMMA SendFailsStep == ASSUME ClaimInv, NEW p \in Messages, SendFails(p) PROVE ClaimInv'
<1> DEFINE j == [job[p] EXCEPT !.pc = "release"]
<1>1. /\ job[p].pc = "send" /\ job[p] \in MessageStates
      /\ job[p].previous < p[1] /\ job[p].was < p[1] /\ p[1] \in 1..Weeks
      /\ last \in 0..Weeks /\ mailed \in [1..Weeks -> Nat] /\ repeats \in Nat
      /\ abandoned \subseteq 0..Weeks
      /\ UNCHANGED <<week, subscribed, last, abandoned>> /\ upsets' \in Nat
  BY OneMessage DEF SendFails, Claimed, Upset
<1>2. job' = [job EXCEPT ![p] = j]
  BY OneMessage DEF SendFails
<1>3. j \in MessageStates /\ j.pc = "release" /\ j.was = job[p].was /\ j.previous = job[p].previous
  BY <1>1 DEF MessageStates
<1> HIDE DEF j
<1>4. /\ mailed' \in [1..Weeks -> Nat] /\ repeats' \in Nat
      /\ \A w \in 1..Weeks : /\ mailed'[w] + repeats <= mailed[w] + repeats'
                             /\ mailed'[w] >= mailed[w]
  <2>1. CASE UNCHANGED <<mailed, repeats>>
    BY <1>1, <2>1
  <2>2. CASE mailed' = [mailed EXCEPT ![p[1]] = @ + 1] /\ repeats' = repeats + 1
    BY <1>1, <2>2
  <2> QED
    BY <2>1, <2>2 DEF SendFails
<1>5. \A w \in 1..Weeks : /\ HeldBit(j, p[1], w) = HeldBit(job[p], p[1], w)
                          /\ HeldBit(j, p[1], w) \in Nat
                          /\ OpenBit(subscribed, last', w) = OpenBit(subscribed, last, w)
                          /\ OpenBit(subscribed, last, w) \in Nat
  BY ONLY <1>1, <1>3 DEF HeldBit, OpenBit, Claimed, Bit
<1>6. \A w \in 1..Weeks :
        mailed'[w] + HeldBit(j, p[1], w) + OpenBit(subscribed, last', w) + repeats
          <= mailed[w] + HeldBit(job[p], p[1], w) + OpenBit(subscribed, last, w) + repeats'
  BY ONLY <1>1, <1>4, <1>5
<1>7. \A w \in 1..Weeks :
        \/ mailed'[w] > 0 \/ w \in abandoned'
        \/ /\ mailed[w] = 0 /\ w \notin abandoned
           /\ AfterBit(j, w) + Bit(last' = w) + OnBit(job[p], p[1], w)
                <= AfterBit(job[p], w) + Bit(last = w) + OnBit(j, p[1], w)
  <2> SUFFICES ASSUME NEW w \in 1..Weeks
               PROVE  \/ mailed'[w] > 0 \/ w \in abandoned'
                      \/ /\ mailed[w] = 0 /\ w \notin abandoned
                         /\ AfterBit(j, w) + Bit(last' = w) + OnBit(job[p], p[1], w)
                              <= AfterBit(job[p], w) + Bit(last = w) + OnBit(j, p[1], w)
    OBVIOUS
  <2>1. /\ AfterBit(j, w) = AfterBit(job[p], w) /\ OnBit(j, p[1], w) = OnBit(job[p], p[1], w)
        /\ last' = last
    BY ONLY <1>1, <1>3 DEF AfterBit, OnBit, Claimed
  <2>2. AfterBit(job[p], w) \in Nat /\ OnBit(job[p], p[1], w) \in Nat /\ Bit(last = w) \in Nat
    BY DEF AfterBit, OnBit, Bit
  <2>3. mailed[w] \in Nat /\ mailed'[w] \in Nat /\ mailed'[w] >= mailed[w]
    BY ONLY <1>1, <1>4, w \in 1..Weeks
  <2>4. abandoned' = abandoned
    BY ONLY <1>1
  <2>5. AfterBit(j, w) + Bit(last' = w) + OnBit(job[p], p[1], w)
          <= AfterBit(job[p], w) + Bit(last = w) + OnBit(j, p[1], w)
    BY ONLY <2>1, <2>2
  <2>6. mailed'[w] > 0 \/ mailed[w] = 0
    BY ONLY <2>3
  <2> QED
    BY ONLY <2>4, <2>5, <2>6
<1>8. /\ j.pc \in {"claim", "send", "release"} => j.previous < p[1]
      /\ Claimed(j) => j.was < p[1]
      /\ UNCHANGED <<week, subscribed>> /\ last' = last /\ last' \in 0..Weeks
      /\ abandoned' \subseteq 0..Weeks
  BY <1>1, <1>3
<1> QED
  BY <1>1, <1>2, <1>3, <1>4, <1>6, <1>7, <1>8, MessageStep

\* A release either gives back the weeks its claim held, or has no claim to undo.
LEMMA UndoStep ==
  ASSUME ClaimInv, NEW p \in Messages, NEW j \in MessageStates, job' = [job EXCEPT ![p] = j],
         job[p].pc = "release", j.pc \in {"waiting", "dropped"}, Undo(p),
         UNCHANGED <<week, subscribed, mailed>>, upsets' \in Nat
  PROVE  ClaimInv'
<1>1. /\ job[p].pc = "release" /\ Claimed(job[p]) /\ ~Claimed(j)
      /\ j.pc \in {"waiting", "dropped"}
      /\ job[p] \in MessageStates /\ p[1] \in 1..Weeks /\ Weeks \in Nat
      /\ job[p].previous < p[1] /\ job[p].was < p[1]
      /\ last \in 0..Weeks /\ mailed \in [1..Weeks -> Nat] /\ repeats \in Nat
      /\ abandoned \subseteq 0..Weeks /\ mailed' = mailed
  BY OneMessage DEF Claimed
<1>2. CASE ~(subscribed /\ last = p[1])
  <2>1. UNCHANGED <<last, repeats>> /\ abandoned' = abandoned \cup {p[1]}
    BY <1>2 DEF Undo
  <2> QED
    BY <1>1, <2>1, EndStep
<1>3. CASE subscribed /\ last = p[1]
  <2>1. /\ subscribed /\ last = p[1] /\ last' = job[p].previous
        /\ \/ job[p].previous = job[p].was /\ UNCHANGED <<repeats, abandoned>>
           \/ repeats' = repeats + 1 /\ abandoned' = abandoned \cup {job[p].previous}
    BY <1>3 DEF Undo
  <2>2. job[p].previous \in 0..Weeks /\ job[p].was \in 0..Weeks
    BY <1>1 DEF MessageStates
  <2>3. repeats' \in Nat /\ abandoned' \subseteq 0..Weeks /\ abandoned \subseteq abandoned'
    <3>1. repeats' = repeats \/ repeats' = repeats + 1
      BY ONLY <2>1
    <3>2. repeats' \in Nat
      BY ONLY <1>1, <3>1
    <3>3. abandoned' = abandoned \/ abandoned' = abandoned \cup {job[p].previous}
      BY ONLY <2>1
    <3>4. abandoned' \subseteq 0..Weeks /\ abandoned \subseteq abandoned'
      BY ONLY <1>1, <2>2, <3>3
    <3> QED
      BY ONLY <3>2, <3>4
  <2>4. \A w \in 1..Weeks :
          mailed'[w] + HeldBit(j, p[1], w) + OpenBit(subscribed, last', w) + repeats
            <= mailed[w] + HeldBit(job[p], p[1], w) + OpenBit(subscribed, last, w) + repeats'
    <3> SUFFICES ASSUME NEW w \in 1..Weeks
                 PROVE  mailed'[w] + HeldBit(j, p[1], w) + OpenBit(subscribed, last', w) + repeats
                          <= mailed[w] + HeldBit(job[p], p[1], w) + OpenBit(subscribed, last, w)
                               + repeats'
      OBVIOUS
    <3>1. HeldBit(j, p[1], w) = 0 /\ HeldBit(job[p], p[1], w) \in {0, 1}
      BY ONLY <1>1 DEF HeldBit, Bit
    <3>2. OpenBit(subscribed, last', w) \in {0, 1} /\ OpenBit(subscribed, last, w) \in {0, 1}
      BY ONLY <1>1 DEF OpenBit, Bit
    <3>3. CASE job[p].previous = job[p].was /\ UNCHANGED <<repeats, abandoned>>
      <4>1. OpenBit(subscribed, last', w)
              <= HeldBit(job[p], p[1], w) + OpenBit(subscribed, last, w)
        BY ONLY <1>1, <2>1, <2>2, <3>3, w \in 1..Weeks DEF HeldBit, OpenBit, Bit
      <4>2. mailed'[w] = mailed[w] /\ mailed[w] \in Nat /\ repeats' = repeats /\ repeats \in Nat
        BY ONLY <1>1, <3>3, w \in 1..Weeks
      <4> QED
        BY ONLY <3>1, <3>2, <4>1, <4>2
    <3>4. CASE repeats' = repeats + 1 /\ abandoned' = abandoned \cup {job[p].previous}
      <4>1. mailed'[w] = mailed[w] /\ mailed[w] \in Nat /\ repeats' = repeats + 1 /\ repeats \in Nat
        BY ONLY <1>1, <3>4, w \in 1..Weeks
      <4> QED
        BY ONLY <3>1, <3>2, <4>1
    <3> QED
      BY <2>1, <3>3, <3>4
  <2>5. \A w \in 1..Weeks :
          \/ mailed'[w] > 0 \/ w \in abandoned'
          \/ /\ mailed[w] = 0 /\ w \notin abandoned
             /\ AfterBit(j, w) + Bit(last' = w) + OnBit(job[p], p[1], w)
                  <= AfterBit(job[p], w) + Bit(last = w) + OnBit(j, p[1], w)
    BY ONLY <1>1, <2>1, <2>2, <2>3 DEF AfterBit, OnBit, Bit
  <2>6. /\ j.pc \in {"claim", "send", "release"} => j.previous < p[1]
        /\ Claimed(j) => j.was < p[1]
        /\ ~subscribed => last' = last
        /\ mailed' \in [1..Weeks -> Nat] /\ last' \in 0..Weeks
    BY ONLY <1>1, <2>1, <2>2
  <2> QED
    BY <2>3, <2>4, <2>5, <2>6, MessageStep
<1> QED
  BY <1>2, <1>3

LEMMA ReleaseStep == ASSUME ClaimInv, NEW p \in Messages, Release(p) \/ ReleaseFails(p) PROVE ClaimInv'
<1>1. /\ job[p].pc = "release" /\ UNCHANGED <<week, subscribed, mailed>> /\ upsets' \in Nat
      /\ \/ Undo(p)
         \/ abandoned' = abandoned \cup {p[1]} /\ UNCHANGED <<last, repeats>>
  BY OneMessage DEF Release, ReleaseFails, Upset
<1>2. PICK j \in MessageStates : job' = [job EXCEPT ![p] = j] /\ j.pc \in {"waiting", "dropped"}
  BY AgainState DEF Release, ReleaseFails
<1>3. Claimed(job[p])
  BY <1>1 DEF Claimed
<1>4. CASE Undo(p)
  BY <1>1, <1>2, <1>4, UndoStep
<1>5. CASE abandoned' = abandoned \cup {p[1]} /\ UNCHANGED <<last, repeats>>
  BY <1>1, <1>2, <1>3, <1>5, EndStep
<1> QED
  BY <1>1, <1>4, <1>5

-----------------------------------------------------------------------------
(* The steps that leave the messages alone, and the theorems.              *)

LEMMA InitClaims == Init => ClaimInv
<1> SUFFICES ASSUME Init PROVE ClaimInv
  OBVIOUS
<1>1. /\ week = 0 /\ subscribed = TRUE /\ last = 0 /\ mailed = [w \in 1..Weeks |-> 0]
      /\ job = [p \in Messages |-> NoMessage]
      /\ repeats = 0 /\ abandoned = {} /\ upsets = 0 /\ Weeks \in Nat
  BY CollectionAssumption DEF Init
<1>2. NoMessage \in MessageStates /\ NoMessage.pc = "none"
  BY <1>1 DEF NoMessage, MessageStates
<1>3. TypeOK
  BY <1>1, <1>2 DEF TypeOK, MessageStates
<1>4. \A p \in Messages : job[p].pc = "none"
  BY <1>1, <1>2
<1>5. \A w \in 1..Weeks : On(w) = {} /\ After(w) = {} /\ Held(w) = {}
  BY <1>4 DEF On, After, Held, Claimed
<1>6. Cardinality({}) = 0
  BY FS_EmptySet
<1>7. Sparing
  <2> SUFFICES ASSUME NEW w \in 1..Weeks
               PROVE  mailed[w] + Cardinality(Held(w)) + Bit(subscribed /\ last < w) <= 1 + repeats
    BY DEF Sparing
  <2>1. mailed[w] = 0 /\ Cardinality(Held(w)) = 0
    BY <1>1, <1>5, <1>6
  <2>2. Bit(subscribed /\ last < w) \in {0, 1}
    BY DEF Bit
  <2> QED
    BY ONLY <1>1, <2>1, <2>2
<1>8. Backed
  <2> SUFFICES ASSUME NEW w \in 1..Weeks
               PROVE  Cardinality(After(w)) + Bit(last = w) <= Cardinality(On(w))
    BY DEF Backed
  <2>1. Cardinality(After(w)) = 0 /\ Cardinality(On(w)) = 0
    BY <1>5, <1>6
  <2>2. Bit(last = w) = 0
    BY <1>1 DEF Bit
  <2> QED
    BY ONLY <2>1, <2>2
<1> QED
  BY <1>1, <1>3, <1>4, <1>7, <1>8 DEF ClaimInv, Claimed

\* The reader, or the calendar, moves.
LEMMA ReaderStep ==
  ASSUME ClaimInv, UNCHANGED <<job, mailed, abandoned>>,
         TypeOK', ~subscribed' => last' = 0,
         \/ UNCHANGED <<subscribed, last, repeats>>
         \/ last' = 0 /\ repeats' = repeats + 1
         \/ ~subscribed' /\ last' = 0 /\ repeats' = repeats
  PROVE  ClaimInv'
<1>1. /\ TypeOK /\ Sparing /\ Backed /\ Weeks \in Nat
      /\ last \in 0..Weeks /\ repeats \in Nat /\ repeats' \in Nat /\ mailed \in [1..Weeks -> Nat]
      /\ job' = job /\ mailed' = mailed /\ abandoned' = abandoned
  BY CollectionAssumption DEF ClaimInv, TypeOK
<1>2. \A w \in 1..Weeks : On(w)' = On(w) /\ After(w)' = After(w) /\ Held(w)' = Held(w)
  BY ONLY <1>1 DEF On, After, Held
<1>3. \A w \in 1..Weeks : /\ Cardinality(On(w)) \in Nat /\ Cardinality(After(w)) \in Nat
                          /\ Cardinality(Held(w)) \in Nat
  <2> TAKE w \in 1..Weeks
  <2>1. On(w) \subseteq Messages /\ After(w) \subseteq Messages /\ Held(w) \subseteq Messages
    BY DEF On, After, Held
  <2> QED
    BY <2>1, MessagesFinite, FS_Subset, FS_CardinalityType
<1>4. Sparing'
  <2> SUFFICES ASSUME NEW w \in 1..Weeks
               PROVE  mailed'[w] + Cardinality(Held(w))' + OpenBit(subscribed', last', w)
                        <= 1 + repeats'
    BY DEF Sparing, OpenBit
  <2>1. mailed[w] + Cardinality(Held(w)) + OpenBit(subscribed, last, w) <= 1 + repeats
    BY <1>1 DEF Sparing, OpenBit
  <2>2. /\ mailed[w] \in Nat /\ Cardinality(Held(w)) \in Nat
        /\ mailed'[w] = mailed[w] /\ Cardinality(Held(w))' = Cardinality(Held(w))
    BY <1>1, <1>2, <1>3
  <2>3. OpenBit(subscribed, last, w) \in {0, 1} /\ OpenBit(subscribed', last', w) \in {0, 1}
    BY DEF OpenBit, Bit
  <2>4. CASE UNCHANGED <<subscribed, last, repeats>>
    <3>1. OpenBit(subscribed', last', w) = OpenBit(subscribed, last, w) /\ repeats' = repeats
      BY ONLY <2>4
    <3> QED
      BY ONLY <2>1, <2>2, <3>1
  <2>5. CASE last' = 0 /\ repeats' = repeats + 1
    <3>1. repeats' = repeats + 1 /\ repeats \in Nat
      BY ONLY <1>1, <2>5
    <3> QED
      BY ONLY <2>1, <2>2, <2>3, <3>1
  <2>6. CASE ~subscribed' /\ last' = 0 /\ repeats' = repeats
    <3>1. OpenBit(subscribed', last', w) = 0
      BY ONLY <2>6 DEF OpenBit, Bit
    <3>2. repeats' = repeats /\ repeats \in Nat
      BY ONLY <1>1, <2>6
    <3> QED
      BY ONLY <2>1, <2>2, <2>3, <3>1, <3>2
  <2> QED
    BY <2>4, <2>5, <2>6
<1>5. Backed'
  <2> SUFFICES ASSUME NEW w \in 1..Weeks
               PROVE  \/ mailed'[w] > 0 \/ w \in abandoned'
                      \/ Cardinality(After(w))' + Bit(last' = w) <= Cardinality(On(w))'
    BY DEF Backed, Bit
  <2>1. \/ mailed[w] > 0 \/ w \in abandoned
        \/ Cardinality(After(w)) + Bit(last = w) <= Cardinality(On(w))
    BY <1>1 DEF Backed
  <2>2. last' = last \/ last' = 0
    OBVIOUS
  <2>3. /\ Cardinality(After(w)) \in Nat /\ Cardinality(On(w)) \in Nat
        /\ Cardinality(After(w))' = Cardinality(After(w)) /\ Cardinality(On(w))' = Cardinality(On(w))
        /\ mailed' = mailed /\ abandoned' = abandoned
    BY <1>1, <1>2, <1>3
  <2>4. Bit(last' = w) \in {0, 1} /\ Bit(last = w) \in {0, 1} /\ Bit(last' = w) <= Bit(last = w)
    BY ONLY <1>1, <2>2, w \in 1..Weeks DEF Bit
  <2> QED
    BY ONLY <2>1, <2>3, <2>4
<1>6. \A p \in Messages : /\ job'[p].pc \in {"claim", "send", "release"} => job'[p].previous < p[1]
                          /\ Claimed(job'[p]) => job'[p].was < p[1]
  BY <1>1 DEF ClaimInv
<1> QED
  BY <1>4, <1>5, <1>6 DEF ClaimInv

LEMMA CloseStep == ASSUME ClaimInv, Close PROVE ClaimInv'
<1>1. TypeOK'
  <2>1. week' \in 0..Weeks /\ upsets' \in Nat
    BY CollectionAssumption DEF ClaimInv, TypeOK, Close, Upset
  <2> QED
    BY <2>1 DEF ClaimInv, TypeOK, Close
<1> QED
  BY <1>1, ReaderStep DEF ClaimInv, Close

LEMMA SubscriptionStep == ASSUME ClaimInv, Subscribe \/ Unsubscribe PROVE ClaimInv'
<1>1. TypeOK'
  <2>1. repeats' \in Nat /\ upsets' \in Nat /\ last' \in 0..Weeks
    BY CollectionAssumption DEF ClaimInv, TypeOK, Subscribe, Unsubscribe, Upset
  <2> QED
    BY <2>1 DEF ClaimInv, TypeOK, Subscribe, Unsubscribe
<1> QED
  BY <1>1, ReaderStep DEF Subscribe, Unsubscribe

LEMMA ClaimSteps == ClaimInv /\ [Next]_vars => ClaimInv'
<1> SUFFICES ASSUME ClaimInv, [Next]_vars PROVE ClaimInv'
  OBVIOUS
<1>1. CASE Close
  BY <1>1, CloseStep
<1>2. CASE Subscribe \/ Unsubscribe
  BY <1>2, SubscriptionStep
<1>3. ASSUME NEW k \in 1..Copies, Enqueue(k) PROVE ClaimInv'
  BY <1>3, EnqueueStep
<1>4. ASSUME NEW p \in Messages, Take(p) PROVE ClaimInv'
  BY <1>4, TakeStep
<1>5. ASSUME NEW p \in Messages, Check(p) PROVE ClaimInv'
  BY <1>5, CheckStep
<1>6. ASSUME NEW p \in Messages, Claim(p) PROVE ClaimInv'
  BY <1>6, ClaimStep
<1>7. ASSUME NEW p \in Messages, Send(p) PROVE ClaimInv'
  BY <1>7, SendStep
<1>8. ASSUME NEW p \in Messages, SendFails(p) PROVE ClaimInv'
  BY <1>8, SendFailsStep
<1>9. ASSUME NEW p \in Messages, Release(p) \/ ReleaseFails(p) PROVE ClaimInv'
  BY <1>9, ReleaseStep
<1>10. ASSUME NEW p \in Messages, ReadFails(p) PROVE ClaimInv'
  BY <1>10, ReadFailsStep
<1>11. ASSUME NEW p \in Messages, ClaimAnswerLost(p) PROVE ClaimInv'
  BY <1>11, ClaimAnswerLostStep
<1>12. ASSUME NEW p \in Messages, DiesInSend(p) PROVE ClaimInv'
  BY <1>12, DiesInSendStep
<1>13. CASE UNCHANGED vars
  <2>1. TypeOK'
    BY <1>13 DEF ClaimInv, TypeOK, vars
  <2> QED
    BY <1>13, <2>1, ReaderStep DEF ClaimInv, vars
<1> QED
  BY <1>1, <1>2, <1>3, <1>4, <1>5, <1>6, <1>7, <1>8, <1>9, <1>10, <1>11, <1>12, <1>13 DEF Next

(* Who holds a week, and who would give one back, adds up in every state:  *)
(* the argument that a claim before the send mails a week once.            *)
THEOREM ClaimInvariance == Spec => []ClaimInv
<1>1. Init => ClaimInv
  BY InitClaims
<1>2. ClaimInv /\ [Next]_vars => ClaimInv'
  BY ClaimSteps
<1> QED
  BY <1>1, <1>2, PTL DEF Spec

(* The row and the messages of a collection digest keep their types.       *)
THEOREM CollectionTypes == Spec => []TypeOK
<1>1. ClaimInv => TypeOK
  BY DEF ClaimInv
<1> QED
  BY <1>1, ClaimInvariance, PTL

(* However messages are duplicated, re-tried, reordered or overtaken, a    *)
(* week is mailed once and once more for each mail that was reported as    *)
(* failed, each new subscription, and each release of an overtaken week.   *)
THEOREM WeeksAreMailedOnce == Spec => []WeekMailedOnce
<1>1. ClaimInv => WeekMailedOnce
  <2> SUFFICES ASSUME ClaimInv, NEW w \in 1..Weeks PROVE mailed[w] <= 1 + repeats
    BY DEF WeekMailedOnce
  <2>1. mailed[w] + Cardinality(Held(w)) + Bit(subscribed /\ last < w) <= 1 + repeats
    BY DEF ClaimInv, Sparing
  <2>2. Held(w) \subseteq Messages
    BY DEF Held
  <2>3. Cardinality(Held(w)) \in Nat
    BY <2>2, MessagesFinite, FS_Subset, FS_CardinalityType
  <2>4. mailed[w] \in Nat /\ repeats \in Nat
    BY DEF ClaimInv, TypeOK
  <2>5. Bit(subscribed /\ last < w) \in Nat
    BY DEF Bit
  <2> QED
    BY ONLY <2>1, <2>3, <2>4, <2>5
<1> QED
  BY <1>1, ClaimInvariance, PTL

(* A week is never used up by a send that fails: while it stands as sent   *)
(* and was not mailed, some message holds its claim, or it is one of the   *)
(* abandoned ones.                                                         *)
THEOREM ClaimsAreBacked == Spec => []ClaimIsKeptBySend
<1>1. ClaimInv => ClaimIsKeptBySend
  <2> SUFFICES ASSUME ClaimInv, last > 0, mailed[last] = 0, last \notin abandoned
               PROVE  \E k \in 1..Copies : job[<<last, k>>].pc \in {"send", "release"}
    BY DEF ClaimIsKeptBySend
  <2>1. last \in 1..Weeks
    BY CollectionAssumption DEF ClaimInv, TypeOK
  <2>2. Cardinality(After(last)) + Bit(last = last) <= Cardinality(On(last))
    BY <2>1 DEF ClaimInv, Backed
  <2>3. After(last) \subseteq Messages /\ On(last) \subseteq Messages
    BY DEF After, On
  <2>4. Cardinality(After(last)) \in Nat /\ Cardinality(On(last)) \in Nat
    BY <2>3, MessagesFinite, FS_Subset, FS_CardinalityType
  <2>5. Cardinality(On(last)) # 0
    BY ONLY <2>2, <2>4 DEF Bit
  <2>6. On(last) # {}
    BY <2>5, FS_EmptySet
  <2>7. PICK p \in Messages : Claimed(job[p]) /\ p[1] = last
    BY <2>6 DEF On
  <2>8. p[2] \in 1..Copies /\ p = <<last, p[2]>>
    BY <2>7 DEF Messages
  <2> QED
    BY <2>7, <2>8 DEF Claimed
<1> QED
  BY <1>1, ClaimInvariance, PTL

=============================================================================
