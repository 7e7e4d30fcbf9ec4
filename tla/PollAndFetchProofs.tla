-------------------------- MODULE PollAndFetchProofs ---------------------------
(***************************************************************************)
(* The poll-and-fetch workflow and the timer that starts it, for every     *)
(* value of the constants.  The ingestion of a feed: the inductive         *)
(* invariant follows an item from the INSERT that stored it; one run alone *)
(* holds it until it is published or its attempt fails, and a run stores   *)
(* the validators of a body only when all its items are in the table.  The *)
(* drain of pages and the composition of the two.  The SourceActor's       *)
(* timer: the mark names the bucket of the run that is alive, and after a  *)
(* pause no alarm is left that could start a second run.                   *)
(***************************************************************************)
EXTENDS PollAndFetch, SourceActor, FiniteSetTheorems, TLAPS

RunStates == [pc : {"idle", "head", "fetch", "insert", "publish", "book"},
              seen : 0..Versions, body : 0..Versions,
              left : SUBSET Items, got : SUBSET Items, tries : 0..(Retries + 1)]

\* What a run has put into the table of its body.
Stored(j, table) ==
    /\ j.pc = "insert" => j.left \subseteq Body(j.body) /\ Body(j.body) \subseteq table \cup j.left
    /\ j.pc \in {"publish", "book"} => Body(j.body) \subseteq table

\* What a run holds is stored, and nobody has published it.
Holds(j) ==
    /\ j.got \subseteq releases
    /\ \A i \in j.got : announced[i] = 0
    /\ j.pc \notin {"insert", "publish"} => j.got = {}

HeldOnce == \A r1, r2 \in Runs : r1 # r2 => run[r1].got \cap run[r2].got = {}
AnnouncedAreStored == \A i \in Items : announced[i] > 0 => i \in releases

IngestInv ==
    /\ TypeOK
    /\ CursorTrailsItems /\ AnnouncedOnce /\ SilentOnlyAfterFailure
    /\ \A r \in Runs : Stored(run[r], releases) /\ Holds(run[r])
    /\ HeldOnce /\ AnnouncedAreStored

-----------------------------------------------------------------------------
LEMMA RunTypes == TypeOK => run \in [Runs -> RunStates]
  BY DEF TypeOK, RunStates

LEMMA BodyItems == \A v : Body(v) \subseteq Items
  BY DEF Body

LEMMA IdleState == Idle \in RunStates /\ Idle.got = {} /\ Idle.pc = "idle"
<1>1. Retries \in Nat /\ Versions \in Nat
  BY IngestAssumption
<1> QED
  BY <1>1 DEF Idle, RunStates

LEMMA InitIngest == Init => IngestInv
<1> SUFFICES ASSUME Init PROVE IngestInv
  OBVIOUS
<1>1. TypeOK
  <2>1. run \in [Runs -> RunStates]
    BY IdleState DEF Init
  <2>2. announced \in [Items -> Nat] /\ faults \in 0..MaxFaults /\ head \in 0..Versions
    BY IngestAssumption DEF Init
  <2> QED
    BY <2>1, <2>2 DEF Init, TypeOK, RunStates
<1>2. CursorTrailsItems
  BY IngestAssumption DEF Init, CursorTrailsItems, Body, Items
<1>3. \A r \in Runs : run[r] = Idle
  BY DEF Init
<1> QED
  BY <1>1, <1>2, <1>3
     DEF Init, IngestInv, AnnouncedOnce, SilentOnlyAfterFailure, Stored, Holds, HeldOnce,
         AnnouncedAreStored, Idle

\* A step of a run that stores and publishes nothing, and lets go only of what it
\* counts as dropped.
LEMMA QuietStep ==
  ASSUME IngestInv, NEW r \in Runs, NEW j \in RunStates,
         run' = [run EXCEPT ![r] = j], j.got = {}, Stored(j, releases),
         releases' = releases, announced' = announced,
         run[r].got \cup dropped \subseteq dropped', dropped' \subseteq Items,
         cursor' \in 0..Versions, Body(cursor') \subseteq releases,
         head' = head, thin' = thin, crawl' \in BOOLEAN, faults' \in 0..MaxFaults
  PROVE  IngestInv'
<1>1. run \in [Runs -> RunStates]
  BY RunTypes DEF IngestInv
<1>2. run' \in [Runs -> RunStates] /\ run'[r] = j /\ \A r2 \in Runs : r2 # r => run'[r2] = run[r2]
  BY <1>1
<1>3. TypeOK'
  BY <1>2 DEF IngestInv, TypeOK, RunStates
<1>4. CursorTrailsItems' /\ AnnouncedOnce' /\ AnnouncedAreStored'
  BY DEF IngestInv, CursorTrailsItems, AnnouncedOnce, AnnouncedAreStored
<1>5. SilentOnlyAfterFailure'
  BY <1>2 DEF IngestInv, SilentOnlyAfterFailure
<1>6. \A r2 \in Runs : Stored(run[r2], releases)' /\ Holds(run[r2])'
  BY <1>2 DEF IngestInv, Stored, Holds
<1>7. HeldOnce'
  BY <1>2 DEF IngestInv, HeldOnce
<1> QED
  BY <1>3, <1>4, <1>5, <1>6, <1>7 DEF IngestInv

\* A re-try keeps nothing of the attempt before it.
LEMMA AgainState ==
  ASSUME IngestInv, NEW r \in Runs
  PROVE  /\ Again(r) \in RunStates /\ Again(r).got = {} /\ Stored(Again(r), releases)
         /\ Idle \in RunStates /\ Idle.got = {} /\ Stored(Idle, releases)
<1>1. run[r] \in RunStates
  BY RunTypes DEF IngestInv
<1>2. Retries \in Nat /\ Versions \in Nat
  BY IngestAssumption
<1>3. CASE run[r].tries < Retries
  <2>1. run[r].seen \in 0..Versions /\ run[r].tries + 1 \in 0..(Retries + 1)
    BY <1>1, <1>2, <1>3 DEF RunStates
  <2>2. Again(r) = [Idle EXCEPT !.pc = "fetch", !.seen = run[r].seen, !.tries = run[r].tries + 1]
    BY <1>3 DEF Again
  <2>3. Again(r) \in RunStates /\ Again(r).got = {} /\ Again(r).pc = "fetch"
    BY <2>1, <2>2, IdleState DEF RunStates
  <2> QED
    BY <2>3, IdleState DEF Stored
<1>4. CASE ~(run[r].tries < Retries)
  BY <1>4, IdleState DEF Again, Stored
<1> QED
  BY <1>3, <1>4

\* What the invariant says of one run, before and after its fetch.
LEMMA OneRun ==
  ASSUME IngestInv, NEW r \in Runs
  PROVE  /\ run[r] \in RunStates /\ Stored(run[r], releases) /\ Holds(run[r])
         /\ run \in [Runs -> RunStates]
         /\ cursor \in 0..Versions /\ head \in 0..Versions /\ Body(cursor) \subseteq releases
         /\ crawl \in BOOLEAN /\ faults \in 0..MaxFaults /\ dropped \subseteq Items
         /\ releases \subseteq Items
  BY RunTypes DEF IngestInv, TypeOK, CursorTrailsItems

LEMMA FaultTyped == IngestInv /\ Fault => faults' \in 0..MaxFaults
  BY IngestAssumption DEF IngestInv, TypeOK, Fault

-----------------------------------------------------------------------------
(* Steps that neither store nor publish.                                   *)

LEMMA StartStep == ASSUME IngestInv, NEW r \in Runs, Start(r) \/ StartByHand(r) PROVE IngestInv'
<1>1. PICK j \in RunStates :
        run' = [run EXCEPT ![r] = j] /\ j.got = {} /\ j.pc \in {"head", "fetch"}
  <2>1. CASE Start(r)
    <3>1. [Idle EXCEPT !.pc = "head", !.seen = cursor] \in RunStates
      BY IdleState, OneRun DEF RunStates
    <3> QED
      BY <2>1, <3>1, IdleState DEF Start, RunStates
  <2>2. CASE StartByHand(r)
    <3>1. Retries + 1 \in 0..(Retries + 1)
      BY IngestAssumption
    <3>2. [Idle EXCEPT !.pc = "fetch", !.seen = cursor, !.tries = Retries + 1] \in RunStates
      BY <3>1, IdleState, OneRun DEF RunStates
    <3> QED
      BY <2>2, <3>2, IdleState DEF StartByHand, RunStates
  <2> QED
    BY <2>1, <2>2
<1>2. run[r].got = {} /\ UNCHANGED <<head, thin, cursor, releases, announced, crawl, dropped, faults>>
  BY OneRun DEF Start, StartByHand, Holds
<1>3. Stored(j, releases)
  BY <1>1 DEF Stored
<1> QED
  BY <1>1, <1>2, <1>3, OneRun, QuietStep

LEMMA HeadCheckStep == ASSUME IngestInv, NEW r \in Runs, HeadCheck(r) PROVE IngestInv'
<1>1. /\ run[r].pc = "head" /\ run[r] \in RunStates /\ run[r].got = {}
      /\ UNCHANGED <<head, thin, cursor, releases, announced, crawl, dropped, faults>>
  BY OneRun DEF HeadCheck, Holds
<1>2. CASE run' = [run EXCEPT ![r] = Idle]
  BY <1>1, <1>2, AgainState, OneRun, QuietStep
<1>3. CASE run' = [run EXCEPT ![r].pc = "fetch"]
  <2> DEFINE j == [run[r] EXCEPT !.pc = "fetch"]
  <2>1. run' = [run EXCEPT ![r] = j]
    BY <1>3, OneRun
  <2>2. j \in RunStates /\ j.got = {} /\ j.pc = "fetch"
    BY <1>1 DEF RunStates
  <2>3. Stored(j, releases)
    BY <2>2 DEF Stored
  <2> HIDE DEF j
  <2> QED
    BY <1>1, <2>1, <2>2, <2>3, OneRun, QuietStep
<1> QED
  BY <1>2, <1>3 DEF HeadCheck

\* The validators move when nothing of the body is missing, or not at all.
LEMMA NoChangeStep ==
  ASSUME IngestInv, NEW r \in Runs, NoChange(r) \/ NothingNew(r) \/ Delegate(r)
  PROVE  IngestInv'
<1>1. /\ run[r].got = {} /\ run' \in {[run EXCEPT ![r] = Idle], [run EXCEPT ![r] = Again(r)]}
      /\ UNCHANGED <<head, thin, releases, announced, dropped>>
  BY OneRun DEF NoChange, NothingNew, Delegate, Answered, Holds
<1>2. cursor' \in 0..Versions /\ Body(cursor') \subseteq releases
  BY OneRun DEF NoChange, NothingNew, Delegate
<1>3. crawl' \in BOOLEAN /\ faults' \in 0..MaxFaults
  BY OneRun, FaultTyped DEF NoChange, NothingNew, Delegate
<1>4. CASE run' = [run EXCEPT ![r] = Idle]
  BY <1>1, <1>2, <1>3, <1>4, AgainState, OneRun, QuietStep
<1>5. CASE run' = [run EXCEPT ![r] = Again(r)]
  BY <1>1, <1>2, <1>3, <1>5, AgainState, OneRun, QuietStep
<1> QED
  BY <1>1, <1>4, <1>5

LEMMA FetchStep == ASSUME IngestInv, NEW r \in Runs, Fetch(r) PROVE IngestInv'
<1>1. /\ run[r].pc = "fetch" /\ run[r].got = {}
      /\ UNCHANGED <<head, thin, cursor, releases, announced, crawl, dropped, faults>>
  BY OneRun DEF Fetch, Answered, Holds
<1> DEFINE j == [run[r] EXCEPT !.pc = "insert", !.body = head, !.left = Body(head)]
<1>2. run' = [run EXCEPT ![r] = j]
  BY OneRun DEF Fetch, RunStates
<1>3. j \in RunStates /\ j.got = {} /\ j.pc = "insert" /\ j.left = Body(j.body)
  BY <1>1, OneRun, BodyItems DEF RunStates
<1>4. Stored(j, releases)
  BY <1>3 DEF Stored
<1> HIDE DEF j
<1> QED
  BY <1>1, <1>2, <1>3, <1>4, OneRun, QuietStep

\* All items of the body are in the table by now.
LEMMA BookStep == ASSUME IngestInv, NEW r \in Runs, Book(r) \/ BookFails(r) PROVE IngestInv'
<1>1. /\ run[r].pc = "book" /\ run[r].got = {} /\ Body(run[r].body) \subseteq releases
      /\ run[r].body \in 0..Versions
      /\ run' \in {[run EXCEPT ![r] = Idle], [run EXCEPT ![r] = Again(r)]}
      /\ UNCHANGED <<head, thin, releases, announced, crawl, dropped>>
  BY OneRun DEF Book, BookFails, Holds, Stored, RunStates
<1>2. cursor' \in {cursor, run[r].body} /\ faults' \in 0..MaxFaults
  BY OneRun, FaultTyped DEF Book, BookFails
<1>3. cursor' \in 0..Versions /\ Body(cursor') \subseteq releases
  BY <1>1, <1>2, OneRun
<1>4. CASE run' = [run EXCEPT ![r] = Idle]
  BY <1>1, <1>2, <1>3, <1>4, AgainState, OneRun, QuietStep
<1>5. CASE run' = [run EXCEPT ![r] = Again(r)]
  BY <1>1, <1>2, <1>3, <1>5, AgainState, OneRun, QuietStep
<1> QED
  BY <1>1, <1>4, <1>5

LEMMA StepFailsStep == ASSUME IngestInv, NEW r \in Runs, StepFails(r) \/ RunDies(r) PROVE IngestInv'
<1>1. /\ run' \in {[run EXCEPT ![r] = Idle], [run EXCEPT ![r] = Again(r)]}
      /\ dropped' = dropped \cup run[r].got /\ faults' \in 0..MaxFaults
      /\ UNCHANGED <<head, thin, cursor, releases, announced, crawl>>
  BY FaultTyped DEF StepFails, RunDies
<1>2. dropped' \subseteq Items
  BY <1>1, OneRun DEF RunStates
<1>3. CASE run' = [run EXCEPT ![r] = Idle]
  BY <1>1, <1>2, <1>3, AgainState, OneRun, QuietStep
<1>4. CASE run' = [run EXCEPT ![r] = Again(r)]
  BY <1>1, <1>2, <1>4, AgainState, OneRun, QuietStep
<1> QED
  BY <1>1, <1>3, <1>4

-----------------------------------------------------------------------------
(* Steps that store or publish.                                            *)

LEMMA ChunkPart == ASSUME NEW l PROVE NextChunk(l) \subseteq l
  BY DEF NextChunk

\* A step of one run that stores c, and takes hold of no more than what it stored,
\* or counts it as dropped.
LEMMA StoreStep ==
  ASSUME IngestInv, NEW r \in Runs, NEW j \in RunStates, NEW c \in SUBSET Items,
         run' = [run EXCEPT ![r] = j], releases' = releases \cup c,
         j.got \subseteq run[r].got \cup (c \ releases),
         run[r].got \cup (c \ releases) \cup dropped \subseteq j.got \cup dropped',
         j.pc \notin {"insert", "publish"} => j.got = {}, Stored(j, releases'),
         dropped \subseteq dropped', dropped' \subseteq Items,
         UNCHANGED <<head, thin, cursor, announced, crawl>>, faults' \in 0..MaxFaults
  PROVE  IngestInv'
<1>1. run \in [Runs -> RunStates] /\ releases \subseteq Items
  BY OneRun
<1>2. run' \in [Runs -> RunStates] /\ run'[r] = j /\ \A r2 \in Runs : r2 # r => run'[r2] = run[r2]
  BY <1>1
<1>3. TypeOK'
  BY <1>1, <1>2 DEF IngestInv, TypeOK, RunStates
<1>4. CursorTrailsItems' /\ AnnouncedOnce' /\ AnnouncedAreStored'
  BY DEF IngestInv, CursorTrailsItems, AnnouncedOnce, AnnouncedAreStored
<1>5. \A i \in c \ releases : announced[i] = 0
  BY DEF IngestInv, AnnouncedAreStored, TypeOK
<1>6. SilentOnlyAfterFailure'
  <2> SUFFICES ASSUME NEW i \in releases', announced'[i] = 0
               PROVE  i \in dropped' \/ \E r2 \in Runs : i \in run'[r2].got
    BY DEF SilentOnlyAfterFailure
  <2>1. CASE i \in c \ releases
    BY <2>1, <1>2
  <2>2. CASE i \in releases
    BY <2>2, <1>2 DEF IngestInv, SilentOnlyAfterFailure
  <2> QED
    BY <2>1, <2>2
<1>7. \A r2 \in Runs : Stored(run[r2], releases)'
  BY <1>2 DEF IngestInv, Stored
<1>8. \A r2 \in Runs : Holds(run[r2])'
  BY <1>2, <1>5 DEF IngestInv, Holds
<1>9. HeldOnce'
  BY <1>2 DEF IngestInv, HeldOnce, Holds
<1> QED
  BY <1>3, <1>4, <1>6, <1>7, <1>8, <1>9 DEF IngestInv

LEMMA InsertStep == ASSUME IngestInv, NEW r \in Runs, Insert(r) PROVE IngestInv'
<1> DEFINE c == NextChunk(run[r].left)
           j == [run[r] EXCEPT !.left = run[r].left \ c, !.got = run[r].got \cup (c \ releases),
                               !.pc = IF run[r].left = c THEN "publish" ELSE "insert"]
<1>1. /\ run[r].pc = "insert" /\ run[r] \in RunStates /\ dropped \subseteq Items
      /\ Body(run[r].body) \subseteq releases \cup run[r].left
      /\ run[r].left \subseteq Body(run[r].body)
      /\ faults' \in 0..MaxFaults
      /\ UNCHANGED <<head, thin, cursor, announced, crawl, dropped>>
  BY OneRun DEF Insert, Stored
<1>2. c \subseteq run[r].left /\ c \in SUBSET Items
  BY <1>1, ChunkPart DEF RunStates
<1>3. run' = [run EXCEPT ![r] = j] /\ releases' = releases \cup c
  BY OneRun DEF Insert, RunStates
<1> HIDE DEF c
<1>4. /\ j \in RunStates /\ j.left = run[r].left \ c /\ j.body = run[r].body
      /\ j.got = run[r].got \cup (c \ releases)
      /\ j.pc = IF run[r].left = c THEN "publish" ELSE "insert"
  BY <1>1, <1>2 DEF RunStates
<1> HIDE DEF j
<1>5. Stored(j, releases')
  BY <1>1, <1>2, <1>3, <1>4 DEF Stored
<1> QED
  BY <1>1, <1>2, <1>3, <1>4, <1>5, StoreStep

LEMMA InsertFailsStep == ASSUME IngestInv, NEW r \in Runs, InsertFails(r) PROVE IngestInv'
<1>1. PICK c \in {{}, NextChunk(run[r].left)} :
        releases' = releases \cup c /\ dropped' = dropped \cup run[r].got \cup (c \ releases)
  BY DEF InsertFails
<1>2. run[r] \in RunStates /\ dropped \subseteq Items
  BY OneRun
<1>3. c \in SUBSET Items /\ dropped' \subseteq Items
  BY <1>1, <1>2, ChunkPart DEF RunStates
<1>4. /\ run' = [run EXCEPT ![r] = Again(r)] /\ faults' \in 0..MaxFaults
      /\ UNCHANGED <<head, thin, cursor, announced, crawl>>
  BY FaultTyped DEF InsertFails
<1>5. Again(r) \in RunStates /\ Again(r).got = {} /\ Again(r).pc \in {"idle", "fetch"}
  BY AgainState DEF Again, Idle
<1>6. Stored(Again(r), releases')
  BY <1>5 DEF Stored
<1> QED
  BY <1>1, <1>3, <1>4, <1>5, <1>6, StoreStep

\* What a run publishes no other run holds, and nobody has published.
LEMMA PublishStep == ASSUME IngestInv, NEW r \in Runs, Publish(r) PROVE IngestInv'
<1> DEFINE j == [run[r] EXCEPT !.pc = "book", !.got = {}]
<1>1. /\ run[r] \in RunStates /\ run[r].pc = "publish" /\ Holds(run[r])
      /\ Body(run[r].body) \subseteq releases
      /\ run \in [Runs -> RunStates] /\ faults' \in 0..MaxFaults
      /\ UNCHANGED <<head, thin, cursor, releases, crawl, dropped>>
  BY OneRun DEF Publish, Stored
<1>2. run' = [run EXCEPT ![r] = j]
  BY <1>1 DEF Publish, RunStates
<1>3. j \in RunStates /\ j.got = {} /\ j.pc = "book" /\ j.body = run[r].body
  BY <1>1 DEF RunStates
<1> HIDE DEF j
<1>4. run' \in [Runs -> RunStates] /\ run'[r] = j /\ \A r2 \in Runs : r2 # r => run'[r2] = run[r2]
  BY <1>1, <1>2, <1>3
<1>5. announced \in [Items -> Nat]
  BY DEF IngestInv, TypeOK
<1>6. /\ announced' \in [Items -> Nat]
      /\ \A i \in Items : announced'[i] = announced[i] + IF i \in run[r].got THEN 1 ELSE 0
  BY <1>5 DEF Publish
<1>7. run[r].got \subseteq Items
  BY <1>1 DEF RunStates
<1>8. TypeOK'
  BY <1>1, <1>4, <1>6 DEF IngestInv, TypeOK, RunStates
<1>9. CursorTrailsItems'
  BY <1>1 DEF IngestInv, CursorTrailsItems
<1>10. AnnouncedOnce'
  BY <1>1, <1>5, <1>6 DEF IngestInv, AnnouncedOnce, Holds
<1>11. AnnouncedAreStored'
  BY <1>1, <1>5, <1>6 DEF IngestInv, AnnouncedAreStored, Holds
<1>12. SilentOnlyAfterFailure'
  <2> SUFFICES ASSUME NEW i \in releases, announced'[i] = 0
               PROVE  i \in dropped \/ \E r2 \in Runs : i \in run'[r2].got
    BY <1>1 DEF SilentOnlyAfterFailure
  <2>1. i \in Items
    BY DEF IngestInv, TypeOK
  <2>2. announced[i] = 0 /\ i \notin run[r].got
    BY <2>1, <1>5, <1>6
  <2> QED
    BY <2>2, <1>4 DEF IngestInv, SilentOnlyAfterFailure
<1>13. \A r2 \in Runs : Stored(run[r2], releases)'
  BY <1>1, <1>3, <1>4 DEF IngestInv, Stored
<1>14. \A r2 \in Runs : Holds(run[r2])'
  <2> SUFFICES ASSUME NEW r2 \in Runs PROVE Holds(run[r2])'
    OBVIOUS
  <2>1. CASE r2 = r
    BY <2>1, <1>3, <1>4 DEF Holds
  <2>2. CASE r2 # r
    <3>1. run'[r2] = run[r2] /\ run[r2].got \cap run[r].got = {} /\ Holds(run[r2])
      BY <2>2, <1>4 DEF IngestInv, HeldOnce
    <3>2. run[r2].got \subseteq Items
      BY <1>1 DEF RunStates
    <3>3. \A i \in run[r2].got : announced'[i] = 0
      BY <3>1, <3>2, <1>6 DEF Holds
    <3> QED
      BY <3>1, <3>3, <1>1 DEF Holds
  <2> QED
    BY <2>1, <2>2
<1>15. HeldOnce'
  BY <1>3, <1>4 DEF IngestInv, HeldOnce
<1> QED
  BY <1>8, <1>9, <1>10, <1>11, <1>12, <1>13, <1>14, <1>15 DEF IngestInv

\* A crawl publishes what it stored itself.
LEMMA CrawlStep == ASSUME IngestInv, CrawlEnds PROVE IngestInv'
<1>1. /\ releases' = releases \cup Body(head) /\ Body(head) \subseteq Items
      /\ UNCHANGED <<head, thin, cursor, run, dropped, faults>> /\ crawl' = FALSE
  BY BodyItems DEF CrawlEnds
<1>2. announced \in [Items -> Nat] /\ releases \subseteq Items
  BY DEF IngestInv, TypeOK
<1>3. /\ announced' \in [Items -> Nat]
      /\ \A i \in Items : announced'[i] = announced[i] + IF i \in Body(head) \ releases THEN 1 ELSE 0
  BY <1>2 DEF CrawlEnds
<1>4. \A i \in Items : i \notin releases => announced[i] = 0
  BY <1>2 DEF IngestInv, AnnouncedAreStored
<1>5. TypeOK'
  BY <1>1, <1>2, <1>3 DEF IngestInv, TypeOK
<1>6. CursorTrailsItems'
  BY <1>1 DEF IngestInv, CursorTrailsItems
<1>7. AnnouncedOnce'
  BY <1>2, <1>3, <1>4 DEF IngestInv, AnnouncedOnce
<1>8. AnnouncedAreStored'
  BY <1>1, <1>2, <1>3 DEF IngestInv, AnnouncedAreStored
<1>9. \A i \in releases : announced'[i] = announced[i]
  BY <1>2, <1>3
<1>10. \A i \in releases' \ releases : announced'[i] > 0
  BY <1>1, <1>2, <1>3
<1>11. SilentOnlyAfterFailure'
  BY <1>1, <1>9, <1>10 DEF IngestInv, SilentOnlyAfterFailure
<1>12. \A r \in Runs : Stored(run[r], releases)' /\ Holds(run[r])'
  BY <1>1, <1>9 DEF IngestInv, Stored, Holds
<1>13. HeldOnce'
  BY <1>1 DEF IngestInv, HeldOnce
<1> QED
  BY <1>5, <1>6, <1>7, <1>8, <1>11, <1>12, <1>13 DEF IngestInv

\* The publisher, and a crawl that fails.
LEMMA OutsideStep == ASSUME IngestInv, Changes \/ CrawlFails PROVE IngestInv'
<1>1. UNCHANGED <<thin, cursor, releases, announced, run, dropped>>
  BY DEF Changes, CrawlFails
<1>2. head \in 0..Versions /\ crawl \in BOOLEAN /\ faults \in 0..MaxFaults
  BY DEF IngestInv, TypeOK
<1>3. head' \in 0..Versions
  BY <1>2, IngestAssumption DEF Changes, CrawlFails
<1>4. crawl' \in BOOLEAN /\ faults' \in 0..MaxFaults
  BY <1>2, FaultTyped DEF Changes, CrawlFails
<1> QED
  BY <1>1, <1>3, <1>4
     DEF IngestInv, TypeOK, CursorTrailsItems, AnnouncedOnce, SilentOnlyAfterFailure, Stored,
         Holds, HeldOnce, AnnouncedAreStored

LEMMA IngestSteps == IngestInv /\ [Next]_vars => IngestInv'
<1> SUFFICES ASSUME IngestInv, [Next]_vars PROVE IngestInv'
  OBVIOUS
<1>1. ASSUME NEW r \in Runs, Works(r) \/ StartByHand(r) PROVE IngestInv'
  BY <1>1, StartStep, HeadCheckStep, NoChangeStep, FetchStep, InsertStep, PublishStep, BookStep
     DEF Works
<1>2. ASSUME NEW r \in Runs, Fails(r) PROVE IngestInv'
  BY <1>2, InsertFailsStep, BookStep, StepFailsStep DEF Fails
<1>3. CASE UNCHANGED vars
  BY <1>3
     DEF vars, IngestInv, TypeOK, CursorTrailsItems, AnnouncedOnce, SilentOnlyAfterFailure,
         Stored, Holds, HeldOnce, AnnouncedAreStored
<1> QED
  BY <1>1, <1>2, <1>3, CrawlStep, OutsideStep DEF Next

-----------------------------------------------------------------------------
(* What is proved of every ingestion.                                      *)

\* The invariant holds of every behaviour, for any constants.
THEOREM IngestInvariance == Spec => []IngestInv
  BY InitIngest, IngestSteps, PTL DEF Spec

\* Every variable keeps its type, the bound on re-tries included.
THEOREM IngestTypes == Spec => []TypeOK
<1>1. IngestInv => TypeOK
  BY DEF IngestInv
<1> QED
  BY <1>1, IngestInvariance, PTL

\* Whichever run, re-try or lost answer wrote the stored validators, the items of
\* their body are in the table: no 304 hides an item that was not stored (fetchOne).
THEOREM CursorsTrail == Spec => []CursorTrailsItems
<1>1. IngestInv => CursorTrailsItems
  BY DEF IngestInv
<1> QED
  BY <1>1, IngestInvariance, PTL

\* Overlapping runs, re-tries and crawls publish an item once at most
\* (ingestRawReleases' RETURNING).
THEOREM NoItemIsRepublished == Spec => []AnnouncedOnce
<1>1. IngestInv => AnnouncedOnce
  BY DEF IngestInv
<1> QED
  BY <1>1, IngestInvariance, PTL

\* A stored item is published unless the attempt that stored it failed or still runs.
THEOREM SilenceHasACause == Spec => []SilentOnlyAfterFailure
<1>1. IngestInv => SilentOnlyAfterFailure
  BY DEF IngestInv
<1> QED
  BY <1>1, IngestInvariance, PTL

-----------------------------------------------------------------------------
(* The drain of an organization's pages.                                   *)

Job == [todo : SUBSET Sources, doing : Sources \cup {Nobody}, current : BOOLEAN]

LEMMA DrainConstants ==
  /\ Cap \in Nat \ {0} /\ Cooldown \in Nat \ {0} /\ Stale \in Nat \ {0}
  /\ MaxUpsets \in Nat /\ MaxChanges \in Nat
  BY DrainAssumption

LEMMA NoUpdateTyped == NoUpdate \in Job
  BY DEF NoUpdate, Job

LEMMA UpsetTyped == DrainTypeOK /\ (Upset \/ UNCHANGED upsets) => upsets' \in 0..MaxUpsets
  BY DrainConstants DEF Upset, DrainTypeOK

LEMMA NotifyTyped ==
  DrainTypeOK /\ (Notify \/ UNCHANGED <<orgAlarm, upsets>>) =>
    orgAlarm' \in {"none", "set", "dead"} /\ upsets' \in 0..MaxUpsets
  BY UpsetTyped DEF Notify, DrainTypeOK

LEMMA BatchChosen == ASSUME NEW B \in Batches PROVE B \subseteq flagged /\ \A s \in B : cool[s] = 0
  BY DEF Batches, Candidates

LEMMA InitDrain == DrainInit => DrainTypeOK
<1> SUFFICES ASSUME DrainInit PROVE DrainTypeOK
  OBVIOUS
<1>1. age \in [Sources -> 0..Stale] /\ cool \in [Sources -> 0..Cooldown]
  BY DrainConstants DEF DrainInit
<1>2. update \in [Updates -> Job]
  BY NoUpdateTyped DEF DrainInit
<1>3. changes \in 0..MaxChanges /\ upsets \in 0..MaxUpsets
  BY DrainConstants DEF DrainInit
<1> QED
  BY <1>1, <1>2, <1>3 DEF DrainInit, DrainTypeOK, Job

\* The polls, the publisher and the hand that flags.
LEMMA SourceTypes ==
  ASSUME DrainTypeOK, NEW s \in Sources,
         PageChanges(s) \/ Wake(s) \/ Poll(s) \/ PollDies(s) \/ FlagByHand(s)
  PROVE DrainTypeOK'
<1>1. CASE PageChanges(s)
  <2>1. update' \in [Updates -> Job]
    <3>1. \A u \in Updates : update[u] \in Job /\ [update[u] EXCEPT !.current = FALSE] \in Job
      BY DEF DrainTypeOK, Job
    <3> QED BY <1>1, <3>1 DEF PageChanges
  <2>2. changes' \in 0..MaxChanges
    BY <1>1, DrainConstants DEF PageChanges, DrainTypeOK
  <2>3. page' \in [Sources -> {"new", "seen", "stored"}]
    BY <1>1 DEF PageChanges, DrainTypeOK
  <2> QED BY <1>1, <2>1, <2>2, <2>3 DEF PageChanges, DrainTypeOK, Job
<1>2. CASE Wake(s)
  BY <1>2, NotifyTyped DEF Wake, DrainTypeOK
<1>3. CASE Poll(s)
  <2>1. PICK probe \in {"told", "first", "unknown", "failed"} :
          /\ page' = [page EXCEPT ![s] =
                        IF probe \in {"told", "first"} /\ @ = "new" THEN "seen" ELSE @]
          /\ \/ flagged' = flagged \cup {s} /\ Notify
             \/ UNCHANGED <<flagged, orgAlarm, upsets>>
    BY <1>3 DEF Poll
  <2>2. page' \in [Sources -> {"new", "seen", "stored"}]
    BY <2>1 DEF DrainTypeOK
  <2>3. flagged' \in SUBSET Sources
    BY <2>1 DEF DrainTypeOK
  <2>4. orgAlarm' \in {"none", "set", "dead"} /\ upsets' \in 0..MaxUpsets
    BY <2>1, NotifyTyped
  <2> QED BY <1>3, <2>2, <2>3, <2>4 DEF Poll, DrainTypeOK
<1>4. CASE PollDies(s)
  BY <1>4, UpsetTyped DEF PollDies, DrainTypeOK
<1>5. CASE FlagByHand(s)
  BY <1>5, UpsetTyped DEF FlagByHand, DrainTypeOK, polls
<1> QED
  BY <1>1, <1>2, <1>3, <1>4, <1>5

LEMMA StartsTyped ==
  ASSUME DrainTypeOK, NEW u \in Updates, NEW B \in SUBSET Sources, Starts(u, B)
  PROVE lease' \in [Sources -> Updates \cup {Nobody}] /\ update' \in [Updates -> Job]
  BY DEF Starts, DrainTypeOK, Job

LEMMA ActorTypes ==
  DrainTypeOK /\ (ActorWorks \/ DispatchFails \/ DrainAlarmDies) => DrainTypeOK'
<1> SUFFICES ASSUME DrainTypeOK, ActorWorks \/ DispatchFails \/ DrainAlarmDies
             PROVE DrainTypeOK'
  OBVIOUS
<1>1. CASE DrainAlarm
  BY <1>1, BatchChosen DEF DrainAlarm, DrainTypeOK, polls
<1>2. ASSUME NEW u \in Updates, Dispatched(u) PROVE DrainTypeOK'
  BY <1>2, StartsTyped DEF Dispatched, DrainTypeOK, polls, Job
<1>3. CASE Superseded
  BY <1>3 DEF Superseded, DrainTypeOK, polls
<1>4. CASE Stamps
  <2>1. upsets' \in 0..MaxUpsets
    BY <1>4, UpsetTyped DEF Stamps
  <2>2. cool' \in [Sources -> 0..Cooldown]
    BY <1>4, DrainConstants DEF Stamps, DrainTypeOK
  <2> QED BY <1>4, <2>1, <2>2 DEF Stamps, DrainTypeOK, polls
<1>5. CASE DispatchFails
  BY <1>5, UpsetTyped DEF DispatchFails, DrainTypeOK, polls
<1>6. CASE DrainAlarmDies
  BY <1>6, UpsetTyped DEF DrainAlarmDies, DrainTypeOK, polls
<1> QED
  BY <1>1, <1>2, <1>3, <1>4, <1>5, <1>6 DEF ActorWorks

LEMMA UpdateTypes ==
  ASSUME DrainTypeOK, NEW u \in Updates,
         UpdateWorks(u) \/ UpdateDies(u) \/ \E s \in Sources : UpdateByHand(u, s)
  PROVE DrainTypeOK'
<1>a. Turns(u) => update' \in [Updates -> Job]
  <2>1. [update[u] EXCEPT !.doing = Nobody, !.current = FALSE] \in Job
    BY DEF DrainTypeOK, Job
  <2> QED BY <2>1 DEF Turns, DrainTypeOK, Job
<1>1. CASE UpdateEnds(u)
  <2>1. lease' \in [Sources -> Updates \cup {Nobody}]
    BY <1>1 DEF UpdateEnds, GivenBack, DrainTypeOK
  <2> QED BY <1>1, <2>1 DEF UpdateEnds, DrainTypeOK, polls
<1>2. ASSUME NEW s \in Sources, FetchStarts(u, s) PROVE DrainTypeOK'
  <2>1. update' \in [Updates -> Job]
    BY <1>2 DEF FetchStarts, DrainTypeOK, Job
  <2> QED BY <1>2, <2>1 DEF FetchStarts, DrainTypeOK, polls, Job
<1>3. ASSUME NEW s \in Sources, Fetches(u, s) PROVE DrainTypeOK'
  <2>1. age' \in [Sources -> 0..Stale] /\ page' \in [Sources -> {"new", "seen", "stored"}]
    BY <1>3, DrainConstants DEF Fetches, DrainTypeOK
  <2> QED BY <1>a, <1>3, <2>1 DEF Fetches, DrainTypeOK, Job
<1>4. ASSUME NEW s \in Sources, FetchFails(u, s) PROVE DrainTypeOK'
  <2>1. upsets' \in 0..MaxUpsets
    BY <1>4, UpsetTyped DEF FetchFails
  <2> QED BY <1>a, <1>4, <2>1 DEF FetchFails, DrainTypeOK, polls, Job
<1>5. CASE UpdateDies(u)
  <2>1. update' \in [Updates -> Job]
    BY <1>5, NoUpdateTyped DEF UpdateDies, DrainTypeOK, Job
  <2> QED BY <1>5, <2>1, UpsetTyped DEF UpdateDies, DrainTypeOK, polls, Job
<1>6. ASSUME NEW s \in Sources, UpdateByHand(u, s) PROVE DrainTypeOK'
  BY <1>6, StartsTyped, UpsetTyped DEF UpdateByHand, DrainTypeOK, polls, Job
<1> QED
  BY <1>1, <1>2, <1>3, <1>4, <1>5, <1>6 DEF UpdateWorks

LEMMA DrainTickTypes == DrainTypeOK /\ DrainTick => DrainTypeOK'
<1> SUFFICES ASSUME DrainTypeOK, DrainTick PROVE DrainTypeOK'
  OBVIOUS
<1>1. cool' \in [Sources -> 0..Cooldown]
  <2>1. \A s \in Sources : (IF cool[s] = 0 THEN 0 ELSE cool[s] - 1) \in 0..Cooldown
    <3>1. \A s \in Sources : cool[s] \in 0..Cooldown
      BY DEF DrainTypeOK
    <3> QED BY <3>1, DrainConstants
  <2> QED BY <2>1 DEF DrainTick
<1>2. age' \in [Sources -> 0..Stale]
  <2>1. \A s \in Sources : (IF age[s] = Stale THEN Stale ELSE age[s] + 1) \in 0..Stale
    <3>1. \A s \in Sources : age[s] \in 0..Stale
      BY DEF DrainTypeOK
    <3> QED BY <3>1, DrainConstants
  <2> QED BY <2>1 DEF DrainTick
<1> QED
  BY <1>1, <1>2 DEF DrainTick, DrainTypeOK

\* What the alarm is about to dispatch is still off its cooldown: the stamps of the
\* alarm before are written when it looks, and only the alarm stamps.
BatchIsCool ==
    /\ batch = {} \/ stamp = {}
    /\ \A s \in batch : cool[s] = 0

DrainInv == DrainTypeOK /\ BatchIsCool

LEMMA DrainSteps == DrainInv /\ [DrainNext]_drainVars => DrainInv'
<1> SUFFICES ASSUME DrainInv, [DrainNext]_drainVars PROVE DrainInv'
  OBVIOUS
<1>1. DrainTypeOK'
  <2>1. UNCHANGED drainVars => DrainTypeOK'
    BY DEF DrainInv, DrainTypeOK, drainVars
  <2> QED
    BY <2>1, SourceTypes, ActorTypes, UpdateTypes, DrainTickTypes DEF DrainInv, DrainNext
<1>2. BatchIsCool'
  <2> USE DEF BatchIsCool, DrainInv
  <2>1. UNCHANGED <<batch, stamp, cool>> => BatchIsCool'
    OBVIOUS
  <2>2. CASE DrainAlarm
    BY <2>2, BatchChosen DEF DrainAlarm
  <2>3. ASSUME batch' = {}, UNCHANGED cool PROVE BatchIsCool'
    BY <2>3
  <2>4. CASE Stamps
    BY <2>4 DEF Stamps
  <2>5. CASE DrainTick
    BY <2>5 DEF DrainTick
  <2>6. CASE UNCHANGED drainVars
    BY <2>1, <2>6 DEF drainVars
  <2>7. ASSUME NEW u \in Updates, Dispatched(u) PROVE BatchIsCool'
    BY <2>3, <2>7 DEF Dispatched
  <2>8. CASE Superseded \/ DispatchFails
    BY <2>3, <2>8 DEF Superseded, DispatchFails
  <2>9. CASE DrainAlarmDies
    BY <2>1, <2>9 DEF DrainAlarmDies
  <2>10. ASSUME NEW s \in Sources,
                PageChanges(s) \/ Wake(s) \/ Poll(s) \/ PollDies(s) \/ FlagByHand(s)
         PROVE BatchIsCool'
    BY <2>1, <2>10 DEF PageChanges, Wake, Poll, PollDies, FlagByHand
  <2>11. ASSUME NEW u \in Updates,
                UpdateWorks(u) \/ UpdateDies(u) \/ \E s \in Sources : UpdateByHand(u, s)
         PROVE BatchIsCool'
    BY <2>1, <2>11 DEF UpdateWorks, UpdateEnds, FetchStarts, Fetches, FetchFails, UpdateDies,
                       UpdateByHand
  <2> QED
    BY <2>2, <2>4, <2>5, <2>6, <2>7, <2>8, <2>9, <2>10, <2>11 DEF DrainNext, ActorWorks
<1> QED
  BY <1>1, <1>2 DEF DrainInv

\* The variables of the drain have their types, and what is dispatched is cool.
THEOREM DrainInvariance == DrainSpec => []DrainInv
<1>1. DrainInit => DrainInv
  BY InitDrain DEF DrainInit, DrainInv, BatchIsCool
<1> QED
  BY <1>1, DrainSteps, PTL DEF DrainSpec

THEOREM DrainTypes == DrainSpec => []DrainTypeOK
  BY DrainInvariance, PTL DEF DrainInv

\* last_drain_at is a cooldown: the alarm starts no update run for a source whose
\* last drain was stamped less than DRAIN_COOLDOWN_MS ago, however long its own
\* dispatch took and whatever was flagged meanwhile.
CooldownHolds == [][\A s \in stamp' \ stamp : cool[s] = 0]_drainVars

THEOREM DrainsCoolDown == DrainSpec => CooldownHolds
<1>1. ASSUME DrainInv, [DrainNext]_drainVars
      PROVE [\A s \in stamp' \ stamp : cool[s] = 0]_drainVars
  <2>1. stamp' \subseteq stamp \cup batch
    BY <1>1 DEF DrainNext, drainVars, ActorWorks, DrainAlarm, Dispatched, Superseded, Stamps,
         DispatchFails, DrainAlarmDies, DrainTick, PageChanges, Wake, Poll, PollDies,
         FlagByHand, UpdateWorks, UpdateEnds, FetchStarts, Fetches, FetchFails, UpdateDies,
         UpdateByHand
  <2> QED BY <1>1, <2>1 DEF DrainInv, BatchIsCool
<1> QED
  BY <1>1, DrainInvariance, PTL DEF DrainSpec, CooldownHolds

-----------------------------------------------------------------------------
(* The two side by side.                                                   *)

\* The composed workflow does to feeds what FeedIngest does, and to pages what
\* OrgDrain does: what is proved of either holds of the specification that is run.
THEOREM PollsRefineIngest == PollSpec => Spec
<1>1. PollInit => Init
  BY DEF PollInit
<1>2. [PollNext]_pollVars => [Next]_vars
  BY DEF PollNext, FetchesFeed, DefersToDrain, pollVars
<1> QED
  BY <1>1, <1>2, PTL DEF PollSpec, Spec

THEOREM PollsRefineDrain == PollSpec => DrainSpec
<1>1. PollInit => DrainInit
  BY DEF PollInit
<1>2. [PollNext]_pollVars => [DrainNext]_drainVars
  BY DEF PollNext, FetchesFeed, DefersToDrain, pollVars
<1> QED
  BY <1>1, <1>2, PTL DEF PollSpec, DrainSpec

\* So an ingest under the workflow never stores a cursor ahead of its items, never
\* announces one twice, and is silent about one only after a failure.
THEOREM PolledFeedsAreKept ==
  PollSpec => [](CursorTrailsItems /\ AnnouncedOnce /\ SilentOnlyAfterFailure)
  BY PollsRefineIngest, CursorsTrail, NoItemIsRepublished, SilenceHasACause, PTL

-----------------------------------------------------------------------------
(* The fetch timer of a source.  Time:                                     *)

LEMMA TimesOK ==
  /\ Window \in Nat \ {0} /\ Retry \in Nat \ {0} /\ Interval \in Nat \ {0}
  /\ Backoff \in Nat \ {0} /\ Life \in Nat \ {0} /\ Jitter \in Nat
  /\ Window <= Far /\ Retry <= Far /\ Interval <= Far /\ Jitter <= Far /\ 1 <= Far
  /\ Far \in Nat /\ OldMark \in Nat /\ Mishaps \in Nat /\ None \notin Int
  BY TimerAssumption DEF Far, OldMark

LEMMA DueInCountdown ==
  ASSUME NEW r \in Rows, DueIn(r) > 0
  PROVE DueIn(r) \in Countdown
<1>1. r.backoff \in 0..Backoff /\ (r.polled = None \/ r.polled \in 0..Interval)
  BY DEF Rows
<1>2. QED
  BY <1>1, TimesOK, Backoff <= Far DEF DueIn, Atleast, Countdown, Far

\* sourceActorWorkflowId: an instant keeps its bucket while the clock is inside
\* the present one, and moves one back when the next one begins.
LEMMA BucketMoves ==
  ASSUME phase \in 0..(Window - 1), NEW old \in Nat
  PROVE /\ BucketAge(old) \in Nat
        /\ phase = Window - 1 => (old + 1 + Window - 1 - 0) \div Window = BucketAge(old) + 1
        /\ phase # Window - 1 => (old + 1 + Window - 1 - (phase + 1)) \div Window = BucketAge(old)
<1> DEFINE n == old + Window - 1 - phase
<1>1. n \in Nat /\ Window \in Nat \ {0}
  BY TimesOK
<1>2. n \div Window \in Nat /\ (n + Window) \div Window = (n \div Window) + 1
  <2> HIDE DEF n
  <2> QED BY <1>1
<1>3. phase = Window - 1 => old + 1 + Window - 1 - 0 = n + Window
  BY TimesOK
<1>4. phase # Window - 1 => old + 1 + Window - 1 - (phase + 1) = n
  BY TimesOK
<1> QED
  BY <1>2, <1>3, <1>4 DEF BucketAge

LEMMA FreshBucket ==
  ASSUME phase \in 0..(Window - 1)
  PROVE BucketAge(0) = 0
<1>1. \A n \in 0..(Window - 1) : n \div Window = 0
  BY TimesOK
<1>2. 0 + Window - 1 - phase \in 0..(Window - 1)
  BY TimesOK
<1> QED
  BY <1>1, <1>2 DEF BucketAge

\* A mark that has grown to its cap is that of no bucket.
LEMMA CappedMark ==
  ASSUME phase \in 0..(Window - 1), NEW old \in 0..OldMark, BucketAge(old) <= Life
  PROVE old < OldMark
<1> DEFINE n == old + Window - 1 - phase
<1>1. n \in Nat /\ Window \in Nat \ {0} /\ Life \in Nat /\ n \div Window <= Life
  BY TimesOK DEF BucketAge
<1>2. n < Window * (n \div Window) + Window /\ n \div Window \in Nat
  <2> HIDE DEF n
  <2> QED BY <1>1
<1>3. \A k \in Nat : k <= Life => Window * k <= Window * Life
  BY TimesOK
<1>4. n < Window * Life + Window
  <2>1. Window * (n \div Window) <= Window * Life
    BY <1>1, <1>2, <1>3
  <2>2. Window * (n \div Window) \in Int /\ Window * Life \in Int
    BY <1>1, <1>2
  <2> HIDE DEF n
  <2> QED BY <2>1, <2>2, <1>1, <1>2
<1>5. OldMark = Window * Life + Window
  BY <1>1 DEF OldMark
<1>6. old <= n
  BY TimesOK
<1>7. Window * Life + Window \in Int
  BY <1>1
<1> QED
  BY <1>4, <1>5, <1>6, <1>7, <1>1

-----------------------------------------------------------------------------
(* Types.                                                                  *)

LEMMA IdleTyped ==
  AlarmIdle \in [pc : {"idle", "loaded", "create", "fired", "failed", "mirror"},
                 row : Rows, managed : BOOLEAN, next : {None} \cup Countdown]
  BY TimesOK DEF AlarmIdle, Rows

LEMMA InitTypes == TimerInit => TimerTypeOK
<1> SUFFICES ASSUME TimerInit PROVE TimerTypeOK
  OBVIOUS
<1>1. row \in Rows /\ mirror \in [managed : BOOLEAN, next : {None} \cup Countdown]
  BY TimesOK DEF TimerInit, Rows
<1>2. runs \in [0..Life -> Status]
  BY DEF TimerInit, Status
<1>3. phase \in 0..(Window - 1) /\ mishaps \in 0..Mishaps
  BY TimesOK DEF TimerInit
<1> QED
  BY <1>1, <1>2, <1>3, IdleTyped DEF TimerInit, TimerTypeOK

LEMMA ScheduleTypes ==
  ASSUME TimerTypeOK, NEW at \in Countdown, NEW newMark \in {None} \cup 0..OldMark,
         ScheduleAt(at, newMark),
         UNCHANGED <<phase, beat, row, mirror, write, runs, fires, userVars>>,
         mishaps' \in 0..Mishaps, forgot' \subseteq Reasons
  PROVE TimerTypeOK'
<1>1. handler' \in [pc : {"idle", "loaded", "create", "fired", "failed", "mirror"},
                    row : Rows, managed : BOOLEAN, next : {None} \cup Countdown]
  BY IdleTyped DEF ScheduleAt, AlarmIdle
<1> QED
  BY <1>1 DEF TimerTypeOK, ScheduleAt, userVars

LEMMA AlarmTypes == TimerTypeOK /\ (AlarmNext \/ AlarmCrashes) => TimerTypeOK'
<1> SUFFICES ASSUME TimerTypeOK, AlarmNext \/ AlarmCrashes PROVE TimerTypeOK'
  OBVIOUS
<1>a. ASSUME NEW m, NEW why \in Reasons, Forgets(m, why) PROVE forgot' \subseteq Reasons
  BY <1>a DEF Forgets, TimerTypeOK
<1>b. {Window, Retry, Interval} \subseteq Countdown
  BY TimesOK DEF Countdown
<1>1. CASE AlarmRuns
  <2>1. handler' = [AlarmIdle EXCEPT !.pc = "loaded", !.row = row] /\ row \in Rows
    BY <1>1 DEF AlarmRuns, TimerTypeOK
  <2>2. handler' \in [pc : {"idle", "loaded", "create", "fired", "failed", "mirror"},
                      row : Rows, managed : BOOLEAN, next : {None} \cup Countdown]
    BY <2>1, IdleTyped DEF AlarmIdle
  <2> QED BY <1>1, <2>2 DEF AlarmRuns, TimerTypeOK, userVars
<1>2. CASE NoReschedule
  <2>1. handler' \in [pc : {"idle", "loaded", "create", "fired", "failed", "mirror"},
                      row : Rows, managed : BOOLEAN, next : {None} \cup Countdown]
    BY <1>2, IdleTyped DEF AlarmIdle, NoReschedule
  <2>2. forgot' \subseteq Reasons
    BY <1>2, <1>a DEF NoReschedule, Reasons
  <2> QED BY <1>2, <2>1, <2>2 DEF NoReschedule, TimerTypeOK, userVars
<1>3. CASE NotYetDue
  <2>1. DueIn(handler.row) \in Countdown
    BY <1>3, DueInCountdown DEF NotYetDue, TimerTypeOK
  <2>2. forgot' \subseteq Reasons
    BY <1>3, <1>a DEF NotYetDue, Reasons
  <2> QED BY <1>3, <2>1, <2>2, ScheduleTypes DEF NotYetDue, TimerTypeOK
<1>4. CASE Guarded
  <2>1. mishaps' \in 0..Mishaps
    BY <1>4, TimesOK DEF Guarded, TimerTypeOK
  <2> QED BY <1>4, <2>1, <1>b, ScheduleTypes DEF Guarded, TimerTypeOK
<1>5. CASE GoesToFire
  BY <1>5, IdleTyped DEF AlarmIdle, GoesToFire, TimerTypeOK, userVars
<1>6. CASE Created
  <2>1. handler' \in [pc : {"idle", "loaded", "create", "fired", "failed", "mirror"},
                      row : Rows, managed : BOOLEAN, next : {None} \cup Countdown]
    BY <1>6, IdleTyped DEF AlarmIdle, Created
  <2>2. mishaps' \in 0..Mishaps /\ forgot' \subseteq Reasons /\ fires' \in Nat
    BY <1>6, TimesOK DEF Created, TimerTypeOK, Reasons
  <2>3. runs' \in [0..Life -> Status]
    BY <1>6, TimesOK DEF Created, TimerTypeOK, Status
  <2> QED BY <1>6, <2>1, <2>2, <2>3 DEF Created, TimerTypeOK, userVars
<1>7. CASE NotCreated
  <2>1. mishaps' \in 0..Mishaps
    BY <1>7, TimesOK DEF NotCreated, TimerTypeOK
  <2> QED BY <1>7, <2>1, IdleTyped DEF AlarmIdle, NotCreated, TimerTypeOK, userVars
<1>8. CASE AfterFire
  <2>1. forgot' \subseteq Reasons
    BY <1>8, <1>a DEF AfterFire, Reasons, TimerTypeOK
  <2>2. 0 \in 0..OldMark
    BY TimesOK
  <2> QED BY <1>8, <2>1, <2>2, <1>b, ScheduleTypes DEF AfterFire, TimerTypeOK
<1>9. CASE AlarmMirrors
  <2>1. mishaps' \in 0..Mishaps
    BY <1>9, TimesOK DEF AlarmMirrors, TimerTypeOK
  <2>2. mirror' \in [managed : BOOLEAN, next : {None} \cup Countdown]
    BY <1>9 DEF AlarmMirrors, TimerTypeOK
  <2> QED BY <1>9, <2>1, <2>2, IdleTyped DEF AlarmMirrors, TimerTypeOK, userVars
<1>10. CASE AlarmCrashes
  <2>1. mishaps' \in 0..Mishaps
    BY <1>10, TimesOK DEF AlarmCrashes, TimerTypeOK
  <2>2. alarm' \in {None} \cup Countdown
    BY <1>10, TimesOK DEF AlarmCrashes, TimerTypeOK, Countdown
  <2>3. forgot' \subseteq Reasons
    BY <1>10 DEF AlarmCrashes, TimerTypeOK, Reasons
  <2> QED BY <1>10, <2>1, <2>2, <2>3, IdleTyped DEF AlarmCrashes, TimerTypeOK, userVars
<1> QED
  BY <1>1, <1>2, <1>3, <1>4, <1>5, <1>6, <1>7, <1>8, <1>9, <1>10 DEF AlarmNext

LEMMA CallTypes ==
  TimerTypeOK /\ (Heartbeat \/ CallArrives \/ CallIsLost \/ CallMirrors \/ UserNext)
    => TimerTypeOK'
<1> SUFFICES ASSUME TimerTypeOK,
                    Heartbeat \/ CallArrives \/ CallIsLost \/ CallMirrors \/ UserNext
             PROVE TimerTypeOK'
  OBVIOUS
<1>a. ASSUME NEW force \in BOOLEAN, EnsureScheduled(force)
      PROVE /\ alarm' \in {None} \cup Countdown /\ write' \in {None} \cup Countdown
            /\ lost' \in BOOLEAN
  <2>1. Jitter \in Countdown
    BY TimesOK DEF Countdown
  <2>2. CASE alarm \in Nat /\ ~ force
    BY <1>a, <2>2 DEF EnsureScheduled, TimerTypeOK
  <2>3. CASE ~ (alarm \in Nat /\ ~ force)
    BY <1>a, <2>1, <2>3 DEF EnsureScheduled
  <2> QED BY <2>2, <2>3
<1>1. CASE Heartbeat
  <2>1. EnsureScheduled(FALSE)
    BY <1>1 DEF Heartbeat
  <2> HIDE DEF EnsureScheduled
  <2> QED BY <1>1, <1>a, <2>1 DEF Heartbeat, TimerTypeOK, userVars
<1>2. CASE CallArrives
  <2>1. EnsureScheduled(TRUE)
    BY <1>2 DEF CallArrives
  <2> QED BY <1>2, <1>a, <2>1 DEF CallArrives, TimerTypeOK
<1>3. CASE CallIsLost
  BY <1>3, TimesOK DEF CallIsLost, TimerTypeOK, actorVars
<1>4. CASE CallMirrors
  <2>1. mishaps' \in 0..Mishaps
    BY <1>4, TimesOK DEF CallMirrors, TimerTypeOK
  <2>2. mirror' \in [managed : BOOLEAN, next : {None} \cup Countdown]
    <3>1. write \in {None} \cup Countdown
      BY DEF TimerTypeOK
    <3>2. [managed |-> TRUE, next |-> write] \in [managed : BOOLEAN, next : {None} \cup Countdown]
      BY <3>1
    <3> QED BY <1>4, <3>2 DEF CallMirrors, TimerTypeOK
  <2> QED BY <1>4, <2>1, <2>2 DEF CallMirrors, TimerTypeOK, userVars
<1>5. ASSUME UserActs PROVE mishaps' \in 0..Mishaps
  BY <1>5, TimesOK DEF UserActs, TimerTypeOK
<1>6. CASE PauseOrg
  BY <1>5, <1>6 DEF PauseOrg, TimerTypeOK, actorVars
<1>7. CASE ResumeOrg
  BY <1>5, <1>7 DEF ResumeOrg, TimerTypeOK, actorVars
<1>8. CASE PatchSource
  <2>1. row' \in Rows /\ fires' \in Nat
    BY <1>8 DEF PatchSource, TimerTypeOK, Rows
  <2> QED BY <1>5, <1>8, <2>1 DEF PatchSource, TimerTypeOK, actorVars
<1>9. CASE ManualFetch
  <2>1. row' \in Rows
    <3>1. PICK b \in {0, Backoff} : row' = [row EXCEPT !.polled = 0, !.backoff = b]
      BY <1>9 DEF ManualFetch
    <3>2. 0 \in 0..Interval /\ b \in 0..Backoff
      BY TimesOK
    <3> QED BY <3>1, <3>2 DEF TimerTypeOK, Rows
  <2> QED BY <1>5, <1>9, <2>1 DEF ManualFetch, TimerTypeOK, actorVars
<1> QED
  BY <1>1, <1>2, <1>3, <1>4, <1>6, <1>7, <1>8, <1>9 DEF UserNext

LEMMA RunStepTypes ==
  ASSUME TimerTypeOK, NEW b \in 0..Life, RunPolls(b) \/ RunEnds(b)
  PROVE TimerTypeOK'
<1>1. row' \in Rows
  <2>1. row \in Rows /\ 0 \in 0..Interval
    BY TimesOK DEF TimerTypeOK
  <2>2. CASE RunPolls(b)
    BY <2>1, <2>2 DEF RunPolls, Rows
  <2>3. CASE RunEnds(b)
    <3>1. \E left \in 0..Backoff : row' = [row EXCEPT !.backoff = left]
      <4>1. {row.backoff, 0, Backoff} \subseteq 0..Backoff
        BY <2>1, TimesOK DEF Rows
      <4> QED BY <2>3, <4>1 DEF RunEnds
    <3> QED BY <2>1, <3>1 DEF Rows
  <2> QED BY <2>2, <2>3
<1>2. runs' \in [0..Life -> Status]
  BY DEF RunPolls, RunEnds, TimerTypeOK, Status
<1>3. forgot' \subseteq Reasons
  BY DEF RunPolls, RunEnds, TimerTypeOK
<1> QED
  BY <1>1, <1>2, <1>3 DEF RunPolls, RunEnds, TimerTypeOK, userVars, actorVars

LEMMA ClockTypes == TimerTypeOK /\ (Tick \/ DropAlarm) => TimerTypeOK'
<1>1. ASSUME TimerTypeOK, Tick PROVE TimerTypeOK'
  <2>1. \A t \in {None} \cup Countdown : Sooner(t) \in {None} \cup Countdown
    BY TimesOK DEF Sooner, Atleast, Countdown
  <2>2. \A cap \in Nat : \A t \in {None} \cup 0..cap : Older(t, cap) \in {None} \cup 0..cap
    BY TimesOK DEF Older, Atmost
  <2>3. phase' \in 0..(Window - 1)
    <3>1. phase \in 0..(Window - 1) /\ phase' = (phase + 1) % Window
      BY <1>1 DEF Tick, TimerTypeOK
    <3>2. \A n \in Nat : n % Window \in 0..(Window - 1)
      BY TimesOK
    <3> QED BY <3>1, <3>2
  <2>4. alarm' \in {None} \cup Countdown /\ mark' \in {None} \cup 0..OldMark
    BY <1>1, <2>1, <2>2, TimesOK DEF Tick, TimerTypeOK
  <2>5. mirror' \in [managed : BOOLEAN, next : {None} \cup Countdown]
    BY <1>1, <2>1 DEF Tick, TimerTypeOK
  <2>6. row' \in Rows
    <3>1. row.polled \in {None} \cup 0..Interval /\ row.backoff \in 0..Backoff
      BY <1>1 DEF TimerTypeOK, Rows
    <3>2. Older(row.polled, Interval) \in {None} \cup 0..Interval
      BY <3>1, <2>2, TimesOK
    <3>3. Atleast(row.backoff - 1, 0) \in 0..Backoff
      BY <3>1, TimesOK DEF Atleast
    <3> QED BY <1>1, <3>2, <3>3 DEF Tick, TimerTypeOK, Rows
  <2>7. runs' \in [0..Life -> Status]
    <3>1. \A b \in 0..Life : b # 0 => b - 1 \in 0..Life
      BY TimesOK
    <3>2. CASE phase = Window - 1
      <4>1. runs' = [b \in 0..Life |-> IF b = 0 THEN "none" ELSE runs[b - 1]]
        BY <1>1, <3>2 DEF Tick
      <4>2. \A b \in 0..Life : (IF b = 0 THEN "none" ELSE runs[b - 1]) \in Status
        BY <1>1, <3>1 DEF TimerTypeOK, Status
      <4> QED BY <4>1, <4>2
    <3>3. CASE phase # Window - 1
      BY <1>1, <3>3 DEF Tick, TimerTypeOK
    <3> QED BY <3>2, <3>3
  <2> QED BY <1>1, <2>3, <2>4, <2>5, <2>6, <2>7 DEF Tick, TimerTypeOK, userVars
<1>2. ASSUME TimerTypeOK, DropAlarm PROVE TimerTypeOK'
  BY <1>2, TimesOK DEF DropAlarm, TimerTypeOK, userVars
<1> QED
  BY <1>1, <1>2

LEMMA NextTypes == TimerTypeOK /\ [TimerNext]_timerVars => TimerTypeOK'
<1>1. TimerTypeOK /\ UNCHANGED timerVars => TimerTypeOK'
  BY DEF timerVars, TimerTypeOK
<1> QED
  BY <1>1, AlarmTypes, CallTypes, RunStepTypes, ClockTypes DEF TimerNext

-----------------------------------------------------------------------------
(* A pause.                                                                *)

\* Once a run has started after a pause, no alarm is left that may start another:
\* none is past the check, and one that read the source before the pause is held
\* by its organization, for as long as the source itself is not paused.
PauseInv ==
    /\ fires <= 1
    /\ Paused /\ fires = 1 =>
          /\ handler.pc # "create"
          /\ handler.pc = "loaded" /\ row.paused => handler.row.paused

LEMMA InitPause == TimerInit => PauseInv
  BY DEF TimerInit, PauseInv, Paused, AlarmIdle

\* What a step of the alarm does to a pause: only Created starts a run, and it
\* comes from the check.
LEMMA AlarmPause ==
  TimerTypeOK /\ PauseInv /\ (AlarmNext \/ AlarmCrashes) => PauseInv'
<1> SUFFICES ASSUME TimerTypeOK, PauseInv, AlarmNext \/ AlarmCrashes PROVE PauseInv'
  OBVIOUS
<1> USE DEF PauseInv, Paused
<1>1. CASE AlarmRuns
  BY <1>1 DEF AlarmRuns, AlarmIdle, userVars
<1>2. CASE NoReschedule
  BY <1>2 DEF NoReschedule, AlarmIdle, userVars
<1>3. CASE NotYetDue
  BY <1>3 DEF NotYetDue, ScheduleAt, AlarmIdle, userVars
<1>4. CASE Guarded
  BY <1>4 DEF Guarded, ScheduleAt, AlarmIdle, userVars
<1>5. CASE GoesToFire
  BY <1>5 DEF GoesToFire, Proceeds, AlarmIdle, userVars, TimerTypeOK
<1>6. CASE Created
  BY <1>6 DEF Created, AlarmIdle, userVars, TimerTypeOK
<1>7. CASE NotCreated
  BY <1>7 DEF NotCreated, AlarmIdle, userVars
<1>8. CASE AfterFire
  BY <1>8 DEF AfterFire, ScheduleAt, AlarmIdle, userVars
<1>9. CASE AlarmMirrors
  BY <1>9 DEF AlarmMirrors, AlarmIdle, userVars
<1>10. CASE AlarmCrashes
  BY <1>10 DEF AlarmCrashes, AlarmIdle, userVars
<1> QED
  BY <1>1, <1>2, <1>3, <1>4, <1>5, <1>6, <1>7, <1>8, <1>9, <1>10 DEF AlarmNext

LEMMA UserPause == TimerTypeOK /\ PauseInv /\ UserNext => PauseInv'
<1> SUFFICES ASSUME TimerTypeOK, PauseInv, UserNext PROVE PauseInv'
  OBVIOUS
<1> USE DEF PauseInv, Paused
<1>1. CASE PauseOrg
  BY <1>1 DEF PauseOrg, actorVars
<1>2. CASE ResumeOrg
  BY <1>2 DEF ResumeOrg, actorVars
<1>3. CASE PatchSource
  BY <1>3 DEF PatchSource, actorVars, TimerTypeOK, Rows
<1>4. CASE ManualFetch
  <2>1. row'.paused = row.paused
    BY <1>4 DEF ManualFetch, TimerTypeOK, Rows
  <2> QED BY <1>4, <2>1 DEF ManualFetch, actorVars
<1> QED
  BY <1>1, <1>2, <1>3, <1>4 DEF UserNext

\* Nothing else looks at a pause.
LEMMA OtherPause ==
  ASSUME TimerTypeOK, PauseInv,
         \/ Heartbeat \/ CallArrives \/ CallIsLost \/ CallMirrors \/ Tick \/ DropAlarm
         \/ UNCHANGED timerVars \/ \E b \in 0..Life : RunPolls(b) \/ RunEnds(b)
  PROVE PauseInv'
<1>1. fires' = fires /\ handler' = handler /\ orgPaused' = orgPaused
  BY DEF Heartbeat, CallArrives, CallIsLost, CallMirrors, Tick, DropAlarm, timerVars,
         RunPolls, RunEnds, actorVars, userVars
<1>2. row'.paused = row.paused
  <2>1. CASE Tick
    BY <2>1 DEF Tick, TimerTypeOK, Rows
  <2>2. ASSUME NEW b \in 0..Life, RunPolls(b) PROVE row'.paused = row.paused
    BY <2>2 DEF RunPolls, TimerTypeOK, Rows
  <2>3. ASSUME NEW b \in 0..Life, RunEnds(b) PROVE row'.paused = row.paused
    <3>1. PICK left : row' = [row EXCEPT !.backoff = left]
      BY <2>3 DEF RunEnds
    <3> QED BY <3>1 DEF TimerTypeOK, Rows
  <2>4. CASE Heartbeat \/ CallArrives \/ CallIsLost \/ CallMirrors \/ DropAlarm \/ UNCHANGED timerVars
    BY <2>4 DEF Heartbeat, CallArrives, CallIsLost, CallMirrors, DropAlarm, timerVars
  <2> QED BY <2>1, <2>2, <2>3, <2>4
<1> QED
  BY <1>1, <1>2 DEF PauseInv, Paused

-----------------------------------------------------------------------------
(* The mark.                                                               *)

\* Unless something made the actor forget it, a run that is alive is the one the
\* mark names, or was started by the handler that is about to set the mark; and
\* the alarm that is about to start one has seen that none is alive.
MarkInv ==
    forgot = {} =>
        \A b \in LiveRuns :
            IF handler.pc = "fired" THEN b = 0
            ELSE handler.pc # "create" /\ mark # None /\ BucketAge(mark) = b

LEMMA InitMark == TimerInit => MarkInv
  BY DEF TimerInit, MarkInv, LiveRuns, Live

\* A step after which the same runs are alive or fewer, and the mark and the
\* handler's place are as before, forgets none.
LEMMA SameMark ==
  ASSUME MarkInv, LiveRuns' \subseteq LiveRuns, LiveRuns' # {} => forgot' = forgot,
         UNCHANGED <<mark, phase>>,
         (handler'.pc \notin {"fired", "create"} /\ handler.pc # "fired") \/ handler'.pc = handler.pc
  PROVE MarkInv'
<1>1. BucketAge(mark)' = BucketAge(mark)
  BY DEF BucketAge
<1> QED
  BY <1>1 DEF MarkInv

LEMMA AlarmMark ==
  TimerTypeOK /\ MarkInv /\ (AlarmNext \/ AlarmCrashes) => MarkInv'
<1> SUFFICES ASSUME TimerTypeOK, MarkInv, AlarmNext \/ AlarmCrashes PROVE MarkInv'
  OBVIOUS
<1>a. UNCHANGED runs => LiveRuns' = LiveRuns
  BY DEF LiveRuns, Live
<1>b. ASSUME NEW why, Forgets(None, why), UNCHANGED runs PROVE MarkInv'
  BY <1>a, <1>b DEF Forgets, MarkInv
<1>1. CASE AlarmRuns
  BY <1>a, <1>1, SameMark DEF AlarmRuns, AlarmIdle
<1>2. CASE NoReschedule
  BY <1>b, <1>2 DEF NoReschedule
<1>3. CASE NotYetDue
  BY <1>b, <1>3 DEF NotYetDue
<1>4. CASE Guarded
  BY <1>a, <1>4, SameMark DEF Guarded, Proceeds, ScheduleAt, AlarmIdle
<1>5. CASE GoesToFire
  \* The alarm looked, and the run of the mark was not alive.
  <2>1. forgot = {} => LiveRuns = {}
    BY <1>5 DEF GoesToFire, Proceeds, FoundAlive, MarkInv
  <2> QED BY <1>a, <1>5, <2>1 DEF GoesToFire, MarkInv
<1>6. CASE Created
  <2>1. forgot = {} => LiveRuns = {}
    BY <1>6 DEF Created, MarkInv
  <2>2. LiveRuns' \subseteq LiveRuns \cup {0}
    BY <1>6 DEF Created, LiveRuns, Live, TimerTypeOK
  <2>3. forgot' = {} => forgot = {} /\ handler'.pc = "fired"
    BY <1>6 DEF Created, AlarmIdle
  <2> QED BY <2>1, <2>2, <2>3 DEF MarkInv
<1>7. CASE NotCreated
  BY <1>a, <1>7, SameMark DEF NotCreated, AlarmIdle
<1>8. CASE AfterFire
  <2>1. CASE handler.pc = "fired"
    <3>1. mark' = 0 /\ handler'.pc = "mirror" /\ UNCHANGED <<phase, runs, forgot>>
      BY <1>8, <2>1 DEF AfterFire, ScheduleAt, AlarmIdle
    <3>2. BucketAge(0)' = 0 /\ 0 # None
      BY <3>1, FreshBucket, TimesOK DEF TimerTypeOK, BucketAge
    <3>3. BucketAge(mark)' = 0
      BY <3>1, <3>2 DEF BucketAge
    <3> QED BY <1>a, <2>1, <3>1, <3>2, <3>3 DEF MarkInv
  <2>2. CASE handler.pc # "fired"
    BY <1>b, <1>8, <2>2 DEF AfterFire
  <2> QED BY <2>1, <2>2
<1>9. CASE AlarmMirrors
  BY <1>a, <1>9, SameMark DEF AlarmMirrors, AlarmIdle
<1>10. CASE AlarmCrashes
  <2>1. CASE handler.pc \in {"fired", "failed"} /\ LiveRuns # {}
    BY <1>10, <2>1 DEF AlarmCrashes, MarkInv
  <2>2. CASE handler.pc \in {"fired", "failed"} /\ LiveRuns = {}
    BY <1>a, <1>10, <2>2 DEF AlarmCrashes, MarkInv
  <2>3. CASE handler.pc \notin {"fired", "failed"}
    BY <1>a, <1>10, <2>3, SameMark DEF AlarmCrashes, AlarmIdle
  <2> QED BY <2>1, <2>2, <2>3
<1> QED
  BY <1>1, <1>2, <1>3, <1>4, <1>5, <1>6, <1>7, <1>8, <1>9, <1>10 DEF AlarmNext

LEMMA CallMark ==
  ASSUME MarkInv,
         \/ Heartbeat \/ CallArrives \/ CallIsLost \/ CallMirrors \/ UserNext \/ DropAlarm
         \/ UNCHANGED timerVars
  PROVE MarkInv'
<1>1. UNCHANGED <<mark, phase, handler, runs, forgot>>
  BY DEF Heartbeat, CallArrives, CallIsLost, CallMirrors, UserNext, DropAlarm, PauseOrg,
         ResumeOrg, PatchSource, ManualFetch, timerVars, actorVars, userVars
<1>2. LiveRuns' = LiveRuns
  BY <1>1 DEF LiveRuns, Live
<1> QED
  BY <1>1, <1>2, SameMark

LEMMA RunMark ==
  ASSUME TimerTypeOK, MarkInv, NEW b \in 0..Life, RunPolls(b) \/ RunEnds(b)
  PROVE MarkInv'
<1>1. CASE RunPolls(b)
  <2>1. LiveRuns' \subseteq LiveRuns
    BY <1>1 DEF RunPolls, LiveRuns, Live, TimerTypeOK
  <2> QED BY <1>1, <2>1, SameMark DEF RunPolls, actorVars
<1>2. CASE RunEnds(b)
  <2>1. LiveRuns' \subseteq LiveRuns \ {b}
    BY <1>2 DEF RunEnds, LiveRuns, Live, TimerTypeOK
  <2>2. LiveRuns' # {} => forgot' = forgot
    BY <1>2, <2>1 DEF RunEnds
  <2> QED BY <1>2, <2>1, <2>2, SameMark DEF RunEnds, actorVars
<1> QED
  BY <1>1, <1>2

\* Time moves the buckets of the instances and that of the mark alike.
LEMMA TickMark == TimerTypeOK /\ MarkInv /\ Tick => MarkInv'
<1> SUFFICES ASSUME TimerTypeOK, MarkInv, Tick, forgot = {}, NEW b \in LiveRuns'
             PROVE mark' # None /\ BucketAge(mark)' = b
  BY DEF MarkInv, Tick, Quiet
<1>1. phase \in 0..(Window - 1) /\ handler.pc = "idle"
  BY DEF TimerTypeOK, Tick, Quiet
<1>2. CASE phase = Window - 1
  <2>1. b \in 0..Life /\ b # 0 /\ b - 1 \in LiveRuns /\ b - 1 # Life
    <3>1. runs' = [a \in 0..Life |-> IF a = 0 THEN "none" ELSE runs[a - 1]] /\ ~ Live(Life)
      BY <1>2 DEF Tick
    <3>2. b \in 0..Life /\ runs'[b] \in {"new", "polled"}
      BY <3>1 DEF LiveRuns, Live
    <3>3. b # 0 /\ runs[b - 1] \in {"new", "polled"}
      BY <3>1, <3>2
    <3>4. b - 1 \in 0..Life /\ DOMAIN runs = 0..Life
      BY <3>2, <3>3, TimesOK DEF TimerTypeOK
    <3> QED BY <3>1, <3>2, <3>3, <3>4 DEF LiveRuns, Live
  <2>2. mark # None /\ BucketAge(mark) = b - 1
    BY <1>1, <2>1 DEF MarkInv
  <2>3. mark \in 0..OldMark /\ mark < OldMark
    BY <1>1, <2>1, <2>2, CappedMark, TimesOK DEF TimerTypeOK
  <2>4. mark' = mark + 1
    BY <2>2, <2>3, TimesOK DEF Tick, Older, Atmost
  <2>5. phase' = 0
    BY <1>2, TimesOK DEF Tick
  <2>6. (mark + 1 + Window - 1 - 0) \div Window = BucketAge(mark) + 1
    BY <1>1, <1>2, <2>3, BucketMoves
  <2>7. BucketAge(mark)' = BucketAge(mark) + 1
    BY <2>4, <2>5, <2>6 DEF BucketAge
  <2>8. (b - 1) + 1 = b /\ mark + 1 # None
    BY <2>1, <2>3, TimesOK
  <2> QED BY <2>2, <2>4, <2>7, <2>8
<1>3. CASE phase # Window - 1
  <2>1. b \in LiveRuns /\ b \in 0..Life
    BY <1>3 DEF Tick, LiveRuns, Live, TimerTypeOK
  <2>2. mark # None /\ BucketAge(mark) = b
    BY <1>1, <2>1 DEF MarkInv
  <2>3. mark \in 0..OldMark /\ mark < OldMark
    BY <1>1, <2>1, <2>2, CappedMark, TimesOK DEF TimerTypeOK
  <2>4. mark' = mark + 1
    BY <2>2, <2>3, TimesOK DEF Tick, Older, Atmost
  <2>5. phase' = phase + 1
    <3>1. phase' = (phase + 1) % Window /\ phase + 1 \in 0..(Window - 1)
      BY <1>1, <1>3, TimesOK DEF Tick
    <3>2. \A n \in 0..(Window - 1) : n % Window = n
      BY TimesOK
    <3> QED BY <3>1, <3>2
  <2> QED BY <1>1, <1>3, <2>2, <2>3, <2>4, <2>5, BucketMoves, TimesOK DEF BucketAge
<1> QED
  BY <1>2, <1>3

TimerInv == TimerTypeOK /\ PauseInv /\ MarkInv

\* The invariant of the fetch timer.
THEOREM TimerInvariance == TimerSpec => []TimerInv
<1>1. TimerInit => TimerInv
  BY InitTypes, InitPause, InitMark DEF TimerInv
<1>2. TimerInv /\ [TimerNext]_timerVars => TimerInv'
  <2> SUFFICES ASSUME TimerInv, [TimerNext]_timerVars PROVE TimerInv'
    OBVIOUS
  <2>1. TimerTypeOK'
    BY NextTypes DEF TimerInv
  <2>2. PauseInv'
    BY AlarmPause, UserPause, OtherPause DEF TimerInv, TimerNext
  <2>3. MarkInv'
    BY AlarmMark, CallMark, RunMark, TickMark DEF TimerInv, TimerNext
  <2> QED BY <2>1, <2>2, <2>3 DEF TimerInv
<1> QED
  BY <1>1, <1>2, PTL DEF TimerSpec

\* The variables of the timer have their types.
THEOREM TimerTypes == TimerSpec => []TimerTypeOK
  BY TimerInvariance, PTL DEF TimerInv

\* After a pause at most one more run starts while it lasts.
THEOREM PausesHold == TimerSpec => []PauseStopsFetching
<1>1. TimerInv => PauseStopsFetching
  BY DEF TimerInv, PauseInv, PauseStopsFetching
<1> QED
  BY <1>1, TimerInvariance, PTL

\* Two runs of a source are alive at once only if the actor forgot one.
THEOREM SecondRunsAreForgotten == TimerSpec => []OneLiveRun
<1>1. TimerInv => OneLiveRun
  <2> SUFFICES ASSUME TimerInv, forgot = {} PROVE ~ (Cardinality(LiveRuns) > 1)
    BY DEF OneLiveRun
  <2>1. \A b, c \in LiveRuns : b = c
    BY DEF TimerInv, MarkInv
  <2>2. CASE LiveRuns = {}
    BY <2>2, FS_EmptySet
  <2>3. CASE LiveRuns # {}
    <3>1. PICK b : LiveRuns = {b}
      BY <2>1, <2>3
    <3>2. Cardinality(LiveRuns) = 1
      BY <3>1, FS_Singleton
    <3> QED BY <3>2
  <2> QED BY <2>2, <2>3
<1> QED
  BY <1>1, TimerInvariance, PTL
================================================================================
