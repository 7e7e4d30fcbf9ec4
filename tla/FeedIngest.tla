------------------------------ MODULE FeedIngest ------------------------------
(***************************************************************************)
(* The ingestion of one feed: poll-and-fetch workflow runs and fetches by  *)
(* hand (workflows/poll-and-fetch.ts, cron/poll-fetch.ts), which may       *)
(* overlap on one source.  A run compares a HEAD with the validators       *)
(* stored in the source's metadata, GETs the feed conditionally, stores    *)
(* its items chunk by chunk, publishes the rows its own INSERT returned,   *)
(* and only then moves the validators.  The engine re-tries the fetch step *)
(* from its start when it throws.  A feed without bodies is handed to a    *)
(* crawl instead.                                                          *)
(*                                                                         *)
(* The publisher adds one item per version of the feed, and the feed lists *)
(* the newest Shown of them; a validator is the version it was served      *)
(* with, 0 when none is stored.                                            *)
(***************************************************************************)
EXTENDS Integers, FiniteSets

CONSTANTS
    Runs,       \* workflow runs and hand fetches that may overlap
    Versions,   \* bound: how often the feed changes
    Shown,      \* the number of items a feed lists
    Chunk,      \* RELEASES_BATCH_CHUNK_SIZE
    Retries,    \* RETRY_FETCH.retries.limit
    MaxFaults   \* bound: statements, calls and runs that fail

ASSUME IngestAssumption ==
    /\ {Versions, Shown, Chunk} \subseteq Nat \ {0}
    /\ {Retries, MaxFaults} \subseteq Nat

VARIABLES
    head,       \* the version the feed is at
    thin,       \* the feed is summary-only: its items are crawled
    cursor,     \* feedEtag / feedLastModified in sources.metadata
    releases,   \* the items stored, unique by URL
    announced,  \* how often each item was published
    crawl,      \* an update run is crawling the feed's pages
    run,        \* the state of each run
    dropped,    \* history: rows whose run failed before it published them
    faults

vars == <<head, thin, cursor, releases, announced, crawl, run, dropped, faults>>

Items == 1..Versions
Body(v) == {i \in Items : v - Shown < i /\ i <= v}

Idle == [pc |-> "idle", seen |-> 0, body |-> 0, left |-> {}, got |-> {}, tries |-> 0]

Init ==
    /\ head = 0 /\ thin \in BOOLEAN /\ cursor = 0
    /\ releases = {} /\ announced = [i \in Items |-> 0]
    /\ crawl = FALSE
    /\ run = [r \in Runs |-> Idle]
    /\ dropped = {} /\ faults = 0

-----------------------------------------------------------------------------
(* The publisher of the feed.                                              *)
Changes ==
    /\ head < Versions
    /\ head' = head + 1
    /\ UNCHANGED <<thin, cursor, releases, announced, crawl, run, dropped, faults>>

(* load-source: the run works with this copy of the row on every attempt.  *)
Start(r) ==
    /\ run[r].pc = "idle"
    /\ run' = [run EXCEPT ![r] = [Idle EXCEPT !.pc = "head", !.seen = cursor]]
    /\ UNCHANGED <<head, thin, cursor, releases, announced, crawl, dropped, faults>>

(* A fetch by hand has no HEAD check, and nobody re-tries it.              *)
StartByHand(r) ==
    /\ run[r].pc = "idle"
    /\ run' = [run EXCEPT ![r] =
                [Idle EXCEPT !.pc = "fetch", !.seen = cursor, !.tries = Retries + 1]]
    /\ UNCHANGED <<head, thin, cursor, releases, announced, crawl, dropped, faults>>

\* Fault: any stored validator makes the feed count as unchanged.
UnchangedOnceSeen(r) == run[r].seen # 0

Unchanged(r) == head = run[r].seen /\ run[r].seen # 0

(* headCheckUrl: unchanged ends the run; an error or no validator counts   *)
(* as unknown, which is fetched.  The answer's validators are not kept.    *)
HeadCheck(r) ==
    /\ run[r].pc = "head"
    /\ \/ Unchanged(r) /\ run' = [run EXCEPT ![r] = Idle]
       \/ run' = [run EXCEPT ![r].pc = "fetch"]
    /\ UNCHANGED <<head, thin, cursor, releases, announced, crawl, dropped, faults>>

(* recordNoChange: a 304 or an empty feed.                                 *)
NoChange(r) ==
    /\ run[r].pc = "fetch"
    /\ Unchanged(r) \/ Body(head) = {}
    /\ run' = [run EXCEPT ![r] = Idle]
    /\ UNCHANGED <<head, thin, cursor, releases, announced, crawl, dropped, faults>>

Answered(r) == run[r].pc = "fetch" /\ ~Unchanged(r) /\ Body(head) # {}

Fault == faults < MaxFaults /\ faults' = faults + 1

(* A step that throws starts again from the fetch, or the run is over.     *)
Again(r) == IF run[r].tries < Retries
            THEN [Idle EXCEPT !.pc = "fetch", !.seen = run[r].seen, !.tries = run[r].tries + 1]
            ELSE Idle

(* A thin feed that lists nothing new is a no-change that does move the    *)
(* validators; one that does is crawled and leaves them.                   *)
NothingNew(r) ==
    /\ Answered(r) /\ thin
    /\ Body(head) \subseteq releases
    /\ cursor' = head
    /\ run' = [run EXCEPT ![r] = Idle]
    /\ UNCHANGED <<head, thin, releases, announced, crawl, dropped, faults>>

Delegate(r) ==
    /\ Answered(r) /\ thin
    /\ ~(Body(head) \subseteq releases)
    /\ \/ crawl' = TRUE /\ run' = [run EXCEPT ![r] = Idle] /\ UNCHANGED faults
       \/ UNCHANGED crawl /\ run' = [run EXCEPT ![r] = Again(r)] /\ Fault   \* refused
    /\ UNCHANGED <<head, thin, cursor, releases, announced, dropped>>

Fetch(r) ==
    /\ Answered(r) /\ ~thin
    /\ run' = [run EXCEPT ![r].pc = "insert", ![r].body = head, ![r].left = Body(head)]
    /\ UNCHANGED <<head, thin, cursor, releases, announced, crawl, dropped, faults>>

(* The next chunk, newest items first.                                     *)
NextChunk(left) == {i \in left : Cardinality({j \in left : j > i}) < Chunk}

\* Fault: the rows of the last chunk replace those of the chunks before it.
InsertKeepsLastChunk(r) ==
    /\ run[r].pc = "insert"
    /\ LET c == NextChunk(run[r].left) IN
          /\ releases' = releases \cup c
          /\ run' = [run EXCEPT ![r].left = @ \ c, ![r].got = c \ releases,
                                ![r].pc = IF run[r].left = c THEN "publish" ELSE "insert"]
    /\ UNCHANGED <<head, thin, cursor, announced, crawl, dropped, faults>>

\* Fault: every row of the chunk is taken for inserted.
InsertReturnsAll(r) ==
    /\ run[r].pc = "insert"
    /\ LET c == NextChunk(run[r].left) IN
          /\ releases' = releases \cup c
          /\ run' = [run EXCEPT ![r].left = @ \ c, ![r].got = @ \cup c,
                                ![r].pc = IF run[r].left = c THEN "publish" ELSE "insert"]
    /\ UNCHANGED <<head, thin, cursor, announced, crawl, dropped, faults>>

(* INSERT ... ON CONFLICT DO NOTHING RETURNING, one chunk.                 *)
Insert(r) ==
    /\ run[r].pc = "insert"
    /\ LET c == NextChunk(run[r].left) IN
          /\ releases' = releases \cup c
          /\ run' = [run EXCEPT ![r].left = @ \ c, ![r].got = @ \cup (c \ releases),
                                ![r].pc = IF run[r].left = c THEN "publish" ELSE "insert"]
    /\ UNCHANGED <<head, thin, cursor, announced, crawl, dropped, faults>>

(* Clustering is behind the run: its own rows are published.               *)
Publish(r) ==
    /\ run[r].pc = "publish"
    /\ announced' = [i \in Items |-> announced[i] + IF i \in run[r].got THEN 1 ELSE 0]
    /\ run' = [run EXCEPT ![r].pc = "book", ![r].got = {}]
    /\ UNCHANGED <<head, thin, cursor, releases, crawl, dropped, faults>>

\* Fault: the validators of a later answer are stored.
BookNewest(r) ==
    /\ run[r].pc = "book"
    /\ cursor' = head
    /\ run' = [run EXCEPT ![r] = Idle]
    /\ UNCHANGED <<head, thin, releases, announced, crawl, dropped, faults>>

(* fetch_log and the source's row in one batch, the validators with it.    *)
Book(r) ==
    /\ run[r].pc = "book"
    /\ cursor' = run[r].body
    /\ run' = [run EXCEPT ![r] = Idle]
    /\ UNCHANGED <<head, thin, releases, announced, crawl, dropped, faults>>

-----------------------------------------------------------------------------
(* Failures: what the attempt had learnt of its inserts is gone.           *)

(* A statement throws, although it may have been committed.                *)
InsertFails(r) ==
    /\ run[r].pc = "insert" /\ Fault
    /\ \E stored \in {{}, NextChunk(run[r].left)} :
          /\ releases' = releases \cup stored
          /\ dropped' = dropped \cup run[r].got \cup (stored \ releases)
    /\ run' = [run EXCEPT ![r] = Again(r)]
    /\ UNCHANGED <<head, thin, cursor, announced, crawl>>

BookFails(r) ==
    /\ run[r].pc = "book" /\ Fault
    /\ cursor' \in {cursor, run[r].body}
    /\ run' = [run EXCEPT ![r] = Again(r)]
    /\ UNCHANGED <<head, thin, releases, announced, crawl, dropped>>

(* The GET, the clustering of the new rows, or the whole run is cut off.   *)
StepFails(r) ==
    /\ run[r].pc \in {"fetch", "publish"} /\ Fault
    /\ dropped' = dropped \cup run[r].got
    /\ run' = [run EXCEPT ![r] = Again(r)]
    /\ UNCHANGED <<head, thin, cursor, releases, announced, crawl>>

RunDies(r) ==
    /\ run[r].pc # "idle" /\ Fault
    /\ dropped' = dropped \cup run[r].got
    /\ run' = [run EXCEPT ![r] = Idle]
    /\ UNCHANGED <<head, thin, cursor, releases, announced, crawl>>

-----------------------------------------------------------------------------
(* The crawl stores and publishes what the pages list when it reads them.  *)
CrawlEnds ==
    /\ crawl
    /\ crawl' = FALSE
    /\ releases' = releases \cup Body(head)
    /\ announced' = [i \in Items |->
                       announced[i] + IF i \in Body(head) \ releases THEN 1 ELSE 0]
    /\ UNCHANGED <<head, thin, cursor, run, dropped, faults>>

CrawlFails ==
    /\ crawl /\ Fault
    /\ crawl' = FALSE
    /\ UNCHANGED <<head, thin, cursor, releases, announced, run, dropped>>

-----------------------------------------------------------------------------
Works(r) ==
    \/ Start(r) \/ HeadCheck(r) \/ NoChange(r) \/ NothingNew(r) \/ Delegate(r)
    \/ Fetch(r) \/ Insert(r) \/ Publish(r) \/ Book(r)

Fails(r) == InsertFails(r) \/ BookFails(r) \/ StepFails(r) \/ RunDies(r)

Next ==
    \/ Changes
    \/ \E r \in Runs : Works(r) \/ StartByHand(r) \/ Fails(r)
    \/ CrawlEnds \/ CrawlFails

Spec == Init /\ [][Next]_vars

(* The source's actor keeps starting runs, the engine runs their steps,    *)
(* and a crawl ends.                                                       *)
Fairness == (\A r \in Runs : WF_vars(Works(r))) /\ WF_vars(CrawlEnds)

FairSpec == Spec /\ Fairness

-----------------------------------------------------------------------------
TypeOK ==
    /\ head \in 0..Versions /\ thin \in BOOLEAN /\ cursor \in 0..Versions
    /\ releases \subseteq Items /\ dropped \subseteq Items
    /\ announced \in [Items -> Nat] /\ crawl \in BOOLEAN
    /\ run \in [Runs -> [pc : {"idle", "head", "fetch", "insert", "publish", "book"},
                         seen : 0..Versions, body : 0..Versions,
                         left : SUBSET Items, got : SUBSET Items, tries : 0..(Retries + 1)]]
    /\ faults \in 0..MaxFaults

(* poll-fetch.ts:520-523: the conditional-GET cursor is never ahead of the *)
(* items, so that no 304 hides one that was not stored, whichever          *)
(* overlapping run, re-try or lost answer wrote it.                        *)
CursorTrailsItems == Body(cursor) \subseteq releases

(* No item is published twice, by overlapping runs or by re-tries.         *)
AnnouncedOnce == \A i \in Items : announced[i] <= 1

(* A stored item that nobody published is still in the hands of the run    *)
(* that stored it, or that run's attempt failed.                           *)
SilentOnlyAfterFailure ==
    \A i \in releases : announced[i] = 0 => i \in dropped \/ \E r \in Runs : i \in run[r].got

(* poll-and-fetch.ts:337-338, "so retry is safe": when a re-try of the     *)
(* step succeeds, every item of the feed it stored has been published.     *)
RetryIsSafe ==
    \A r \in Runs : run[r].pc = "book" /\ run[r].tries \in 1..Retries
                     => \A i \in Body(run[r].body) : announced[i] = 1

(* Whatever fails, an item is stored before it leaves the feed, if the     *)
(* feed goes on listing it.                                                *)
EveryItemIsStored == \A i \in Items : i \in Body(head) ~> (i \in releases \/ i \notin Body(head))
===============================================================================
