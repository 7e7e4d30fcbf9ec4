----------------------------- MODULE ReleaseStream -----------------------------
(***************************************************************************)
(* The two consumers of the ReleaseHub: the web app's live page, which     *)
(* follows the WebSocket and resumes with ?since=<lastSeq>, and a reader   *)
(* of GET /v1/webhooks/events, which pages through the buffer with         *)
(* ?since=<seq>&limit=<n>.                                                 *)
(***************************************************************************)
EXTENDS ReleaseHub, FiniteSetsExt

CONSTANTS
  LATEST,     \* /v1/releases/latest?count
  Limits,     \* the ?limit values a reader may use
  MAX_LIMIT   \* the hub's cap on a page

ASSUME LimitsOK == MAX_LIMIT \in Nat /\ Limits \subseteq Nat

VARIABLES
  lastSeq,    \* LiveState.lastSeq, NoCursor if undefined
  shown,      \* LiveState.releases
  base,       \* history: the head announced by the page's first `ready'
  excused,    \* history: the page polled, or was told of a gap
  limit,      \* the reader's ?limit
  cursor,     \* its next ?since
  got,        \* the events it was given
  told        \* the events it was told are gone

page == <<lastSeq, shown, base, excused>>
reader == <<limit, cursor, got, told>>
allVars == <<vars, page, reader>>

StreamTypeOK ==
  /\ TypeOK
  /\ lastSeq \in [Clients -> 0..MaxSeq \cup {NoCursor}]
  /\ shown \in [Clients -> SUBSET (1..MaxSeq)]
  /\ base \in [Clients -> 0..MaxSeq \cup {NoCursor}]
  /\ excused \in [Clients -> BOOLEAN]
  /\ limit \in Limits
  /\ cursor \in 0..MaxSeq
  /\ got \subseteq 1..MaxSeq /\ told \subseteq 1..MaxSeq

StreamInit ==
  /\ Init
  /\ lastSeq = [c \in Clients |-> NoCursor]
  /\ shown = [c \in Clients |-> {}]
  /\ base = [c \in Clients |-> NoCursor]
  /\ excused = [c \in Clients |-> FALSE]
  /\ limit \in Limits /\ cursor = 0 /\ got = {} /\ told = {}

-------------------------------------------------------------------------------
(* The live page: useReleaseStream and liveReducer.                        *)

\* connect() passes the cursor the page has.
Connect(c) == Subscribe(c, lastSeq[c]) /\ UNCHANGED <<page, reader>>

\* pollOnce and its rest-batch: the newest releases, over REST.
Latest == {k \in 1..seq : k > seq - LATEST}

Receive(c) ==
  /\ Deliver(c)
  /\ LET f == Head(wire[c]) IN
       \/ /\ f.type = "ready"
          /\ lastSeq' = [lastSeq EXCEPT ![c] = f.seq]
          /\ base' = [base EXCEPT ![c] = IF @ = NoCursor THEN f.seq ELSE @]
          /\ UNCHANGED <<shown, excused>>
       \/ /\ f.type = "release.created"
          /\ lastSeq' = [lastSeq EXCEPT ![c] = f.seq]
          /\ shown' = [shown EXCEPT ![c] = @ \cup {f.seq}]
          /\ UNCHANGED <<base, excused>>
       \/ /\ f.type = "snapshot_gap"
          /\ lastSeq' = [lastSeq EXCEPT ![c] = NoCursor]
          /\ shown' = [shown EXCEPT ![c] = @ \cup Latest]
          /\ excused' = [excused EXCEPT ![c] = TRUE]
          /\ UNCHANGED base
  /\ UNCHANGED reader

\* The reconnect did not come within POLL_FALLBACK_DELAY_MS.
Poll(c) ==
  /\ wire[c] = Closed
  /\ shown' = [shown EXCEPT ![c] = @ \cup Latest]
  /\ excused' = [excused EXCEPT ![c] = TRUE]
  /\ UNCHANGED <<vars, lastSeq, base, reader>>

Disconnect(c) == Drop(c) /\ UNCHANGED <<page, reader>>

-------------------------------------------------------------------------------
(* GET /replay.                                                            *)

\* Fault: the newest events of the replay, not the ones that come next.
PageNewest(since) == {k \in Replay(since) : Cardinality({j \in Replay(since) : j > k}) < limit}

\* Fault: the limit is not raised to one.
PageUnclamped(since) ==
  IF since < seq THEN {k \in Replay(since) : Cardinality({j \in Replay(since) : j < k}) < limit}
                 ELSE {}

\* The first events of the replay; limit is clamped to 1..MAX_LIMIT.
Clamped == Max({1, Min({MAX_LIMIT, limit})})

Page(since) ==
  IF since < seq
    THEN {k \in Replay(since) : Cardinality({j \in Replay(since) : j < k}) < Clamped}
    ELSE {}

Read ==
  /\ step = "idle"
  /\ LET events == Page(cursor) IN
       /\ got' = got \cup events
       /\ told' = IF Gap(cursor) THEN told \cup ((cursor + 1)..(oldest - 1)) ELSE told
       /\ cursor' = Max(events \cup {cursor})
  /\ UNCHANGED <<vars, page, limit>>

Hub == HubNext /\ UNCHANGED <<page, reader>>

StreamNext ==
  \/ Hub
  \/ \E c \in Clients : Connect(c) \/ Receive(c) \/ Poll(c) \/ Disconnect(c)
  \/ Read

StreamSpec == StreamInit /\ [][StreamNext]_allVars

\* A handler that started runs to its end, and the reader keeps reading.
Fairness ==
  /\ WF_allVars((AppendEvent \/ Fanout) /\ UNCHANGED <<page, reader>>)
  /\ WF_allVars(Read)

FairStreamSpec == StreamSpec /\ Fairness

-------------------------------------------------------------------------------
(* Properties.                                                             *)

\* With ?since a reader pages through every event: each one up to its cursor
\* was returned to it, or lies in a gap it was told of.
ReaderMissesNothing == crashes = 0 => 1..cursor \subseteq got \cup told

\* Page by page, whatever the limit, the reader reaches the head.
ReaderCatchesUp == <>[](cursor >= seq)

\* use-release-stream.ts: "if reconnect succeeds within this window,
\* `?since=<lastSeq>` covers the gap".  A page that never fell back on REST has
\* shown every release since its first `ready', once its socket is drained.
\* The code does not keep this (README, section 5).
ReconnectCoversGap ==
  step = "idle" /\ crashes = 0 =>
    \A c \in Clients :
      wire[c] = <<>> /\ ~ excused[c] => (base[c] + 1)..seq \subseteq shown[c]
===============================================================================
