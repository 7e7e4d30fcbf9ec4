------------------------------ MODULE ReleaseHub ------------------------------
(***************************************************************************)
(* The ReleaseHub Durable Object: a ring buffer of release.created events  *)
(* in its storage, and the WebSockets it replays and broadcasts them to.   *)
(*                                                                         *)
(* An event is its seq.  While /publish awaits its storage no other        *)
(* request enters the object (the input gate), so /subscribe is one step;  *)
(* but the object may die between two awaited writes, leaving what it had  *)
(* written, and its sockets are then gone.                                 *)
(***************************************************************************)
EXTENDS Integers, FiniteSets, Sequences, Functions

CONSTANTS
  Clients,
  Closed,               \* no socket
  NoCursor,             \* /subscribe without ?since
  EVENT_BUFFER_SIZE,
  MaxSeq, MaxBatch, MaxCrashes     \* bounds

ASSUME BufferOK == EVENT_BUFFER_SIZE \in Nat \ {0}
ASSUME BoundsOK == MaxSeq \in Nat /\ MaxBatch \in Nat /\ MaxCrashes \in Nat

VARIABLES
  kept,      \* the seqs of the evt: keys
  seq,       \* the seq key, 0 if absent
  oldest,    \* the oldest-seq key, 0 if absent
  step,      \* the write appendEvent is about to await
  todo,      \* payloads of the /publish body not yet appended
  start,     \* seq when the handler began
  wire,      \* frames sent to a socket and not yet received
  crashes,
  torn,      \* history: the last append was cut short
  upto       \* history: the event frame a socket should receive next

store == <<kept, seq, oldest>>
handler == <<step, todo, start>>
sockets == <<wire, upto>>
vars == <<store, handler, sockets, crashes, torn>>

Frame == [type : {"ready", "snapshot_gap", "release.created"}, seq : 0..MaxSeq]
Steps == {"idle", "event", "seq", "first", "trim", "oldest", "fanout"}

StoreTypeOK ==
  /\ kept \subseteq Nat /\ seq \in Nat /\ oldest \in Nat
  /\ step \in Steps
  /\ todo \in Nat /\ start \in Nat
  /\ torn \in BOOLEAN

TypeOK ==
  /\ StoreTypeOK
  /\ kept \subseteq 1..MaxSeq /\ seq \in 0..MaxSeq /\ oldest \in 0..MaxSeq
  /\ todo \in 0..MaxBatch
  /\ \A c \in Clients : wire[c] = Closed \/ Range(wire[c]) \subseteq Frame
  /\ crashes \in 0..MaxCrashes
  /\ upto \in [Clients -> Nat]

Init ==
  /\ kept = {} /\ seq = 0 /\ oldest = 0
  /\ step = "idle" /\ todo = 0 /\ start = 0
  /\ wire = [c \in Clients |-> Closed]
  /\ crashes = 0
  /\ torn = FALSE
  /\ upto = [c \in Clients |-> 0]

-------------------------------------------------------------------------------
(* POST /publish.                                                          *)

Publish(b) ==
  /\ step = "idle"
  /\ seq + b <= MaxSeq
  /\ step' = "event" /\ todo' = b /\ start' = seq
  /\ UNCHANGED <<store, sockets, crashes, torn>>

PutEvent ==
  /\ step = "event"
  /\ kept' = kept \cup {seq + 1}
  /\ step' = "seq"
  /\ UNCHANGED <<seq, oldest, todo, start, sockets, crashes, torn>>

\* appendEvent returns.
Appended ==
  /\ todo' = todo - 1
  /\ step' = IF todo = 1 THEN "fanout" ELSE "event"
  /\ torn' = FALSE
  /\ UNCHANGED <<start, sockets, crashes>>

PutSeq ==
  /\ step = "seq"
  /\ seq' = seq + 1
  /\ UNCHANGED <<kept, oldest>>
  /\ IF seq = 0 \/ seq + 1 > EVENT_BUFFER_SIZE
       THEN /\ step' = IF seq = 0 THEN "first" ELSE "trim"
            /\ UNCHANGED <<todo, start, sockets, crashes, torn>>
       ELSE Appended

PutFirstOldest ==
  /\ step = "first"
  /\ oldest' = 1
  /\ UNCHANGED <<kept, seq>>
  /\ Appended

\* Fault: nothing is trimmed.
TrimNothing ==
  /\ step = "trim"
  /\ step' = "oldest"
  /\ UNCHANGED <<store, todo, start, sockets, crashes, torn>>

Trim ==
  /\ step = "trim"
  /\ kept' = kept \ {seq - EVENT_BUFFER_SIZE}
  /\ step' = "oldest"
  /\ UNCHANGED <<seq, oldest, todo, start, sockets, crashes, torn>>

PutOldest ==
  /\ step = "oldest"
  /\ oldest' = seq - EVENT_BUFFER_SIZE + 1
  /\ UNCHANGED <<kept, seq>>
  /\ Appended

\* The i-th of the keys in S.
Nth(S, i) == CHOOSE k \in S : Cardinality({j \in S : j < k}) = i - 1

\* The frames of the events in S, in the order list() returns their keys.
EventFrames(S) ==
  [i \in 1..Cardinality(S) |-> [type |-> "release.created", seq |-> Nth(S, i)]]

\* Fault: only the last event of the batch is broadcast.
FanoutLast ==
  /\ step = "fanout"
  /\ wire' = [c \in Clients |->
                IF wire[c] = Closed THEN Closed ELSE wire[c] \o EventFrames({seq})]
  /\ step' = "idle"
  /\ UNCHANGED <<store, todo, start, crashes, torn, upto>>

Fanout ==
  /\ step = "fanout"
  /\ wire' = [c \in Clients |->
                IF wire[c] = Closed THEN Closed
                                    ELSE wire[c] \o EventFrames((start + 1)..seq)]
  /\ step' = "idle"
  /\ UNCHANGED <<store, todo, start, crashes, torn, upto>>

\* The object dies, whatever it is doing.
Crash ==
  /\ crashes < MaxCrashes
  /\ crashes' = crashes + 1
  /\ step' = "idle" /\ todo' = 0
  /\ wire' = [c \in Clients |-> Closed]
  /\ upto' = [c \in Clients |-> 0]
  /\ torn' = IF step \in {"seq", "first", "trim", "oldest"} THEN TRUE ELSE torn
  /\ UNCHANGED <<store, start>>

-------------------------------------------------------------------------------
(* GET /subscribe.                                                         *)

\* replayEvents: the keys after `since'.
Replay(since) == {k \in kept : k > since}

\* Fault: a gap takes two lost events.
GapTooLate(since) == oldest > 0 /\ since + 1 < oldest - 1

\* Something after `since' has been trimmed.
Gap(since) == oldest > 0 /\ since < oldest - 1

Answer(since) ==
  IF since = NoCursor THEN <<>>
  ELSE IF Gap(since) THEN <<[type |-> "snapshot_gap", seq |-> oldest]>>
  ELSE IF since < seq THEN EventFrames(Replay(since))
  ELSE <<>>

Subscribe(c, since) ==
  /\ step = "idle"
  /\ wire[c] = Closed
  /\ wire' = [wire EXCEPT ![c] = <<[type |-> "ready", seq |-> seq]>> \o Answer(since)]
  /\ upto' = [upto EXCEPT ![c] =
                1 + (IF since = NoCursor \/ since > seq \/ Gap(since) THEN seq ELSE since)]
  /\ UNCHANGED <<store, handler, crashes, torn>>

\* The client receives the next frame.
Deliver(c) ==
  /\ wire[c] # Closed /\ wire[c] # <<>>
  /\ wire' = [wire EXCEPT ![c] = Tail(@)]
  /\ upto' = [upto EXCEPT ![c] = IF Head(wire[c]).type = "release.created" THEN @ + 1 ELSE @]
  /\ UNCHANGED <<store, handler, crashes, torn>>

\* The connection closes, and frames in flight are lost.
Drop(c) ==
  /\ wire[c] # Closed
  /\ wire' = [wire EXCEPT ![c] = Closed]
  /\ upto' = [upto EXCEPT ![c] = 0]
  /\ UNCHANGED <<store, handler, crashes, torn>>

AppendEvent == PutEvent \/ PutSeq \/ PutFirstOldest \/ Trim \/ PutOldest

HubNext == (\E b \in 1..MaxBatch : Publish(b)) \/ AppendEvent \/ Fanout \/ Crash

Next ==
  \/ HubNext
  \/ \E c \in Clients :
       Deliver(c) \/ Drop(c) \/ \E since \in 0..MaxSeq \cup {NoCursor} : Subscribe(c, since)

Spec == Init /\ [][Next]_vars

-------------------------------------------------------------------------------
(* Properties.                                                             *)

Low == IF seq > EVENT_BUFFER_SIZE THEN seq - EVENT_BUFFER_SIZE + 1 ELSE 1

\* What every write, crash included, keeps true of the storage, and what holds
\* again once an append is complete.  It implies GapIsHonest and GapIsNeeded.
AtRest == step \in {"idle", "event", "fanout"} /\ ~ torn

KeptInv ==
  /\ Low..seq \subseteq kept
  /\ \A k \in kept : k <= seq + 1
  /\ step = "seq" => seq + 1 \in kept
  /\ step \in {"first", "trim", "oldest"} \/ AtRest => \A k \in kept : k <= seq

OldestInv ==
  /\ seq <= EVENT_BUFFER_SIZE => oldest \in {0, 1}
  /\ AtRest /\ seq > EVENT_BUFFER_SIZE => oldest = Low

StepInv ==
  /\ step = "first" => seq = 1
  /\ step \in {"trim", "oldest"} => seq > EVENT_BUFFER_SIZE
  /\ step \in {"event", "seq", "first", "trim", "oldest"} => todo > 0

RingInv == StoreTypeOK /\ KeptInv /\ OldestInv /\ StepInv

\* Every cursor either gets a gap or misses nothing: without a gap the replay is
\* exactly the events after it.  A write sequence cut short by a crash may break
\* this, and the next append restores it.
GapIsHonest ==
  step = "idle" /\ ~ torn =>
    \A since \in 0..seq : ~ Gap(since) => Replay(since) = (since + 1)..seq

\* A gap is never announced to a cursor the buffer could still serve.
GapIsNeeded ==
  step = "idle" /\ ~ torn => \A since \in 0..seq : Gap(since) => since + 1 < Low

\* The buffer does not grow: it holds at most its size, and one event more for
\* each crash between a trim's writes.
BufferIsBounded == step = "idle" => Cardinality(kept) <= EVENT_BUFFER_SIZE + crashes

\* No event slips between the replay a subscriber gets and the live broadcast,
\* and none comes twice: behind what the hub has to say of itself, the frames on
\* their way to a socket are exactly those after the last one it received.
FramesAreContiguous ==
  step = "idle" /\ crashes = 0 =>
    \A c \in Clients :
      wire[c] # Closed =>
        \E n \in 0..Len(wire[c]) :
          /\ \A i \in 1..n : wire[c][i].type # "release.created"
          /\ SubSeq(wire[c], n + 1, Len(wire[c])) = EventFrames(upto[c]..seq)
===============================================================================
