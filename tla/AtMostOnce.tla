------------------------------ MODULE AtMostOnce ------------------------------
(***************************************************************************)
(* What the Idempotency-Key contract promises, without the table, the      *)
(* admission loop or the failures that implement it: an intended operation *)
(* (a key) takes effect at most once in the 24 hours that follow the claim *)
(* that let it run.  The promise of docs/architecture/idempotency.md,      *)
(* "For 24 hours from the original claim", read as a state machine.        *)
(***************************************************************************)
EXTENDS Integers

CONSTANTS Keys,      \* (principal, Idempotency-Key) pairs
          Requests   \* the requests that may run an operation

VARIABLES now,       \* the clock
          holds      \* the keys' holders: records of key, request and expiry

vars == <<now, holds>>

Hold == [key : Keys, by : Requests, until : Int]

\* A holder bars every other request from its key until it expires.
Barred(k, r) == \E h \in holds : h.key = k /\ h.by # r /\ now < h.until

Init == now = 0 /\ holds = {}

\* A request is let run: no unexpired holder of its key.
Admit(r) ==
  /\ \E h \in holds' :
       /\ h \in Hold /\ h.by = r
       /\ ~ Barred(h.key, r)
       /\ holds' = holds \cup {h}
  /\ UNCHANGED now

\* The operation reported that it did nothing: it no longer counts.
Withdraw(r) ==
  /\ \E h \in holds : h.by = r /\ holds' = holds \ {h}
  /\ UNCHANGED now

Tick == now' = now + 1 /\ UNCHANGED holds

Next == Tick \/ \E r \in Requests : Admit(r) \/ Withdraw(r)

Spec == Init /\ [][Next]_vars
===============================================================================
