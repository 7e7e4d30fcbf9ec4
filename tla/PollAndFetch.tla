------------------------------ MODULE PollAndFetch ------------------------------
(***************************************************************************)
(* The poll-and-fetch workflow of either kind of source: the poll of a     *)
(* feed goes on to fetch it, that of a page defers to the drain of its     *)
(* organization (workflows/poll-and-fetch.ts).                             *)
(*                                                                         *)
(* Feeds and drained pages share no state, so a behaviour here moves one   *)
(* kind only: what holds of each holds of both side by side.               *)
(***************************************************************************)
EXTENDS FeedIngest, OrgDrain

VARIABLE kind   \* of the sources that are polled: feeds, or pages without a feed

pollVars == <<kind, vars, drainVars>>

PollInit == kind \in {"feed", "page"} /\ Init /\ DrainInit

FetchesFeed == kind = "feed" /\ Next /\ UNCHANGED <<kind, drainVars>>

DefersToDrain == kind = "page" /\ DrainNext /\ UNCHANGED <<kind, vars>>

PollNext == FetchesFeed \/ DefersToDrain

PollSpec == PollInit /\ [][PollNext]_pollVars

(* Of either kind, what Fairness and DrainFairness say.                    *)
FairPollSpec ==
    /\ PollSpec
    /\ \A r \in Runs : WF_vars(kind = "feed" /\ Works(r))
    /\ WF_vars(kind = "feed" /\ CrawlEnds)
    /\ \A s \in Sources :
          WF_drainVars(kind = "page" /\ Wake(s)) /\ WF_drainVars(kind = "page" /\ Poll(s))
    /\ WF_drainVars(kind = "page" /\ ActorWorks)
    /\ \A u \in Updates : WF_drainVars(kind = "page" /\ UpdateWorks(u))
    /\ WF_drainVars(kind = "page" /\ DrainTick)
===============================================================================
