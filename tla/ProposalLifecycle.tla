------------------------- MODULE ProposalLifecycle -------------------------
(***************************************************************************)
(* The promise of the DAO about a proposal, as its readers (the subgraph,  *)
(* the bots, the web application) rely on it: the states that state() of   *)
(* NounsDAOLogicV1.sol goes through, and the order in which it does.       *)
(***************************************************************************)

CONSTANTS Ids  \* the ids that proposals may get

VARIABLE stage  \* "None" until the proposal is made, then its state

Stages == {"None", "Pending", "Active", "Defeated", "Succeeded", "Queued",
           "Expired", "Executed", "Canceled", "Vetoed"}

LifecycleInit == stage = [id \in Ids |-> "None"]

\* Where the blocks, the votes and the clock take a proposal.
Successors(s) ==
    CASE s = "None"      -> {"Pending"}
      [] s = "Pending"   -> {"Active"}
      [] s = "Active"    -> {"Defeated", "Succeeded"}
      [] s = "Succeeded" -> {"Queued"}
      [] s = "Queued"    -> {"Executed", "Expired"}
      [] OTHER           -> {}

\* A canceled proposal may be vetoed, and then counts as vetoed; never the
\* other way round.  What was executed stays executed.
Cancelable(s) == s \notin {"None", "Executed", "Vetoed"}
Vetoable(s) == s \notin {"None", "Executed"}

\* One proposal moves on, or stays.
Moves(old, new) ==
    \/ new = old
    \/ new \in Successors(old)
    \/ new = "Canceled" /\ Cancelable(old)
    \/ new = "Vetoed" /\ Vetoable(old)

\* A block may move several.
LifecycleNext ==
    /\ stage' \in [Ids -> Stages]
    /\ \A id \in Ids : Moves(stage[id], stage'[id])

LifecycleSpec == LifecycleInit /\ [][LifecycleNext]_stage
=============================================================================
