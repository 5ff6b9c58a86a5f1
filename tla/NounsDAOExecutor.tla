-------------------------- MODULE NounsDAOExecutor --------------------------
(***************************************************************************)
(* NounsDAOExecutor.sol, the timelock: transactions are queued for an eta  *)
(* at least delay away, and run once, between eta and the end of the grace *)
(* period.  Its admin is the DAO, which calls these operators for all the  *)
(* actions of a proposal in one transaction: a call that reverts takes the *)
(* whole transaction with it.                                              *)
(***************************************************************************)
EXTENDS Integers, SequencesExt

CONSTANTS
    Delays,       \* the values setDelay accepts: MINIMUM_DELAY..MAXIMUM_DELAY
    GracePeriod   \* GRACE_PERIOD

ASSUME ExecutorAssumption ==
    /\ Delays \subseteq Nat \ {0}
    /\ GracePeriod \in Nat \ {0}

VARIABLES
    queuedTransactions,  \* the pairs <<action, eta>> whose hash maps to true
    delay,
    time                 \* block.timestamp

executorVars == <<queuedTransactions, delay, time>>

Transactions(actions, eta) == {<<action, eta>> : action \in ToSet(actions)}

\* Fault: the DAO does not ask whether the transactions are queued already.
QueueTransactions_Again(actions, eta) ==
    /\ time + delay <= eta
    /\ queuedTransactions' = queuedTransactions \cup Transactions(actions, eta)

\* A proposal that holds an action twice would queue the same hash twice, which
\* queueOrRevertInternal refuses.
QueueTransactions(actions, eta) ==
    /\ IsInjective(actions)
    /\ Transactions(actions, eta) \cap queuedTransactions = {}
    /\ time + delay <= eta
    /\ queuedTransactions' = queuedTransactions \cup Transactions(actions, eta)

\* Fault: the flags stay.
CancelTransactions_None(actions, eta) == queuedTransactions' = queuedTransactions

\* Clears the flags, whether they were set or not.
CancelTransactions(actions, eta) ==
    queuedTransactions' = queuedTransactions \ Transactions(actions, eta)

\* Fault: the eta is not awaited.
ExecuteTransactions_Early(actions, eta) ==
    /\ Transactions(actions, eta) \subseteq queuedTransactions
    /\ time <= eta + GracePeriod
    /\ queuedTransactions' = queuedTransactions \ Transactions(actions, eta)

\* The order is that of the source: queued, not before eta, not stale.
ExecuteTransactions(actions, eta) ==
    /\ Transactions(actions, eta) \subseteq queuedTransactions
    /\ time >= eta
    /\ time <= eta + GracePeriod
    /\ queuedTransactions' = queuedTransactions \ Transactions(actions, eta)
=============================================================================
