--------------------------- MODULE WebTransactions ---------------------------
(***************************************************************************)
(* The transactions a page sends through the hooks of its wallet library:  *)
(* each is signed or rejected by the wallet, then mined, and the page is   *)
(* told of its state at each step, whatever it shows by then.              *)
(***************************************************************************)
EXTENDS Sequences

CONSTANT Null  \* undefined

\* The stages after which the page has something to hear: it was mined, and worked or not.
IsMined(tx) == tx.stage \in {"mined", "reverted"}
Outcome(tx) == IF tx.stage = "mined" THEN "Success" ELSE "Fail"

Progress(sent, t, stage) == [sent EXCEPT ![t].stage = stage]

AllTold(sent) == \A t \in DOMAIN sent : sent[t].stage = "dead"
=============================================================================
