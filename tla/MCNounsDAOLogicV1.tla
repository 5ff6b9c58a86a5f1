------------------------- MODULE MCNounsDAOLogicV1 -------------------------
(***************************************************************************)
(* Instances of the DAO for TLC.  A behaviour is one of several scenes,    *)
(* each with the proposals and the bounds that its question needs.         *)
(***************************************************************************)
EXTENDS NounsDAOLogicV1

CONSTANTS alice, bob, timelock, zero
CONSTANT Scenes  \* the scenes of a run

VARIABLE scene
sceneVars == <<scene, vars>>

MCAccounts == {alice, bob}
MCVetoers == {bob}
MCInitialPower == (alice :> 2) @@ (bob :> 8)

\* Alice sells a noun, and with it the votes to propose or to reach a quorum.
TradePowers == {MCInitialPower, (alice :> 1) @@ (bob :> 9)}

\* She sells both, after which anyone may cancel her proposal; bob buys one at
\* auction; and one is burned.
AnyPowers == TradePowers \cup {(alice :> 0) @@ (bob :> 10), (alice :> 2) @@ (bob :> 9)}

\* The largest threshold and quorum the DAO allows: 1 and 2 votes of 10 or 11.
MCInitialConfig ==
    [votingDelay |-> 1, votingPeriod |-> 1,
     proposalThresholdBPS |-> 1000, quorumVotesBPS |-> 2000]

MCLimits ==
    [votingDelay |-> {1, 2}, votingPeriod |-> {1, 2},
     proposalThresholdBPS |-> {1000}, quorumVotesBPS |-> {2000},
     pendingAdmin |-> {bob}]

call(field, value) == [field |-> field, value |-> value]

\* Two proposals may hold the same call, and be queued for the same eta.
SharedActionLists ==
    {<<call("none", 0)>>, <<call("none", 0), call("votingPeriod", 2)>>}

\* The settings and the delay change, within the limits and not; a call that
\* occurs twice cannot be queued.  The admin is handed to an account, which
\* then calls the setters itself.
AdminActionLists ==
    {<<call("pendingAdmin", bob), call("votingPeriod", 2)>>,
     <<call("delay", 2), call("delay", 1)>>, <<call("delay", 0)>>,
     <<call("votingPeriod", 3)>>, <<call("none", 0), call("none", 0)>>}
MCAdminCalls == {call("votingPeriod", 1), call("votingPeriod", 3), call("delay", 1)}

\* The delay of votes is changed by one proposal, during the vote on another.
DelayActionLists == {<<call("votingDelay", 2)>>}

MCActionLists == SharedActionLists \cup AdminActionLists \cup DelayActionLists

\* The bounds of each scene.
Bounds ==
    [shared |-> [actionLists |-> SharedActionLists, abstain |-> FALSE,
                 ledgerBlocks |-> {3}, powers |-> TradePowers,
                 maxStep |-> 1, maxProposals |-> 2, maxBlock |-> 7],
     admin  |-> [actionLists |-> AdminActionLists, abstain |-> TRUE,
                 ledgerBlocks |-> {2}, powers |-> AnyPowers,
                 maxStep |-> 2, maxProposals |-> 1, maxBlock |-> 8],
     delay  |-> [actionLists |-> DelayActionLists, abstain |-> FALSE,
                 ledgerBlocks |-> {5, 6}, powers |-> TradePowers,
                 maxStep |-> 1, maxProposals |-> 2, maxBlock |-> 9]]

\* A step within the bounds b.
Within(b) ==
    /\ block' <= b.maxBlock /\ time' - time <= b.maxStep
    /\ Len(proposals') <= b.maxProposals
    /\ \A id \in DOMAIN proposals' :
           /\ proposals'[id].actions \in b.actionLists
           /\ b.abstain \/ proposals'[id].abstainVotes = 0
    /\ power' # power => block \in b.ledgerBlocks /\ power' \in b.powers

\* The delay can change only in the scene of the admin, and starts out as either there.
SceneInit == Init /\ scene \in Scenes /\ (scene # "admin" => delay = 1)
SceneNext == Next /\ Within(Bounds[scene]) /\ UNCHANGED scene
SceneSpec == SceneInit /\ [][SceneNext]_sceneVars
=============================================================================
