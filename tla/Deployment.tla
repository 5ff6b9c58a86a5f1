----------------------------- MODULE Deployment -----------------------------
(***************************************************************************)
(* The tasks deploy, deploy-local and run-local.  A contract made by a     *)
(* transaction of the deployer has an address that follows from the nonce, *)
(* and two of the contracts are told addresses of proxies that are         *)
(* deployed after them: the tasks compute these from the nonce they read   *)
(* first.  Several runs may use one account, as the automated deployments  *)
(* do; transactions are sent at once and mined later, in order of nonces.  *)
(* An address is the nonce it came from.                                   *)
(***************************************************************************)
EXTENDS Integers, Sequences, FiniteSets

CONSTANTS
    Runs,       \* the runs of a task
    MaxTxs,     \* bound: transactions of the account, on either network
    MaxFailed   \* bound: those that fail

ASSUME DeploymentAssumption == MaxTxs \in [{"local", "public"} -> Nat] /\ MaxFailed \in Nat

VARIABLES
    network,    \* the local node, which mines at once, or a public one
    ledger,     \* the account's transactions, that of nonce n at n + 1
    mined,      \* how many of them are mined
    task        \* of every run: script, phase, first nonce and the addresses so far

deploymentVars == <<network, ledger, mined, task>>

NounsContracts ==
    <<"NFTDescriptor", "NounsDescriptor", "NounsSeeder", "NounsToken", "NounsAuctionHouse",
      "NounsAuctionHouseProxyAdmin", "NounsAuctionHouseProxy", "NounsDAOExecutor",
      "NounsDAOLogicV1", "NounsDAOProxy">>

\* The records contracts of the two tasks, in the order they are deployed.
Contracts(script) ==
    IF script = "deploy" THEN NounsContracts ELSE <<"WETH">> \o NounsContracts

\* Fault: the local task takes the offset of the other one.
AUCTION_HOUSE_PROXY_NONCE_OFFSET_Same(script) == 6

AUCTION_HOUSE_PROXY_NONCE_OFFSET(script) == IF script = "deploy" THEN 6 ELSE 7
GOVERNOR_N_DELEGATOR_NONCE_OFFSET(script) == IF script = "deploy" THEN 9 ELSE 10

waitForConfirmation == {"NounsAuctionHouse", "NounsDAOLogicV1"}

DeploymentInit ==
    /\ network \in {"local", "public"}
    /\ ledger = <<>> /\ mined = 0
    /\ task = [r \in Runs |-> [script |-> "none", phase |-> "idle", nonce |-> 0,
                               address |-> <<>>]]

\* The address run r got for a contract.
Address(r, name) ==
    task[r].address[CHOOSE i \in DOMAIN task[r].address :
                        Contracts(task[r].script)[i] = name]

Exists(address) ==
    /\ address < mined
    /\ ledger[address + 1].succeeded

Name(r) == Contracts(task[r].script)[Len(task[r].address) + 1]

\* The nonce is that of the block mined last, and does not count what is pending.
Start(r, script) ==
    /\ task[r].phase = "idle"
    /\ script = "deploy-local" => network = "local"
    /\ task' = [task EXCEPT ![r] = [script |-> script, phase |-> "deploying",
                                    nonce |-> mined, address |-> <<>>]]
    /\ UNCHANGED <<network, ledger, mined>>

\* What the contracts are told of each other.
Args(r, name) ==
    CASE name = "NounsToken" ->
            [minter |-> task[r].nonce + AUCTION_HOUSE_PROXY_NONCE_OFFSET(task[r].script),
             descriptor |-> Address(r, "NounsDescriptor"),
             seeder |-> Address(r, "NounsSeeder")]
      [] name = "NounsAuctionHouseProxy" ->
            [logic |-> Address(r, "NounsAuctionHouse"), nouns |-> Address(r, "NounsToken")]
      [] name = "NounsDAOExecutor" ->
            [admin |-> task[r].nonce + GOVERNOR_N_DELEGATOR_NONCE_OFFSET(task[r].script)]
      [] name = "NounsDAOProxy" ->
            [timelock |-> Address(r, "NounsDAOExecutor"), nouns |-> Address(r, "NounsToken"),
             implementation |-> Address(r, "NounsDAOLogicV1")]
      [] OTHER -> <<>>

Sent(r, name, args) ==
    /\ Len(ledger) < MaxTxs[network]
    /\ ledger' = Append(ledger, [run |-> r, name |-> name, args |-> args,
                                succeeded |-> network = "local"])
    /\ mined' = IF network = "local" THEN mined + 1 ELSE mined

\* The contract before has to be mined first if it is one that is waited for.
Confirmed(r) ==
    LET n == Len(task[r].address)
    IN  (n > 0 /\ Contracts(task[r].script)[n] \in waitForConfirmation)
            => task[r].address[n] < mined

\* A contract whose creation cannot succeed is not sent: its gas cannot be estimated.
\* That is so for a proxy when the contract behind it is not there.
CanEstimate(r) ==
    CASE Name(r) = "NounsAuctionHouseProxy" -> Exists(Address(r, "NounsAuctionHouse"))
      [] Name(r) = "NounsDAOProxy" -> Exists(Address(r, "NounsDAOLogicV1"))
      [] OTHER -> TRUE

\* One turn of the loop over the contracts.  The transaction takes the next nonce, what is
\* pending included.
Deploy(r) ==
    /\ task[r].phase = "deploying"
    /\ Len(task[r].address) < Len(Contracts(task[r].script))
    /\ Confirmed(r) /\ CanEstimate(r)
    /\ Sent(r, Name(r), Args(r, Name(r)))
    /\ task' = [task EXCEPT ![r].address = Append(@, Len(ledger))]
    /\ UNCHANGED network

\* The deployer does not confirm, or a creation that was waited for has failed.
Exit(r) ==
    /\ task[r].phase = "deploying"
    /\ Len(task[r].address) < Len(Contracts(task[r].script))
    /\ task' = [task EXCEPT ![r] = [script |-> @.script, phase |-> "exited",
                                    nonce |-> 0, address |-> <<>>]]
    /\ UNCHANGED <<network, ledger, mined>>

Finish(r) ==
    /\ task[r].phase = "deploying"
    /\ Len(task[r].address) = Len(Contracts(task[r].script))
    /\ task' = [task EXCEPT ![r].phase = "deployed"]
    /\ UNCHANGED <<network, ledger, mined>>

\* The transaction of the next nonce is mined; a creation may run out of gas.
MineNext(succeeds) ==
    /\ mined < Len(ledger)
    /\ ~succeeds => Cardinality({n \in 1..mined : ~ledger[n].succeeded}) < MaxFailed
    /\ mined' = mined + 1
    /\ ledger' = [ledger EXCEPT ![mined + 1].succeeded = succeeds]
    /\ UNCHANGED <<network, task>>

-----------------------------------------------------------------------------
(* run-local, once deploy-local is done.                                   *)

\* A step of run-local is one transaction of the deployer, populate-descriptor taken as one.
LocalStep(r, from, to, name) ==
    /\ task[r].script = "deploy-local" /\ task[r].phase = from
    /\ Sent(r, name, <<>>)
    /\ task' = [task EXCEPT ![r].phase = to]
    /\ UNCHANGED network

PopulateDescriptor(r) ==
    /\ task[r].phase = "deployed" /\ Exists(Address(r, "NounsDescriptor"))
    /\ LocalStep(r, "deployed", "populated", "populate")

\* mint() answers the house that is the token's minter; to any other it reverts with a
\* reason, and the house pauses itself again, which run-local does not notice.
Mints(r) ==
    /\ Exists(Address(r, "NounsToken")) /\ Exists(Address(r, "NounsSeeder"))
    /\ ledger[Address(r, "NounsToken") + 1].args.minter = Address(r, "NounsAuctionHouseProxy")

Unpause(r) ==
    /\ task[r].phase = "populated" /\ Exists(Address(r, "NounsAuctionHouseProxy"))
    /\ LocalStep(r, "populated", "unpaused", IF Mints(r) THEN "auction" ELSE "paused")

\* create-proposal: the first noun went to the deployer, whom run-local makes the nounders
\* DAO, and has the votes to propose.  Without it propose reverts and the task ends.
CreateProposal(r) ==
    /\ task[r].phase = "unpaused" /\ Exists(Address(r, "NounsDAOProxy"))
    /\ \E i \in DOMAIN ledger : ledger[i].run = r /\ ledger[i].name = "auction"
    /\ LocalStep(r, "unpaused", "proposed", "propose")

DeploymentNext ==
    \/ \E r \in Runs : \/ \E script \in {"deploy", "deploy-local"} : Start(r, script)
                       \/ Deploy(r) \/ Exit(r) \/ Finish(r)
                       \/ PopulateDescriptor(r) \/ Unpause(r) \/ CreateProposal(r)
    \/ \E succeeds \in BOOLEAN : MineNext(succeeds)

-----------------------------------------------------------------------------
(* Properties                                                              *)

\* Nothing of the account was pending when run r began, and nothing else was sent before it
\* was done.
Alone(r) ==
    \A i \in DOMAIN task[r].address : task[r].address[i] = task[r].nonce + i - 1

\* The token's minter is the auction house's proxy, the timelock's admin the DAO's.
Connected(r) ==
    /\ ledger[Address(r, "NounsToken") + 1].args.minter = Address(r, "NounsAuctionHouseProxy")
    /\ ledger[Address(r, "NounsDAOExecutor") + 1].args.admin = Address(r, "NounsDAOProxy")

Deployed(r) == task[r].phase \in {"deployed", "populated", "unpaused", "proposed"}

\* The addresses tasks/deploy.ts and deploy-local.ts compute from a nonce: the token is told
\* the auction house's proxy and the timelock the DAO's, if the account did nothing else;
\* two runs that overlap, or one that begins while a transaction is pending, are not alone.
DeployedAsPlanned == \A r \in Runs : Deployed(r) /\ Alone(r) => Connected(r)
=============================================================================
