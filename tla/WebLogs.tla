------------------------------- MODULE WebLogs -------------------------------
(***************************************************************************)
(* The event logs the governance pages show: a slice of the store, one     *)
(* updater that fetches what the pages listen for at every block, and the  *)
(* list of proposals made of the contract's answers and of the logs.  The  *)
(* pages listen to a single filter, that of ProposalCreated, and its logs  *)
(* as of a block are the proposals made by then.                           *)
(***************************************************************************)
EXTENDS Naturals, FiniteSets, WebTransactions

CONSTANTS
    MaxLogBlock,     \* bound: blocks
    MaxListeners  \* bound: components that use the logs at a time

LogBlocks == 0..MaxLogBlock
LogResults == [blockNumber : LogBlocks, error : BOOLEAN]

ASSUME WebLogsAssumption ==
    {MaxLogBlock, MaxListeners} \subseteq Nat /\ Null \notin Nat \cup LogResults

VARIABLES
    count,               \* proposalCount as of each block
    blockNumber,         \* the last block known to the page, Null at first
    library,             \* whether there is a provider
    (* The entry of the slice. *)
    listeners,           \* Null while there is no entry
    fetchingBlockNumber,
    results,             \* [blockNumber, error], Null for none
    (* The updater. *)
    fetches              \* how many getLogs are under way, by block

logsVars == <<count, blockNumber, library, listeners, fetchingBlockNumber, results, fetches>>

LogsInit ==
    /\ count \in [{0} -> 0..1] /\ blockNumber = Null /\ library = FALSE
    /\ listeners = Null /\ fetchingBlockNumber = Null /\ results = Null
    /\ fetches = [b \in LogBlocks |-> 0]

-----------------------------------------------------------------------------
(* The pages: useLogs.                                                     *)

addListener ==
    /\ listeners \notin MaxListeners..(MaxListeners + 1)
    /\ listeners' = IF listeners = Null THEN 1 ELSE listeners + 1
    /\ UNCHANGED <<count, blockNumber, library, fetchingBlockNumber, results, fetches>>

\* A page is left.
removeListener ==
    /\ listeners \notin {Null, 0}
    /\ listeners' = listeners - 1
    /\ UNCHANGED <<count, blockNumber, library, fetchingBlockNumber, results, fetches>>

-----------------------------------------------------------------------------
(* The chain and the provider.                                             *)

\* A block is announced, a proposal or none in it.
NewBlock ==
    LET last == Cardinality(DOMAIN count) - 1
    IN  IF blockNumber = Null
        THEN /\ blockNumber' = last /\ UNCHANGED count
             /\ UNCHANGED <<library, listeners, fetchingBlockNumber, results, fetches>>
        ELSE /\ last < MaxLogBlock
             /\ \E new \in 0..1 :
                   count' = [b \in 0..(last + 1) |->
                                IF b <= last THEN count[b] ELSE count[last] + new]
             /\ blockNumber' = last + 1
             /\ UNCHANGED <<library, listeners, fetchingBlockNumber, results, fetches>>

\* A wallet is connected or disconnected.
SetLibrary ==
    /\ library' = ~library
    /\ UNCHANGED <<count, blockNumber, listeners, fetchingBlockNumber, results, fetches>>

-----------------------------------------------------------------------------
(* The updater.                                                            *)

\* A block recorded as fetched or being fetched is the current one.
Current(b) == b # Null /\ blockNumber <= b

NeedsFetch ==
    /\ blockNumber # Null
    /\ listeners \notin {Null, 0}
    /\ ~Current(fetchingBlockNumber)
    /\ ~Current(IF results = Null THEN Null ELSE results.blockNumber)

\* The effect of Updater: fetchingLogs, and getLogs up to the block.
Fetch ==
    /\ library /\ NeedsFetch
    /\ fetchingBlockNumber' = blockNumber
    /\ fetches' = [fetches EXCEPT ![blockNumber] = @ + 1]
    /\ UNCHANGED <<count, blockNumber, library, listeners, results>>

\* Fault: whatever comes last is stored.
Outdated_Never(b) == FALSE

Outdated(b) == results # Null /\ results.blockNumber > b

\* fetchedLogs and fetchedLogsError.
Fetched(b, error) ==
    /\ fetches[b] > 0
    /\ fetches' = [fetches EXCEPT ![b] = @ - 1]
    /\ results' = IF Outdated(b) THEN results ELSE [blockNumber |-> b, error |-> error]
    /\ UNCHANGED <<count, blockNumber, library, listeners, fetchingBlockNumber>>

-----------------------------------------------------------------------------
(* What the pages show.                                                    *)

useLogs ==
    IF blockNumber = Null THEN "INVALID"
    ELSE IF results = Null THEN "LOADING"
    ELSE IF results.error THEN "ERROR"
    ELSE IF results.blockNumber >= blockNumber THEN "SYNCED" ELSE "SYNCING"

\* How many proposals have their description: logs and proposals are matched by position.
Described == IF useLogs \in {"SYNCED", "SYNCING"} THEN count[results.blockNumber] ELSE 0

\* useAllProposals is loading while there are proposals but no logs.
Loading == blockNumber # Null /\ count[blockNumber] > 0 /\ Described = 0

-----------------------------------------------------------------------------
LogsNext ==
    \/ addListener \/ removeListener \/ NewBlock \/ SetLibrary \/ Fetch
    \/ \E b \in LogBlocks, error \in BOOLEAN : Fetched(b, error)

\* Fetches overlap and answer in any order, and pages come and go meanwhile: none is
\* made twice, and once all have answered, the pages have the logs of the last block, or
\* its error, and describe each proposal if they have the logs.
LogsFollow ==
    /\ \A b \in LogBlocks : fetches[b] <= 1
    /\ (library /\ listeners \notin {Null, 0} /\ blockNumber # Null
        /\ ~NeedsFetch /\ \A b \in LogBlocks : fetches[b] = 0) =>
          /\ useLogs \in {"SYNCED", "ERROR"}
          /\ useLogs = "SYNCED" => Described = count[blockNumber]
=============================================================================
