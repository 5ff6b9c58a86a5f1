--------------------------- MODULE WebProposalForm ---------------------------
(***************************************************************************)
(* Writing a proposal on the web: the form that adds a transaction, with   *)
(* the ABI it downloads or is given, the draft, and the transaction that   *)
(* proposes it.  A function is named by its signature, as in an ABI, and   *)
(* an argument is only well formed or not.                                 *)
(***************************************************************************)
EXTENDS Integers, SequencesExt, WebTransactions

CONSTANTS
    Addresses,   \* well-formed addresses
    Functions,   \* signatures
    ABIs,        \* what an ABI is: a set of signatures
    Published,   \* the ABI Etherscan has for an address, its implementation's if it is a proxy
    Inputs,      \* how many inputs a signature has
    MaxDraft,    \* bound: transactions of a draft
    MaxProposals  \* bound: transactions that propose, at a time

ASSUME WebProposalFormAssumption ==
    /\ ABIs \subseteq SUBSET Functions /\ Null \notin ABIs
    /\ Published \in [Addresses -> ABIs \cup {Null}]
    /\ Inputs \in [Functions -> Nat]
    /\ {MaxDraft, MaxProposals} \subseteq Nat

VARIABLES
    (* ProposalTransactionFormModal. *)
    show, step, address, abi, value, func, args,
    downloads,    \* downloads of an ABI under way, by address
    (* CreateProposalPage. *)
    draft,        \* proposalTransactions
    described,    \* the title and body are there
    isProposePending, \* the one whose state was told last is being mined
    mining,       \* how many of them are being mined
    live,         \* the account has a live proposal
    read          \* what the page has read last of the account: "votes" it has too few,
                  \* "active" the latest proposal of all is its own and live, or "ready"

formVars == <<show, step, address, abi, value, func, args, downloads>>
draftVars == <<draft, described, isProposePending, mining, live, read>>
proposalFormVars == <<formVars, draftVars>>

\* Text that is no function of the ABI: the first option of the list.
SelectFunction == "Select Contract Function"

\* A value is parsed by both libraries ("", left out), by that of the validator only
\* ("1e3"), or by none.
Values == {"", "1e3", "x"}
Words == {"good", "bad"}

ClearedForm ==
    /\ step' = 0 /\ address' = "" /\ abi' = Null /\ value' = "" /\ func' = "" /\ args' = <<>>

ProposalFormInit ==
    /\ show = FALSE
    /\ step = 0 /\ address = "" /\ abi = Null /\ value = "" /\ func = "" /\ args = <<>>
    /\ downloads = {}
    /\ draft = <<>> /\ described = FALSE /\ isProposePending = FALSE /\ mining = 0
    /\ live = FALSE /\ read = "ready"

-----------------------------------------------------------------------------
(* The steps of the form.                                                  *)

\* _encodeParams throws unless the ABI has the function and each input its argument.
Encodes(f) == abi # Null /\ f \in abi /\ args = [i \in 1..Inputs[f] |-> "good"]

valueValidator == value # "x"
argumentsValidator == func = "" \/ Encodes(func)

\* The stepper goes to the next step if the validator of this one agrees.
StepForward(validator) ==
    /\ show
    /\ validator /\ step' = step + 1
    /\ UNCHANGED <<show, address, abi, value, func, args, draftVars>>

\* The ABI is downloaded meanwhile.
AddressNext ==
    /\ step = 0 /\ StepForward(address \in Addresses)
    /\ downloads' = downloads \cup {address}

OtherNext ==
    /\ \/ step = 1 /\ StepForward(valueValidator)
       \/ step = 2 /\ StepForward(TRUE)
       \/ step = 3 /\ StepForward(argumentsValidator)
    /\ UNCHANGED downloads

Back ==
    /\ show /\ step > 0
    /\ step' = step - 1
    /\ UNCHANGED <<show, address, abi, value, func, args, downloads, draftVars>>

\* What the fields of the step take.
Enter ==
    /\ show
    /\ \/ step = 0 /\ address' \in Addresses \cup {"?"} /\ UNCHANGED <<value, func, args>>
       \/ step = 1 /\ value' \in Values /\ UNCHANGED <<address, func, args>>
       \/ /\ step = 2 /\ abi # Null /\ func' \in abi \cup {SelectFunction}
          /\ UNCHANGED <<address, value, args>>
       \/ /\ step = 3 /\ abi # Null /\ func \in abi
          /\ \E i \in 1..Inputs[func], word \in Words :
                \* The places before it are left empty.
                args' = [j \in 1..(IF i > Len(args) THEN i ELSE Len(args)) |->
                            IF j = i THEN word
                            ELSE IF j \in DOMAIN args THEN args[j] ELSE "bad"]
          /\ UNCHANGED <<address, value, func>>
    /\ UNCHANGED <<show, step, abi, downloads, draftVars>>

\* validateAndSetABI: a file is read.  One that is no ABI changes the file's label only.
UploadABI ==
    /\ show /\ step = 2
    /\ abi' \in ABIs
    /\ UNCHANGED <<show, step, address, value, func, args, downloads, draftVars>>

\* Fault: an ABI that cannot be had clears the one there.
ABIAfterFailure_Cleared == Null

ABIAfterFailure == abi

\* populateABIIfExists goes on, whatever the form is about by now.
PopulateABI(a, found) ==
    /\ a \in downloads
    /\ downloads' = downloads \ {a}
    /\ abi' = IF found /\ Published[a] # Null THEN Published[a] ELSE ABIAfterFailure
    /\ UNCHANGED <<show, step, address, value, func, args, draftVars>>

-----------------------------------------------------------------------------
(* The draft.                                                              *)

\* calldata: (func && abi?._encodeParams(..)) || '0x'.
Calldata == IF func = "" \/ abi = Null THEN <<>> ELSE <<func, args>>

\* parseEther and _encodeParams throw: then nothing is added.
AddTransaction ==
    /\ show /\ step = 4
    /\ value # "1e3"
    /\ func # "" /\ abi # Null => Encodes(func)
    /\ draft' = Append(draft, [target |-> address, value |-> value, signature |-> func,
                               calldata |-> Calldata])
    /\ show' = FALSE /\ ClearedForm
    /\ UNCHANGED <<downloads, described, isProposePending, mining, live, read>>

RemoveTransaction(i) ==
    /\ ~show
    /\ draft' = RemoveAt(draft, i)
    /\ UNCHANGED <<formVars, described, isProposePending, mining, live, read>>

OpenForm ==
    /\ Len(draft) < MaxDraft
    /\ ~show /\ show' = TRUE
    /\ UNCHANGED <<step, address, abi, value, func, args, downloads, draftVars>>

HideForm ==
    /\ show /\ show' = FALSE /\ ClearedForm
    /\ UNCHANGED <<downloads, draftVars>>

\* A title and a text are typed in, or taken out.
Describe ==
    /\ ~show
    /\ described' = ~described
    /\ UNCHANGED <<formVars, draft, isProposePending, mining, live, read>>

-----------------------------------------------------------------------------
(* The proposal.                                                           *)

isFormInvalid == draft = <<>> \/ ~described

hasEnoughVote == read # "votes"
hasActiveOrPendingProposal == read = "active"

\* Or the wallet declines.
handleCreateProposal ==
    /\ draft # <<>>
    /\ \/ mining < MaxProposals /\ mining' = mining + 1 /\ isProposePending' = TRUE
       \/ isProposePending' = FALSE /\ UNCHANGED mining
    /\ UNCHANGED <<formVars, draft, described, live, read>>

\* The button is not disabled while a proposal is being mined.
CreateProposalButton ==
    /\ ~(isFormInvalid \/ hasActiveOrPendingProposal \/ ~hasEnoughVote)
    /\ ~show /\ handleCreateProposal

\* Votes move, and a proposal of another account makes it forget that its own is live.
ReadChain ==
    /\ read' \in {"ready", "votes"} \cup IF live THEN {"active"} ELSE {}
    /\ read' # read
    /\ UNCHANGED <<formVars, draft, described, isProposePending, mining, live>>

\* Success, or Fail: the DAO lets an account have one live proposal only.
ProposeMined ==
    /\ mining > 0 /\ mining' = mining - 1
    /\ isProposePending' = FALSE
    /\ live' \in {TRUE, live}
    /\ UNCHANGED <<formVars, draft, described, read>>

ProposalEnds ==
    /\ live /\ live' = FALSE
    /\ UNCHANGED <<formVars, draft, described, isProposePending, mining, read>>

\* What the page offers: the list of transactions, the editor, the form and two buttons.
ProposalTransactions == \E i \in DOMAIN draft : RemoveTransaction(i)
ProposalEditor == Describe
CreateProposalPage ==
    OpenForm \/ HideForm \/ ProposalTransactions \/ ProposalEditor \/ CreateProposalButton

-----------------------------------------------------------------------------
ProposalFormNext ==
    \/ AddressNext \/ OtherNext \/ Back \/ Enter \/ UploadABI
    \/ \E a \in downloads, found \in BOOLEAN : PopulateABI(a, found)
    \/ AddTransaction \/ CreateProposalPage
    \/ ReadChain \/ ProposeMined \/ ProposalEnds

\* The ABI may be another one than when the function was chosen, and again another than
\* when its arguments were accepted: a call of a function never gets into the draft without
\* the arguments of that function.
DraftEncodes ==
    \A i \in DOMAIN draft : LET call == draft[i] IN
        IF call.signature = "" THEN call.calldata = <<>>
        ELSE call.calldata = <<call.signature,
                               [n \in 1..Inputs[call.signature] |-> "good"]>>
=============================================================================
