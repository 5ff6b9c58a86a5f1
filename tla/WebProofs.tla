------------------------------ MODULE WebProofs ------------------------------
(***************************************************************************)
(* What holds of the pages of the web application, however their fetches,  *)
(* events, timers, wallets and clicks are ordered, and for all values of   *)
(* the constants; the last sections are about what the auction page shows  *)
(* of the log of the auction house when everything has been delivered.     *)
(***************************************************************************)
EXTENDS MCWeb, FiniteSetTheorems, SequenceTheorems, NaturalsInduction, WellFoundedInduction,
        TLAPS

-----------------------------------------------------------------------------
(* Each page on its own.                                                   *)

BidSpec == BidInit /\ [][BidNext]_bidVars
ProposalFormSpec == ProposalFormInit /\ [][ProposalFormNext]_proposalFormVars
LogsSpec == LogsInit /\ [][LogsNext]_logsVars
VoteSpec == VoteInit /\ [][VoteNext]_voteVars
PlaygroundSpec == PlaygroundInit /\ [][PlaygroundNext]_playgroundVars
LocaleSpec == LocaleInit /\ [][LocaleNext]_localeVars

\* A behaviour is of one page, with the others left alone.
LEMMA Pages ==
    Spec => /\ BidSpec /\ ProposalFormSpec /\ LogsSpec
            /\ VoteSpec /\ PlaygroundSpec /\ LocaleSpec
  <1>1. MCInit => /\ BidInit /\ ProposalFormInit /\ LogsInit
                  /\ VoteInit /\ PlaygroundInit /\ LocaleInit
    BY DEF MCInit
  <1>2. [Next]_vars => /\ [BidNext]_bidVars /\ [ProposalFormNext]_proposalFormVars
                       /\ [LogsNext]_logsVars /\ [VoteNext]_voteVars
                       /\ [PlaygroundNext]_playgroundVars /\ [LocaleNext]_localeVars
    BY DEF Next, vars, Auctions, BidPanel, CreateProposal, Logs, Vote, Playground, Locale
  <1> QED
    BY <1>1, <1>2, PTL
       DEF Spec, BidSpec, ProposalFormSpec, LogsSpec, VoteSpec, PlaygroundSpec, LocaleSpec

-----------------------------------------------------------------------------
(* The language.                                                           *)

LocaleTyped ==
    /\ lang \in SUPPORTED_LOCALES \cup {Null} /\ navigator \in Browsers

\* Every import that is waited for is of the language chosen or of a rival, and the page is
\* in one of these or is still to be.  Until the first choice, the language chosen is the
\* one the page was opened with.
LocaleInv ==
    /\ LocaleTyped
    /\ \A call \in activations : call.locale \in {chosen} \cup rivals
    /\ locale \in {chosen} \cup rivals \/ \E call \in activations : call.locale = chosen
    /\ chosen # Null
    /\ lang = Null => chosen = initialLocale

\* What a page that is opened activates.
LEMMA OpensWith ==
    ASSUME LocaleTyped
    PROVE  /\ lang # Null => initialLocale = lang /\ useActiveLocale = lang
           /\ lang = Null /\ navigator \in SUPPORTED_LOCALES =>
                  initialLocale = navigator /\ useActiveLocale = navigator
           /\ lang = Null /\ navigator \notin SUPPORTED_LOCALES =>
                  initialLocale = DEFAULT_LOCALE /\ useActiveLocale = navigator
  BY WebLocaleAssumption
     DEF LocaleTyped, initialLocale, useActiveLocale, navigatorLocale, Or

\* It holds of a page that is opened, for the first time or again.
LEMMA LocaleOpens ==
    ASSUME LocaleTyped, chosen = initialLocale,
           activations = {[locale |-> initialLocale, by |-> "user"],
                          [locale |-> useActiveLocale, by |-> "provider"]},
           rivals = IF lang # Null THEN {} ELSE {useActiveLocale} \ {initialLocale}
    PROVE  LocaleInv
  <1>1. \A call \in activations : call.locale \in {initialLocale, useActiveLocale}
    OBVIOUS
  <1>2. \E call \in activations : call.locale = chosen
    OBVIOUS
  <1>3. {initialLocale, useActiveLocale} \subseteq {chosen} \cup rivals
    BY OpensWith
  <1>4. chosen # Null
    BY OpensWith, WebLocaleAssumption DEF LocaleTyped
  <1> QED
    BY <1>1, <1>2, <1>3, <1>4 DEF LocaleInv

LEMMA LocaleStarts == LocaleInit => LocaleInv
  BY LocaleOpens DEF LocaleInit, LocaleTyped

LEMMA LocaleKept == LocaleInv /\ [LocaleNext]_localeVars => LocaleInv'
  <1> SUFFICES ASSUME LocaleInv, [LocaleNext]_localeVars PROVE LocaleInv'
    OBVIOUS
  <1>1. CASE UNCHANGED localeVars
    BY <1>1 DEF LocaleInv, LocaleTyped, initialLocale, navigatorLocale, Or, localeVars
  <1>2. CASE OpenAgain
    <2>1. LocaleTyped'
      BY <1>2 DEF OpenAgain, LocaleInv, LocaleTyped
    <2>2. initialLocale' = initialLocale /\ useActiveLocale' = useActiveLocale
      BY <1>2 DEF OpenAgain, initialLocale, useActiveLocale, navigatorLocale, Or
    <2>3. /\ chosen' = initialLocale'
          /\ activations' = {[locale |-> initialLocale', by |-> "user"],
                             [locale |-> useActiveLocale', by |-> "provider"]}
          /\ rivals' = IF lang' # Null THEN {} ELSE {useActiveLocale'} \ {initialLocale'}
      BY <2>2, <1>2 DEF OpenAgain
    <2>4. \A call \in activations' : call.locale \in {initialLocale', useActiveLocale'}
      BY <2>3
    <2>5. \E call \in activations' : call.locale = chosen'
      BY <2>3
    <2>6. lang' = lang
      BY <1>2 DEF OpenAgain
    <2>7. {initialLocale', useActiveLocale'} \subseteq {chosen'} \cup rivals'
      BY <2>2, <2>3, <2>6, OpensWith DEF LocaleInv
    <2>8. chosen' # Null
      BY <2>2, <2>3, OpensWith, WebLocaleAssumption DEF LocaleInv, LocaleTyped
    <2> QED
      BY <2>1, <2>3, <2>4, <2>5, <2>7, <2>8 DEF LocaleInv
  \* An import ends, and the page is in the language it was made for; if that is the one
  \* chosen, the rivals whose imports ended before are none any more.
  <1>3. ASSUME NEW l \in SUPPORTED_LOCALES \cup Browsers, Imported(l) \/ ImportFails(l)
        PROVE  LocaleInv'
    <2>1. UNCHANGED <<lang, navigator, chosen>> /\ locale' = l /\ rivals' = RivalsAfter(l)
      BY <1>3 DEF Imported, ImportFails
    <2>2. PICK call \in activations : call.locale = l
      BY <1>3 DEF Imported, ImportFails
    <2>3. \A c \in activations' : \E d \in activations : c.locale = d.locale
      BY <1>3 DEF Imported, ImportFails
    <2>4. \A c \in activations' : c.locale \in {chosen} \cup rivals
      BY <2>3 DEF LocaleInv
    <2>5. (\A c \in activations : c.locale \in {chosen} \cup rivals)'
      BY <2>1, <2>4 DEF RivalsAfter
    <2>6. locale' \in {chosen'} \cup rivals' \/ \E c \in activations' : c.locale = chosen'
      <3>1. CASE l = chosen
        BY <3>1, <2>1
      <3>2. CASE l # chosen
        BY <3>2, <2>1, <2>2 DEF RivalsAfter, LocaleInv
      <3> QED
        BY <3>1, <3>2
    <2>7. initialLocale' = initialLocale
      BY <2>1 DEF initialLocale, navigatorLocale, Or
    <2> QED
      BY <2>1, <2>5, <2>6, <2>7 DEF LocaleInv, LocaleTyped
  <1>4. ASSUME NEW m, NavLocaleSwitcher(m) PROVE LocaleInv'
    BY <1>4 DEF NavLocaleSwitcher, LocaleInv, LocaleTyped, initialLocale, navigatorLocale, Or
  \* A choice; all that waits by then is a rival.
  <1>5. ASSUME NEW l \in SUPPORTED_LOCALES, setLocale(l) PROVE LocaleInv'
    <2>1. CASE lang = l
      BY <2>1, <1>5 DEF setLocale, LocaleInv, LocaleTyped, initialLocale, navigatorLocale, Or
    <2>2. CASE lang # l
      <3>1. lang' = l /\ navigator' = navigator /\ l # Null /\ chosen' = l
        BY <2>2, <1>5, WebLocaleAssumption DEF setLocale
      <3>2. rivals' = {call.locale : call \in activations} \ {l}
        BY <2>2, <1>5 DEF setLocale
      <3>3. \A call \in activations : call.locale \in {chosen'} \cup rivals'
        BY <3>1, <3>2
      <3>4. CASE l \in catalogs
        <4>1. locale' = l /\ activations' = activations
          BY <3>4, <2>2, <1>5 DEF setLocale, dynamicActivate
        <4> QED
          BY <4>1, <3>1, <3>3 DEF LocaleInv, LocaleTyped
      <3>5. CASE l \notin catalogs
        <4>1. activations' = activations \cup {[locale |-> l, by |-> "user"]}
          BY <3>5, <2>2, <1>5 DEF setLocale, dynamicActivate
        <4>2. \A call \in activations' : call.locale \in {chosen'} \cup rivals'
          BY <4>1, <3>1, <3>3
        <4>3. [locale |-> l, by |-> "user"] \in activations'
          BY <4>1
        <4>4. \E call \in activations' : call.locale = chosen'
          BY <4>3, <3>1
        <4> QED
          BY <4>2, <4>4, <3>1 DEF LocaleInv, LocaleTyped
      <3> QED
        BY <3>4, <3>5
    <2> QED
      BY <2>1, <2>2
  <1>6. ASSUME NEW l \in SUPPORTED_LOCALES, OtherTab(l) PROVE LocaleInv'
    BY <1>6, WebLocaleAssumption DEF OtherTab, LocaleInv, LocaleTyped
  <1> QED
    BY <1>1, <1>2, <1>3, <1>4, <1>5, <1>6
       DEF LocaleNext, ClickInDropdown, LanguageSelectionModal

\* Once its imports have ended, the page is in the language chosen in it last, or in one whose
\* import had begun before that choice and ended after it, whatever was chosen before, in
\* other tabs, or failed (setLocale, dynamicActivate and LanguageProvider).
THEOREM ChosenLanguage == Spec => []LanguageAsChosen
  <1>1. LocaleInv => LanguageAsChosen
    <2> SUFFICES ASSUME LocaleInv, activations = {} PROVE LanguageAsChosen
      BY DEF LanguageAsChosen
    <2>1. locale \in {chosen} \cup rivals
      BY DEF LocaleInv
    <2>2. ASSUME rivals = {}, lang = chosen PROVE Ticked = locale
      BY <2>1, <2>2 DEF LocaleInv, Ticked, useActiveLocale, Or
    <2>3. ASSUME rivals = {}, lang = Null, navigatorLocale # Null PROVE Ticked = locale
      BY <2>1, <2>3 DEF LocaleInv, Ticked, useActiveLocale, initialLocale, Or
    <2> QED
      BY <2>1, <2>2, <2>3 DEF LanguageAsChosen
  <1> QED
    BY <1>1, LocaleStarts, LocaleKept, Pages, PTL DEF LocaleSpec

-----------------------------------------------------------------------------
(* The logs.                                                               *)

BlocksOrNone == LogBlocks \cup {Null}

LogsTyped ==
    /\ \E newest \in LogBlocks : DOMAIN count = 0..newest /\ blockNumber \in {newest, Null}
    /\ fetchingBlockNumber \in BlocksOrNone
    /\ results # Null => results.blockNumber \in LogBlocks
    /\ fetches \in [LogBlocks -> Nat]

\* The block fetched last is being fetched or was stored, and none after it is known; no
\* block is fetched twice.
LogsOrdered ==
    /\ \A b \in LogBlocks :
           fetches[b] <= 1
           /\ (fetches[b] > 0 => fetchingBlockNumber # Null /\ b <= fetchingBlockNumber)
    /\ fetchingBlockNumber # Null =>
           /\ blockNumber # Null /\ fetchingBlockNumber <= blockNumber
           /\ \/ fetches[fetchingBlockNumber] = 1
              \/ results # Null /\ results.blockNumber = fetchingBlockNumber
    /\ results # Null =>
           fetchingBlockNumber # Null /\ results.blockNumber <= fetchingBlockNumber

LogsInv == LogsTyped /\ LogsOrdered

LEMMA LogsStart == LogsInit => LogsInv
  <1> SUFFICES ASSUME LogsInit PROVE LogsInv
    OBVIOUS
  <1>1. 0 \in LogBlocks
    BY WebLogsAssumption DEF LogBlocks
  <1>2. DOMAIN count = 0..0
    BY DEF LogsInit
  <1> QED
    BY <1>1, <1>2 DEF LogsInit, LogsInv, LogsTyped, LogsOrdered, BlocksOrNone

LEMMA LogsKept == LogsInv /\ [LogsNext]_logsVars => LogsInv'
  <1> SUFFICES ASSUME LogsInv, [LogsNext]_logsVars PROVE LogsInv'
    OBVIOUS
  <1> USE WebLogsAssumption
  <1>1. PICK newest \in LogBlocks :
            DOMAIN count = 0..newest /\ blockNumber \in {newest, Null}
    BY DEF LogsInv, LogsTyped
  <1>2. LogBlocks \subseteq Nat
    BY DEF LogBlocks
  <1>3. CASE addListener \/ removeListener \/ SetLibrary \/ UNCHANGED logsVars
    BY <1>3 DEF addListener, removeListener, SetLibrary, logsVars,
                LogsInv, LogsTyped, LogsOrdered
  <1>4. CASE NewBlock
    <2>1. /\ UNCHANGED <<fetchingBlockNumber, results, fetches>>
          /\ \E b \in LogBlocks : DOMAIN count' = 0..b /\ blockNumber' = b
          /\ blockNumber # Null => blockNumber' >= blockNumber
      <3>1. newest \in Nat /\ Cardinality(0..newest) - 1 = newest
        <4>1. newest \in Nat
          BY <1>2
        <4> QED
          BY <4>1, FS_Interval
      <3>2. CASE blockNumber = Null
        BY <3>1, <3>2, <1>1, <1>4 DEF NewBlock
      <3>3. CASE blockNumber # Null
        <4>1. newest + 1 \in LogBlocks
          BY <3>1, <3>3, <1>1, <1>4, WebLogsAssumption DEF NewBlock, LogBlocks
        <4> QED
          BY <3>1, <3>3, <4>1, <1>1, <1>4 DEF NewBlock
      <3> QED
        BY <3>2, <3>3
    <2>2. blockNumber' # Null
      BY <2>1, <1>2
    <2>3. blockNumber # Null /\ fetchingBlockNumber # Null =>
              fetchingBlockNumber \in Nat /\ blockNumber \in Nat /\ blockNumber' \in Nat
      BY <1>1, <1>2, <2>1 DEF LogsInv, LogsTyped, BlocksOrNone
    <2> QED
      BY <2>1, <2>2, <2>3 DEF LogsInv, LogsTyped, LogsOrdered
  <1>5. CASE Fetch
    <2>1. /\ blockNumber = newest /\ fetchingBlockNumber' = newest
          /\ fetchingBlockNumber = Null \/ fetchingBlockNumber < newest
          /\ UNCHANGED <<count, blockNumber, results>>
          /\ fetches' = [fetches EXCEPT ![newest] = @ + 1]
      <3>1. blockNumber = newest
        BY <1>1, <1>5 DEF Fetch, NeedsFetch
      <3>2. /\ fetchingBlockNumber' = blockNumber
            /\ UNCHANGED <<count, blockNumber, results>>
            /\ fetches' = [fetches EXCEPT ![blockNumber] = @ + 1]
            /\ ~Current(fetchingBlockNumber)
        BY <1>5 DEF Fetch, NeedsFetch
      <3>3. fetchingBlockNumber # Null =>
                fetchingBlockNumber \in Nat /\ blockNumber \in Nat
        BY <3>1, <1>2 DEF LogsInv, LogsTyped, BlocksOrNone
      <3>4. fetchingBlockNumber = Null \/ fetchingBlockNumber < newest
        BY <3>1, <3>2, <3>3 DEF Current
      <3> QED
        BY <3>1, <3>2, <3>4
    <2>2. fetches[newest] = 0
      BY <1>1, <1>2, <2>1 DEF LogsInv, LogsTyped, LogsOrdered, BlocksOrNone
    <2>3. fetches' \in [LogBlocks -> Nat] /\ fetches'[newest] = 1
          /\ \A b \in LogBlocks : b # newest => fetches'[b] = fetches[b]
      BY <2>1, <2>2 DEF LogsInv, LogsTyped
    <2>4. \A b \in LogBlocks : fetches'[b] > 0 => b <= newest
      BY <1>1, <1>2, <2>1, <2>3 DEF LogsInv, LogsTyped, LogsOrdered, BlocksOrNone
    <2>5. results # Null => results.blockNumber <= newest
      <3> HAVE results # Null
      <3>1. results.blockNumber \in Nat /\ newest \in Nat
        BY <1>2 DEF LogsInv, LogsTyped
      <3>2. fetchingBlockNumber \in Nat /\ fetchingBlockNumber < newest
        BY <1>2, <2>1 DEF LogsInv, LogsTyped, LogsOrdered, BlocksOrNone
      <3>3. results.blockNumber <= fetchingBlockNumber
        BY DEF LogsInv, LogsOrdered
      <3> QED
        BY <3>1, <3>2, <3>3
    <2>6. newest # Null /\ newest <= newest
      BY <1>1, <1>2
    <2>7. LogsTyped'
      BY <2>1, <2>3, <1>1 DEF LogsInv, LogsTyped, BlocksOrNone
    <2>8. \A b \in LogBlocks : fetches'[b] <= 1
      BY <2>3 DEF LogsInv, LogsOrdered
    <2> QED
      BY <2>1, <2>3, <2>4, <2>5, <2>6, <2>7, <2>8 DEF LogsInv, LogsOrdered
  <1>6. ASSUME NEW b \in LogBlocks, NEW error \in BOOLEAN, Fetched(b, error) PROVE LogsInv'
    <2> DEFINE now == fetchingBlockNumber
    <2>1. /\ fetches[b] = 1 /\ now # Null /\ b <= now /\ now \in LogBlocks
          /\ now <= blockNumber /\ blockNumber # Null
      BY <1>6 DEF Fetched, LogsInv, LogsTyped, LogsOrdered, BlocksOrNone
    <2>2. /\ UNCHANGED <<count, blockNumber, fetchingBlockNumber>>
          /\ fetches' = [fetches EXCEPT ![b] = @ - 1]
      BY <1>6 DEF Fetched
    <2>3. fetches' \in [LogBlocks -> Nat] /\ fetches'[b] = 0
          /\ \A c \in LogBlocks : c # b => fetches'[c] = fetches[c]
      BY <2>1, <2>2 DEF LogsInv, LogsTyped
    <2>4. \/ results' = results /\ results # Null /\ results.blockNumber > b
          \/ results' = [blockNumber |-> b, error |-> error]
             /\ (results # Null => ~(results.blockNumber > b))
      BY <1>6 DEF Fetched, Outdated
    <2>9. fetches[now] = 1 \/ (results # Null /\ results.blockNumber = now)
      BY <2>1 DEF LogsInv, LogsOrdered
    <2>5. results' # Null /\ results'.blockNumber \in LogBlocks /\ results'.blockNumber <= now
      <3>1. CASE results' = results /\ results # Null
        BY <3>1 DEF LogsInv, LogsTyped, LogsOrdered
      <3>2. CASE results' = [blockNumber |-> b, error |-> error]
        <4>1. results'.blockNumber = b
          BY <3>2
        <4>2. results' # Null
          BY <3>2, WebLogsAssumption DEF LogResults
        <4> QED
          BY <4>1, <4>2, <2>1
      <3> QED
        BY <2>4, <3>1, <3>2
    <2>6. fetches'[now] = 1 \/ results'.blockNumber = now
      <3>1. CASE now = b
        <4>1. results' = [blockNumber |-> b, error |-> error] => results'.blockNumber = b
          OBVIOUS
        <4>2. results'.blockNumber > b \/ results'.blockNumber = b
          BY <4>1, <2>4
        <4>3. results'.blockNumber \in Nat /\ b \in Nat
          BY <1>2, <2>5
        <4> QED
          BY <3>1, <4>2, <4>3, <2>5
      <3>2. CASE now # b
        <4>1. CASE fetches[now] = 1
          BY <3>2, <4>1, <2>1, <2>3
        <4>2. CASE results # Null /\ results.blockNumber = now
          <5>1. results.blockNumber > b
            BY <3>2, <4>2, <2>1, <1>2
          <5> QED
            BY <5>1, <4>2, <2>4
        <4> QED
          BY <4>1, <4>2, <2>9
      <3> QED
        BY <3>1, <3>2
    <2>7. LogsTyped'
      BY <2>2, <2>3, <2>5 DEF LogsInv, LogsTyped
    <2>8. \A c \in LogBlocks : fetches'[c] <= 1 /\ (fetches'[c] > 0 => c <= now)
      BY <2>3 DEF LogsInv, LogsOrdered
    <2> QED
      BY <2>1, <2>2, <2>5, <2>6, <2>7, <2>8 DEF LogsInv, LogsOrdered
  <1> QED
    BY <1>3, <1>4, <1>5, <1>6 DEF LogsNext

\* Fetches overlap and answer in any order, and no block is fetched twice; once all have
\* answered, the pages have the logs of the last block, or its error (the logs slice, its
\* Updater and useLogs).
THEOREM LogsInTheEnd == Spec => []LogsFollow
  <1>1. LogsInv => LogsFollow
    <2> SUFFICES ASSUME LogsInv PROVE LogsFollow
      OBVIOUS
    <2>1. \A b \in LogBlocks : fetches[b] <= 1
      BY DEF LogsInv, LogsOrdered
    <2>2. ASSUME library, listeners \notin {Null, 0}, blockNumber # Null, ~NeedsFetch,
                 \A b \in LogBlocks : fetches[b] = 0
          PROVE  useLogs \in {"SYNCED", "ERROR"}
                 /\ (useLogs = "SYNCED" => Described = count[blockNumber])
      <3>1. /\ Current(fetchingBlockNumber) \/ Current(results.blockNumber)
            /\ results = Null => Current(fetchingBlockNumber)
        BY <2>2 DEF NeedsFetch, Current
      <3>2. blockNumber \in Nat /\ LogBlocks \subseteq Nat
        BY <2>2 DEF LogsInv, LogsTyped, LogBlocks
      <3>3. fetchingBlockNumber # Null
        BY <3>1 DEF Current, LogsInv, LogsOrdered
      <3>4. fetchingBlockNumber \in LogBlocks /\ fetchingBlockNumber <= blockNumber
        BY <3>3 DEF LogsInv, LogsTyped, LogsOrdered, BlocksOrNone
      <3>5. results # Null /\ results.blockNumber = fetchingBlockNumber
        BY <2>2, <3>3, <3>4 DEF LogsInv, LogsOrdered
      <3>6. blockNumber <= fetchingBlockNumber
        BY <3>1, <3>5 DEF Current
      <3>7. results.blockNumber = blockNumber
        BY <3>2, <3>4, <3>5, <3>6
      <3>8. results.blockNumber >= blockNumber
        BY <3>2, <3>7
      <3> QED
        BY <2>2, <3>5, <3>7, <3>8 DEF useLogs, Described
    <2> QED
      BY <2>1, <2>2 DEF LogsFollow
  <1> QED
    BY <1>1, LogsStart, LogsKept, Pages, PTL DEF LogsSpec

-----------------------------------------------------------------------------
(* The vote.                                                               *)

VoteKinds == {"vote", "reason"}
VoteTx == [kind : VoteKinds \cup {"forgotten", "queue", "execute"},
           stage : {"signing", "mining", "mined", "reverted", "dead"}]

VoteTyped ==
    /\ block \in Nat /\ voted \in Nat \cup {Null}
    /\ txs \in Seq(VoteTx)
    /\ {isVoteSuccessful, remounted} \subseteq BOOLEAN

\* The modal tells of success only if the DAO has a vote; if it has one, the transaction
\* that cast it is remembered, and told of unless it is still to be.
VoteHeard ==
    /\ voted # Null => voted <= block
    /\ isVoteSuccessful => voted # Null
    /\ ~remounted =>
           /\ \A t \in DOMAIN txs : txs[t].kind # "forgotten"
           /\ voted # Null =>
                  \E t \in DOMAIN txs :
                      /\ txs[t].kind \in VoteKinds
                      /\ txs[t].stage = "mined"
                         \/ (txs[t].stage = "dead" /\ isVoteSuccessful)
    /\ \A t \in DOMAIN txs :
           txs[t].kind \in VoteKinds \cup {"forgotten"} /\ txs[t].stage = "mined" =>
               voted # Null

VoteInv == VoteTyped /\ VoteHeard

LEMMA VoteStarts == VoteInit => VoteInv
  <1> SUFFICES ASSUME VoteInit PROVE VoteInv
    OBVIOUS
  <1>1. txs \in Seq(VoteTx) /\ DOMAIN txs = {}
    BY DEF VoteInit
  <1>2. VoteTyped
    BY <1>1 DEF VoteInit, VoteTyped
  <1>3. VoteHeard
    BY <1>1 DEF VoteInit, VoteHeard
  <1> QED
    BY <1>2, <1>3 DEF VoteInv

\* A transaction goes on to another stage.
LEMMA Progressed ==
    ASSUME txs \in Seq(VoteTx), NEW t \in DOMAIN txs,
           NEW to \in {"signing", "mining", "mined", "reverted", "dead"}, VoteTxTo(t, to)
    PROVE  /\ txs' \in Seq(VoteTx) /\ DOMAIN txs' = DOMAIN txs
           /\ txs'[t].stage = to /\ txs'[t].kind = txs[t].kind
           /\ \A u \in DOMAIN txs : u # t => txs'[u] = txs[u]
           /\ \A u \in DOMAIN txs : txs'[u].kind = txs[u].kind
  <1>1. txs' = [txs EXCEPT ![t] = [@ EXCEPT !.stage = to]]
    BY DEF VoteTxTo, Progress
  <1>2. txs[t] \in VoteTx
    OBVIOUS
  <1>3. [txs[t] EXCEPT !.stage = to] \in VoteTx
    BY <1>2 DEF VoteTx
  <1>4. [txs[t] EXCEPT !.stage = to].stage = to
        /\ [txs[t] EXCEPT !.stage = to].kind = txs[t].kind
    BY <1>2 DEF VoteTx
  <1>5. DOMAIN txs' = DOMAIN txs /\ txs'[t] = [txs[t] EXCEPT !.stage = to]
        /\ \A u \in DOMAIN txs : u # t => txs'[u] = txs[u]
    BY <1>1
  <1>6. txs' \in Seq(VoteTx)
    BY <1>1, <1>3
  <1> QED
    BY <1>4, <1>5, <1>6

\* A step that leaves the votes alone, with the same transactions or one more.
LEMMA VoteQuiet ==
    ASSUME VoteInv, UNCHANGED <<voted, isVoteSuccessful, remounted>>,
           block' \in Nat, block' >= block, txs' \in Seq(VoteTx),
           DOMAIN txs \subseteq DOMAIN txs', \A t \in DOMAIN txs : txs'[t] = txs[t],
           \A t \in DOMAIN txs' \ DOMAIN txs :
               txs'[t].stage = "signing" /\ txs'[t].kind # "forgotten"
    PROVE  VoteInv'
  <1>1. VoteTyped'
    BY DEF VoteInv, VoteTyped
  <1>2. voted' # Null => voted' <= block'
    BY DEF VoteInv, VoteTyped, VoteHeard
  <1>3. VoteHeard'
    BY <1>2 DEF VoteInv, VoteHeard
  <1> QED
    BY <1>1, <1>3 DEF VoteInv

\* A transaction that is waiting goes on to a stage that tells nothing of a vote.
LEMMA VoteTxMoves ==
    ASSUME VoteInv, NEW t \in DOMAIN txs,
           NEW to \in {"signing", "mining", "reverted", "dead"}, VoteTxTo(t, to),
           txs[t].stage \notin {"mined", "dead"},
           UNCHANGED <<voted, isVoteSuccessful, remounted>>,
           block' \in Nat, block' >= block
    PROVE  VoteInv'
  <1>1. /\ txs' \in Seq(VoteTx) /\ DOMAIN txs' = DOMAIN txs
        /\ txs'[t].stage = to /\ txs'[t].kind = txs[t].kind
        /\ \A u \in DOMAIN txs : u # t => txs'[u] = txs[u]
        /\ \A u \in DOMAIN txs : txs'[u].kind = txs[u].kind
    BY Progressed DEF VoteInv, VoteTyped
  <1>2. VoteTyped'
    BY <1>1 DEF VoteInv, VoteTyped
  <1>3. voted' # Null => voted' <= block'
    BY DEF VoteInv, VoteTyped, VoteHeard
  <1>4. ~remounted' /\ voted' # Null =>
            \E u \in DOMAIN txs' :
                /\ txs'[u].kind \in VoteKinds
                /\ txs'[u].stage = "mined" \/ (txs'[u].stage = "dead" /\ isVoteSuccessful')
    BY <1>1 DEF VoteInv, VoteHeard
  <1>5. \A u \in DOMAIN txs' :
            txs'[u].kind \in VoteKinds \cup {"forgotten"} /\ txs'[u].stage = "mined" =>
                voted' # Null
    BY <1>1 DEF VoteInv, VoteHeard
  <1>6. VoteHeard'
    BY <1>1, <1>3, <1>4, <1>5 DEF VoteInv, VoteHeard
  <1> QED
    BY <1>2, <1>6 DEF VoteInv

LEMMA VoteKept == VoteInv /\ [VoteNext]_voteVars => VoteInv'
  <1> SUFFICES ASSUME VoteInv, [VoteNext]_voteVars PROVE VoteInv'
    OBVIOUS
  <1> USE WebVoteAssumption
  <1>1. block \in Nat /\ txs \in Seq(VoteTx) /\ isVoteSuccessful \in BOOLEAN
    BY DEF VoteInv, VoteTyped
  <1>2. CASE \/ NextBlock \/ See \/ OpenVoteModal \/ Dismiss \/ AutoClose \/ DismissAlert
             \/ (\E v \in {"FOR", "AGAINST", "ABSTAIN"} : SetVote(v)) \/ UNCHANGED voteVars
    <2>1. /\ UNCHANGED <<voted, isVoteSuccessful, remounted, txs>>
          /\ block' \in {block, block + 1}
      BY <1>2 DEF NextBlock, See, OpenVoteModal, Dismiss, AutoClose, DismissAlert, SetVote,
                  voteVars, daoVars, modalVars, votePageVars
    <2>2. block' \in Nat /\ block' >= block
      BY <1>1, <2>1
    <2> QED
      BY <1>1, <2>1, <2>2, VoteQuiet
  <1>3. CASE (\E kind \in VoteKinds : Submit(kind)) \/ moveStateAction
    <2>1. PICK tx : /\ txs' = Append(txs, tx) /\ tx.stage = "signing" /\ tx \in VoteTx
                    /\ tx.kind # "forgotten"
      <3>1. ASSUME NEW kind \in {"vote", "reason", "queue", "execute"}
            PROVE  LET tx == [kind |-> kind, stage |-> "signing"]
                   IN  tx \in VoteTx /\ tx.stage = "signing" /\ tx.kind # "forgotten"
        BY DEF VoteTx, VoteKinds
      <3>2. \E kind \in {"vote", "reason", "queue", "execute"} :
                txs' = Append(txs, [kind |-> kind, stage |-> "signing"])
        BY <1>3 DEF Submit, moveStateAction, VoteKinds
      <3> QED
        BY <3>1, <3>2
    <2>2. UNCHANGED <<block, voted, isVoteSuccessful, remounted>>
      BY <1>3 DEF Submit, moveStateAction, daoVars, votePageVars, modalVars
    <2>3. /\ txs' \in Seq(VoteTx) /\ DOMAIN txs = 1..Len(txs) /\ Len(txs) \in Nat
          /\ DOMAIN txs' = 1..(Len(txs) + 1) /\ txs'[Len(txs) + 1] = tx
          /\ \A t \in DOMAIN txs : txs'[t] = txs[t]
      BY <1>1, <2>1
    <2>4. DOMAIN txs' \ DOMAIN txs = {Len(txs) + 1} /\ DOMAIN txs \subseteq DOMAIN txs'
      BY <2>3
    <2> QED
      BY <1>1, <2>1, <2>2, <2>3, <2>4, VoteQuiet
  <1>4. CASE Remount
    <2> DEFINE ofVotes == {t \in DOMAIN txs : txs[t].kind \in VoteKinds}
    <2>1. /\ UNCHANGED <<block, voted>> /\ isVoteSuccessful' = FALSE
          /\ remounted' = (remounted \/ ofVotes # {})
      BY <1>4 DEF Remount, daoVars, VoteKinds
    <2>2. txs' = [t \in DOMAIN txs |->
                     IF t \in ofVotes THEN [txs[t] EXCEPT !.kind = "forgotten"] ELSE txs[t]]
      BY <1>4 DEF Remount, VoteKinds
    <2>3. \A t \in DOMAIN txs : /\ txs[t] \in VoteTx
                                /\ [txs[t] EXCEPT !.kind = "forgotten"] \in VoteTx
                                /\ [txs[t] EXCEPT !.kind = "forgotten"].stage = txs[t].stage
                                /\ [txs[t] EXCEPT !.kind = "forgotten"].kind = "forgotten"
      <3>1. \A t \in DOMAIN txs : txs[t] \in VoteTx
        BY <1>1
      <3> QED
        BY <3>1 DEF VoteTx
    <2>4. txs' \in Seq(VoteTx) /\ DOMAIN txs' = DOMAIN txs
      BY <1>1, <2>2, <2>3
    <2>5. \A t \in DOMAIN txs : /\ txs'[t].stage = txs[t].stage
                                /\ t \in ofVotes => txs'[t].kind = "forgotten"
                                /\ t \notin ofVotes => txs'[t] = txs[t]
      BY <2>2, <2>3
    <2>6. ~remounted' => voted' = Null /\ \A t \in DOMAIN txs' : txs'[t].kind # "forgotten"
      BY <2>1, <2>4, <2>5 DEF VoteInv, VoteHeard
    <2>7. \A t \in DOMAIN txs' :
              txs'[t].kind \in VoteKinds \cup {"forgotten"} /\ txs'[t].stage = "mined" =>
                  voted' # Null
      BY <2>1, <2>4, <2>5 DEF VoteInv, VoteHeard
    <2>8. VoteHeard'
      BY <2>1, <2>6, <2>7 DEF VoteInv, VoteHeard
    <2>9. VoteTyped'
      BY <2>1, <2>4 DEF VoteInv, VoteTyped
    <2> QED
      BY <2>8, <2>9 DEF VoteInv
  <1>5. ASSUME NEW t \in DOMAIN txs, SignVoteTx(t) \/ RejectVoteTx(t) PROVE VoteInv'
    <2>1. PICK to \in {"mining", "dead"} : VoteTxTo(t, to)
      BY <1>5 DEF SignVoteTx, RejectVoteTx
    <2>2. UNCHANGED <<block, voted, remounted>> /\ txs[t].stage = "signing"
      BY <1>5 DEF SignVoteTx, RejectVoteTx, daoVars, ReportVoteTx
    <2>3. isVoteSuccessful' = isVoteSuccessful
      BY <1>1, <1>5 DEF SignVoteTx, RejectVoteTx, ReportVoteTx, handleVoteStateChange
    <2> QED
      BY <1>1, <2>1, <2>2, <2>3, VoteTxMoves
  <1>6. ASSUME NEW t \in DOMAIN txs, MineVoteTx(t) PROVE VoteInv'
    <2> DEFINE ofVote == txs[t].kind \in VoteKinds \cup {"forgotten"}
    <2>1. /\ UNCHANGED <<isVoteSuccessful, remounted>> /\ txs[t].stage = "mining"
          /\ block' = block + 1
      BY <1>6 DEF MineVoteTx, votePageVars, modalVars
    <2>2. block' \in Nat /\ block' >= block
      BY <1>1, <2>1
    <2>3. txs[t] \in VoteTx /\ (ofVote <=> txs[t].kind \notin DOMAIN After)
      <3>1. txs[t] \in VoteTx
        BY <1>1
      <3> QED
        BY <3>1 DEF VoteTx, VoteKinds, After
    <2>4. CASE ofVote /\ Counts(block')
      <3>1. voted = Null /\ voted' = block' /\ VoteTxTo(t, "mined")
        BY <2>3, <2>4, <1>6 DEF MineVoteTx, Counts
      <3>2. /\ txs' \in Seq(VoteTx) /\ DOMAIN txs' = DOMAIN txs
            /\ txs'[t].stage = "mined" /\ txs'[t].kind = txs[t].kind
            /\ \A u \in DOMAIN txs : txs'[u].kind = txs[u].kind
        BY <1>1, <3>1, Progressed
      <3>3. VoteTyped'
        BY <2>1, <2>2, <3>1, <3>2 DEF VoteInv, VoteTyped
      <3>4. voted' # Null /\ voted' <= block'
        BY <2>2, <3>1
      <3>5. ~remounted' => txs'[t].kind \in VoteKinds
        BY <2>1, <2>4, <3>2 DEF VoteInv, VoteHeard
      <3>6. VoteHeard'
        BY <2>1, <3>2, <3>4, <3>5 DEF VoteInv, VoteHeard
      <3> QED
        BY <3>3, <3>6 DEF VoteInv
    <2>5. CASE ~(ofVote /\ Counts(block'))
      <3>1. voted' = voted
        BY <2>3, <2>5, <1>6 DEF MineVoteTx
      <3>2. CASE VoteTxTo(t, "reverted")
        BY <2>1, <2>2, <3>1, <3>2, VoteTxMoves
      <3>3. CASE VoteTxTo(t, "mined") /\ ~ofVote
        <4>1. /\ txs' \in Seq(VoteTx) /\ DOMAIN txs' = DOMAIN txs
              /\ txs'[t].kind = txs[t].kind
              /\ \A u \in DOMAIN txs : u # t => txs'[u] = txs[u]
          BY <1>1, <3>3, Progressed
        <4>2. VoteTyped'
          BY <2>1, <2>2, <3>1, <4>1 DEF VoteInv, VoteTyped
        <4>3. voted' # Null => voted' <= block'
          BY <2>1, <3>1 DEF VoteInv, VoteTyped, VoteHeard
        <4>4. ~remounted' /\ voted' # Null =>
                  \E u \in DOMAIN txs' :
                      /\ txs'[u].kind \in VoteKinds
                      /\ txs'[u].stage = "mined"
                         \/ (txs'[u].stage = "dead" /\ isVoteSuccessful')
          BY <2>1, <3>1, <4>1 DEF VoteInv, VoteHeard
        <4>5. VoteHeard'
          BY <2>1, <3>1, <3>3, <4>1, <4>3, <4>4 DEF VoteInv, VoteHeard
        <4> QED
          BY <4>2, <4>5 DEF VoteInv
      <3> QED
        BY <2>3, <2>5, <3>2, <3>3, <1>6 DEF MineVoteTx
    <2> QED
      BY <2>4, <2>5
  <1>7. ASSUME NEW t \in DOMAIN txs, VoteTxMined(t) PROVE VoteInv'
    <2>1. /\ UNCHANGED <<block, voted, remounted>> /\ VoteTxTo(t, "dead")
          /\ txs[t].stage \in {"mined", "reverted"}
      BY <1>7 DEF VoteTxMined, daoVars, ReportVoteTx, IsMined
    <2>2. CASE txs[t].stage = "mined" /\ txs[t].kind \in VoteKinds
      <3>1. isVoteSuccessful'
        BY <2>2, <1>7 DEF VoteTxMined, ReportVoteTx, handleVoteStateChange, Outcome, Followed,
                          VoteKinds
      <3>2. isVoteSuccessful' = TRUE /\ voted # Null
        BY <1>1, <2>2, <3>1, <1>7
           DEF VoteTxMined, ReportVoteTx, handleVoteStateChange, Outcome, Followed,
               VoteKinds, VoteInv, VoteHeard
      <3>3. /\ txs' \in Seq(VoteTx) /\ DOMAIN txs' = DOMAIN txs
            /\ txs'[t].stage = "dead" /\ txs'[t].kind = txs[t].kind
            /\ \A u \in DOMAIN txs : txs'[u].kind = txs[u].kind
        BY <1>1, <2>1, Progressed
      <3>4. VoteTyped'
        BY <2>1, <3>2, <3>3 DEF VoteInv, VoteTyped
      <3>5. VoteHeard'
        BY <2>1, <2>2, <3>2, <3>3 DEF VoteInv, VoteHeard
      <3> QED
        BY <3>4, <3>5 DEF VoteInv
    <2>3. CASE ~(txs[t].stage = "mined" /\ txs[t].kind \in VoteKinds)
      <3>1. isVoteSuccessful' = isVoteSuccessful
        BY <1>1, <2>1, <2>3, <1>7
           DEF VoteTxMined, ReportVoteTx, handleVoteStateChange, Outcome, Followed, VoteKinds
      <3>2. /\ txs' \in Seq(VoteTx) /\ DOMAIN txs' = DOMAIN txs
            /\ txs'[t].stage = "dead" /\ txs'[t].kind = txs[t].kind
            /\ \A u \in DOMAIN txs : u # t => txs'[u] = txs[u]
        BY <1>1, <2>1, Progressed
      <3>3. VoteTyped'
        BY <2>1, <3>1, <3>2 DEF VoteInv, VoteTyped
      <3>4. ~remounted' /\ voted' # Null =>
                \E u \in DOMAIN txs' :
                    /\ txs'[u].kind \in VoteKinds
                    /\ txs'[u].stage = "mined"
                       \/ (txs'[u].stage = "dead" /\ isVoteSuccessful')
        BY <2>1, <2>3, <3>1, <3>2 DEF VoteInv, VoteHeard
      <3>5. VoteHeard'
        BY <2>1, <3>1, <3>2, <3>4 DEF VoteInv, VoteHeard
      <3> QED
        BY <3>3, <3>5 DEF VoteInv
    <2> QED
      BY <2>2, <2>3
  <1> QED
    BY <1>2, <1>3, <1>4, <1>5, <1>6, <1>7 DEF VoteNext, VoteKinds

LEMMA VoteInvariance == Spec => []VoteInv
  BY VoteStarts, VoteKept, Pages, PTL DEF VoteSpec

\* The modal tells of success if and only if the DAO has the account's vote, whatever was
\* dismissed and sent again meanwhile (VoteModal and handleVoteStateChange).
THEOREM VoteToldRight == Spec => []VoteTold
  <1>1. VoteInv => VoteTold
    BY DEF VoteInv, VoteTyped, VoteHeard, VoteTold, AllTold
  <1> QED
    BY <1>1, VoteInvariance, PTL

\* Estimated at so many milliseconds a block, what is at least a block away is at least a
\* block's time away, and what is not ahead takes none.
LEMMA DatesOrder ==
    ASSUME NEW time \in Nat, NEW ahead \in Int
    PROVE  /\ ahead >= 1 => time * ahead >= time
           /\ ahead <= 0 => time * ahead <= 0
  <1>1. ASSUME ahead >= 1 PROVE time * ahead >= time
    <2>1. ahead - 1 \in Nat /\ time * (ahead - 1) \in Nat
      BY <1>1
    <2>2. time * ahead = time * (ahead - 1) + time
      OBVIOUS
    <2> QED
      BY <2>1, <2>2
  <1>2. ASSUME ahead <= 0 PROVE time * ahead <= 0
    <2>1. -ahead \in Nat /\ time * (-ahead) \in Nat
      BY <1>2
    <2>2. time * ahead = -(time * (-ahead))
      OBVIOUS
    <2> QED
      BY <2>1, <2>2
  <1> QED
    BY <1>1, <1>2

\* Whenever the page offers to vote, a vote in the next block counts (isActiveForVoting and
\* disableVoteButton, for any start, end and time of a block, and any two readings of the
\* clock less than a block's time apart).
THEOREM OfferedIsOpen == Spec => []OfferIsOpen
  <1>1. VoteInv => OfferIsOpen
    <2> SUFFICES ASSUME VoteInv, seen = block, NEW lag \in Lags, isActiveForVoting(seen, lag),
                        ~disableVoteButton, ~canceled
                 PROVE  Counts(block + 1)
      BY DEF OfferIsOpen
    <2>1. /\ block \in Nat /\ StartBlock \in Nat /\ EndBlock \in Nat
          /\ BlockTime \in Nat /\ lag \in 0..BlockTime - 1
      BY WebVoteAssumption DEF VoteInv, VoteTyped
    <2>2. StartBlock - block < 1
      <3>1. BlockTime * (StartBlock - block) < lag
        BY DEF isActiveForVoting, startDate
      <3>2. StartBlock - block \in Int
        BY <2>1
      <3>3. StartBlock - block >= 1 => BlockTime * (StartBlock - block) >= BlockTime
        BY <2>1, <3>2, DatesOrder
      <3>4. BlockTime * (StartBlock - block) \in Int
        BY <2>1
      <3> QED
        BY <2>1, <3>1, <3>2, <3>3, <3>4
    <2>3. EndBlock - block > 0
      <3>1. BlockTime * (EndBlock - block) > lag
        BY DEF isActiveForVoting, endDate
      <3>2. EndBlock - block \in Int
        BY <2>1
      <3>3. EndBlock - block <= 0 => BlockTime * (EndBlock - block) <= 0
        BY <2>1, <3>2, DatesOrder
      <3>4. BlockTime * (EndBlock - block) \in Int
        BY <2>1
      <3> QED
        BY <2>1, <3>1, <3>2, <3>3, <3>4
    <2>4. StartBlock < block + 1 /\ block + 1 <= EndBlock
      BY <2>1, <2>2, <2>3
    <2>5. voted = Null
      BY DEF disableVoteButton, hasVoted, VoteInv, VoteHeard
    <2> QED
      BY <2>4, <2>5 DEF Counts
  <1> QED
    BY <1>1, VoteInvariance, PTL

-----------------------------------------------------------------------------
(* The panel of the running auction.                                       *)

Bidders == Users \cup {Rival}
Sales == [noun : Nat, amount : Nat, bidder : Bidders \cup {Null}, end : Nat]
TxStatuses == {"None", "Mining", "Success", "Fail", "Exception"}
Forms == [input : Nat, loading : BOOLEAN, bid : TxStatuses, settle : TxStatuses]
Dead == [stage |-> "dead"]
BidTx == [kind : {"bid", "settle"}, noun : Nat, amount : Nat, by : Users,
          stage : {"estimating", "signing", "mining", "mined", "reverted"}]

BidTyped ==
    /\ clock \in Nat
    /\ sale \in Sales /\ auction \in Sales /\ news \in Seq(Sales)
    /\ account \in Users \cup {Null}
    /\ form \in Forms /\ ended \in BOOLEAN
    /\ bidTxs \in Seq(BidTx \cup {Dead})
    /\ timer \in [left : Nat, due : Nat \cup {Null}]

\* The bid an auction is shown with was placed.
Backed(a, taken) ==
    a.bidder # Null => [noun |-> a.noun, amount |-> a.amount, by |-> a.bidder] \in taken
AllBacked ==
    /\ Backed(sale, placed) /\ Backed(auction, placed)
    /\ \A i \in DOMAIN news : Backed(news[i], placed)

ModalTrue ==
    modal # Null /\ modal.kind = "placed" =>
        [noun |-> modal.noun, amount |-> modal.amount, by |-> modal.by] \in placed

\* As long as the auction is not known to be over, the panel will look at the clock by its
\* end.
PollInTime ==
    IF ended THEN poll = Null /\ clock >= auction.end
    ELSE poll \in Nat /\ clock <= poll /\ poll <= auction.end

\* The time left is that of the last unit, until its timeout expires.
TimerInTime ==
    IF timer.due = Null THEN timer.left = 0 /\ clock >= auction.end
    ELSE /\ timer.due \in {clock, clock + 1} /\ timer.due <= auction.end
         /\ timer.left = auction.end - (timer.due - 1)

BidInv == BidTyped /\ AllBacked /\ ModalTrue /\ PollInTime /\ TimerInTime

\* What the effects write into the form and the alert.
LEMMA FormTyped ==
    ASSUME NEW f \in Forms, NEW isEnded \in BOOLEAN
    PROVE  FormOf(f, isEnded) \in Forms
  <1>1. FormOf(f, isEnded) \in {f, [f EXCEPT !.loading = TRUE], [f EXCEPT !.loading = FALSE]}
    BY DEF FormOf
  <1>2. [f EXCEPT !.loading = TRUE] \in Forms /\ [f EXCEPT !.loading = FALSE] \in Forms
    BY DEF Forms
  <1> QED
    BY <1>1, <1>2

LEMMA EffectsTold ==
    ASSUME NEW f \in Forms, NEW a \in Sales, Backed(a, placed), ModalTrue, NEW who,
           NEW isEnded \in BOOLEAN, NEW changed \in BOOLEAN,
           Effects(f, a, who, isEnded, changed), placed \subseteq placed'
    PROVE  form' \in Forms /\ ModalTrue'
  <1> DEFINE g == IF changed THEN FormOf(f, isEnded) ELSE f
  <1>1. g \in Forms
    BY FormTyped
  <1> HIDE DEF g
  <1>2. CASE ~isEnded /\ BidTold(f, a, who)
    <2>1. modal' = [kind |-> "placed", noun |-> a.noun, amount |-> f.input, by |-> who]
      BY <1>2 DEF Effects
    <2>2. PICK entered \in {0, f.input} :
              form' = [g EXCEPT !.bid = "Success", !.loading = FALSE, !.input = entered]
      BY <1>2 DEF Effects, g
    <2>3. entered \in Nat
      BY DEF Forms
    <2>4. form' \in Forms
      BY <1>1, <2>2, <2>3 DEF Forms, TxStatuses
    <2>5. modal'.noun = a.noun /\ modal'.amount = a.amount /\ modal'.by = a.bidder
          /\ a.bidder # Null
      BY <1>2, <2>1 DEF BidTold, isCorrectTx
    <2>6. ModalTrue'
      BY <2>5 DEF Backed, ModalTrue
    <2> QED
      BY <2>4, <2>6
  <1>3. CASE ~(~isEnded /\ BidTold(f, a, who))
    <2>1. form' = g /\ modal' = IF changed THEN AlertOf(f, isEnded) ELSE modal
      BY <1>3 DEF Effects, g
    <2>2. AlertOf(f, isEnded) \in {[kind |-> "error"], [kind |-> "settled"], modal}
      BY DEF AlertOf
    <2>3. modal' = modal \/ modal'.kind \in {"error", "settled"}
      BY <2>1, <2>2
    <2> QED
      BY <1>1, <2>1, <2>3 DEF ModalTrue
  <1> QED
    BY <1>2, <1>3

\* A panel that looks at the clock.
LEMMA LooksAtClock ==
    ASSUME NEW a \in Sales, NEW t \in Nat
    PROVE  /\ Ends(a, t) <=> t >= a.end
           /\ Ends(a, t) => NextPoll(a, t) = Null
           /\ ~Ends(a, t) => /\ NextPoll(a, t) \in Nat /\ t < NextPoll(a, t)
                             /\ NextPoll(a, t) <= a.end
           /\ TimerOf(a, t) \in [left : Nat, due : Nat \cup {Null}]
           /\ Ends(a, t) => TimerOf(a, t).left = 0 /\ TimerOf(a, t).due = Null
           /\ ~Ends(a, t) => /\ TimerOf(a, t).left = a.end - t
                             /\ TimerOf(a, t).due = t + 1 /\ t + 1 <= a.end
  <1>1. a.end \in Nat
    BY DEF Sales
  <1>2. SlowPoll \in Nat /\ SlowPoll > 0 /\ SlowPoll <= FinalStretch /\ FinalStretch \in Nat
    BY WebBidAssumption
  <1>3. Ends(a, t) <=> t >= a.end
    BY <1>1 DEF Ends
  <1>4. CASE Ends(a, t)
    BY <1>3, <1>4 DEF NextPoll, TimerOf
  <1>5. CASE ~Ends(a, t)
    <2>1. t < a.end /\ a.end - t \in Nat
      BY <1>1, <1>3, <1>5
    <2>2. NextPoll(a, t) = t + PollAfter(a.end - t)
      BY <1>5 DEF NextPoll
    <2>3. PollAfter(a.end - t) \in Nat /\ PollAfter(a.end - t) > 0
          /\ PollAfter(a.end - t) <= a.end - t
      <3> DEFINE left == a.end - t
      <3>1. left \in Nat /\ left > 0
        BY <1>1, <2>1
      <3> HIDE DEF left
      <3>2. PollAfter(left) \in Nat /\ PollAfter(left) > 0 /\ PollAfter(left) <= left
        BY <1>2, <3>1 DEF PollAfter
      <3> QED
        BY <3>2 DEF left
    <2>4. TimerOf(a, t) = [left |-> a.end - t, due |-> t + 1]
      BY <1>5 DEF TimerOf
    <2> QED
      BY <1>1, <1>3, <1>5, <2>1, <2>2, <2>3, <2>4
  <1> QED
    BY <1>4, <1>5

LEMMA BidStarts == BidInit => BidInv
  <1> SUFFICES ASSUME BidInit PROVE BidInv
    OBVIOUS
  <1>1. clock = 0 /\ sale = [noun |-> 1, amount |-> 0, bidder |-> Null, end |-> 0 + Duration]
    BY DEF BidInit, Opened
  <1>2. sale \in Sales /\ sale.bidder = Null /\ sale.end > 0
    BY <1>1, WebBidAssumption DEF Sales
  <1>3. auction = sale /\ ended = FALSE /\ news = <<>> /\ modal = Null /\ bidTxs = <<>>
        /\ poll = NextPoll(auction, 0) /\ timer = TimerOf(auction, 0) /\ form = EmptyForm
        /\ account \in Users \cup {Null}
    BY DEF BidInit
  <1>4. ~Ends(sale, 0) /\ sale.end \in Nat
    BY <1>2 DEF Ends, Sales
  <1>5. EmptyForm \in Forms
    BY DEF EmptyForm, Forms, TxStatuses
  <1>6. BidTyped
    <2>1. TimerOf(sale, 0) \in [left : Nat, due : Nat \cup {Null}]
      BY <1>2, LooksAtClock
    <2>2. clock \in Nat /\ news \in Seq(Sales) /\ bidTxs \in Seq(BidTx \cup {Dead})
      BY <1>1, <1>3
    <2> QED
      BY <1>2, <1>3, <1>5, <2>1, <2>2 DEF BidTyped
  <1>7. AllBacked /\ ModalTrue
    BY <1>2, <1>3 DEF AllBacked, Backed, ModalTrue
  <1>8. PollInTime
    BY <1>1, <1>2, <1>3, <1>4, LooksAtClock DEF PollInTime
  <1>9. TimerInTime
    <2>1. timer.left = auction.end - 0 /\ timer.due = 0 + 1 /\ 0 + 1 <= auction.end
      BY <1>2, <1>3, <1>4, LooksAtClock
    <2>2. timer.due = clock + 1 /\ timer.due # Null /\ timer.due <= auction.end
      BY <2>1, <1>1, WebBidAssumption
    <2>3. timer.left = auction.end - (timer.due - 1)
      BY <2>1, <1>3, <1>4
    <2> QED
      BY <2>2, <2>3 DEF TimerInTime
  <1> QED
    BY <1>6, <1>7, <1>8, <1>9 DEF BidInv

\* A step that leaves the panel and its timers alone; what the house has sold and announced
\* may have gone on.
LEMMA PanelAlone ==
    ASSUME BidInv, BidTyped', AllBacked', ModalTrue', UNCHANGED <<clock, panel>>
    PROVE  BidInv'
  BY DEF BidInv, PollInTime, TimerInTime, panel

\* An effect is run, or the form or the alert is changed; the house goes on without.
LEMMA HouseAlone ==
    ASSUME BidInv, BidTyped', ModalTrue', UNCHANGED <<clock, panel, sale, placed, news>>
    PROVE  BidInv'
  <1>1. AllBacked'
    BY DEF BidInv, AllBacked, Backed, panel
  <1> QED
    BY <1>1, PanelAlone

\* The panel shows an auction that is backed.
LEMMA AuctionShown ==
    ASSUME BidInv, NEW a \in Sales, Backed(a, placed), Show(a), news' \in Seq(Sales),
           \A i \in DOMAIN news' : Backed(news'[i], placed),
           UNCHANGED <<clock, sale, placed, account, bidTxs>>
    PROVE  BidInv'
  <1>1. /\ auction' = a /\ ended' = Ends(a, clock) /\ poll' = NextPoll(a, clock)
        /\ timer' = IF a # auction THEN TimerOf(a, clock) ELSE timer
    BY DEF Show
  <1>2. clock \in Nat /\ ended' \in BOOLEAN /\ auction \in Sales /\ form \in Forms
    BY <1>1 DEF BidInv, BidTyped, Ends
  <1>3. form' \in Forms /\ ModalTrue'
    <2>1. CASE a.noun # auction.noun
      <3>1. form' = EmptyForm /\ modal' = modal
        BY <2>1 DEF Show
      <3> QED
        BY <3>1 DEF EmptyForm, Forms, TxStatuses, BidInv, ModalTrue
    <2>2. CASE a.noun = auction.noun
      <3>1. Effects(form, a, account, ended', ended' # ended)
        BY <2>2 DEF Show
      <3> DEFINE changed == (ended' # ended)
      <3>2. changed \in BOOLEAN
        OBVIOUS
      <3> HIDE DEF changed
      <3>3. Effects(form, a, account, ended', changed)
        BY <3>1 DEF changed
      <3> QED
        BY <3>2, <3>3, <1>2, EffectsTold DEF BidInv
    <2> QED
      BY <2>1, <2>2
  <1>4. timer' \in [left : Nat, due : Nat \cup {Null}]
    BY <1>1, <1>2, LooksAtClock DEF BidInv, BidTyped
  <1>5. BidTyped'
    BY <1>1, <1>2, <1>3, <1>4 DEF BidInv, BidTyped
  <1>6. AllBacked'
    BY <1>1 DEF BidInv, AllBacked, Backed
  <1>7. PollInTime'
    <2>1. a.end \in Nat /\ clock' = clock
      BY DEF Sales
    <2>2. CASE Ends(a, clock)
      <3>1. poll' = Null /\ clock >= a.end
        BY <2>2, <1>1, <1>2, LooksAtClock
      <3> QED
        BY <2>1, <2>2, <3>1, <1>1 DEF PollInTime
    <2>3. CASE ~Ends(a, clock)
      <3>1. poll' \in Nat /\ clock < poll' /\ poll' <= a.end
        BY <2>3, <1>1, <1>2, LooksAtClock
      <3>2. clock <= poll'
        BY <3>1, <1>2
      <3> QED
        BY <2>1, <2>3, <3>1, <3>2, <1>1 DEF PollInTime
    <2> QED
      BY <2>2, <2>3
  <1>8. TimerInTime'
    <2>1. CASE a = auction
      BY <1>1, <2>1 DEF BidInv, TimerInTime
    <2>2. CASE a # auction
      <3>1. timer' = TimerOf(a, clock)
        BY <1>1, <2>2
      <3>2. a.end \in Nat
        BY DEF Sales
      <3>3. CASE Ends(a, clock)
        BY <3>1, <3>3, <1>1, <1>2, LooksAtClock DEF TimerInTime
      <3>4. CASE ~Ends(a, clock)
        <4>1. timer'.left = a.end - clock /\ timer'.due = clock + 1 /\ clock + 1 <= a.end
          BY <3>1, <3>4, <1>2, LooksAtClock
        <4>2. timer'.due # Null
          BY <4>1, <1>2, WebBidAssumption
        <4>3. timer'.due - 1 = clock
          BY <4>1, <1>2
        <4> QED
          <5>1. timer'.due \in {clock', clock' + 1} /\ timer'.due <= auction'.end
            BY <1>1, <4>1
          <5>2. timer'.left = auction'.end - (timer'.due - 1)
            BY <1>1, <4>1, <4>3
          <5> QED
            BY <4>2, <5>1, <5>2 DEF TimerInTime
      <3> QED
        BY <3>3, <3>4
    <2> QED
      BY <2>1, <2>2
  <1> QED
    BY <1>3, <1>5, <1>6, <1>7, <1>8 DEF BidInv

\* The house takes a bid.
LEMMA Taken ==
    ASSUME BidInv, NEW who \in Bidders, NEW amount \in Nat, Take(who, amount),
           UNCHANGED auction
    PROVE  /\ sale' \in Sales /\ news' \in Seq(Sales) /\ placed \subseteq placed'
           /\ AllBacked'
  <1> DEFINE bid == [sale EXCEPT !.amount = amount, !.bidder = who]
             extended == [bid EXCEPT !.end = clock + TimeBuffer]
  <1>1. sale \in Sales /\ clock + TimeBuffer \in Nat /\ news \in Seq(Sales)
    BY WebBidAssumption DEF BidInv, BidTyped
  <1>2. /\ bid \in Sales /\ bid.noun = sale.noun /\ bid.amount = amount /\ bid.bidder = who
        /\ extended \in Sales /\ extended.noun = sale.noun /\ extended.amount = amount
        /\ extended.bidder = who
    BY <1>1 DEF Sales
  <1> HIDE DEF bid, extended
  <1>3. /\ placed' = placed \cup {[noun |-> sale.noun, amount |-> amount, by |-> who]}
        /\ \/ sale' = bid /\ news' = news \o <<bid>>
           \/ sale' = extended /\ news' = news \o <<bid, extended>>
    BY DEF Take, bid, extended
  <1>4. placed \subseteq placed' /\ Backed(bid, placed') /\ Backed(extended, placed')
    BY <1>2, <1>3 DEF Backed
  <1>5. /\ Backed(sale, placed') /\ Backed(auction, placed')
        /\ \A i \in DOMAIN news : Backed(news[i], placed')
    BY <1>4 DEF BidInv, AllBacked, Backed
  <1>6. /\ sale' \in Sales /\ news' \in Seq(Sales) /\ Backed(sale', placed')
        /\ \A i \in DOMAIN news' : Backed(news'[i], placed')
    <2>1. CASE sale' = bid /\ news' = news \o <<bid>>
      <3>1. \A i \in DOMAIN news' : (i \in DOMAIN news /\ news'[i] = news[i]) \/ news'[i] = bid
        BY <2>1, <1>1
      <3> QED
        BY <2>1, <3>1, <1>1, <1>2, <1>4, <1>5
    <2>2. CASE sale' = extended /\ news' = news \o <<bid, extended>>
      <3>1. \A i \in DOMAIN news' : \/ i \in DOMAIN news /\ news'[i] = news[i]
                                    \/ news'[i] \in {bid, extended}
        BY <2>2, <1>1
      <3> QED
        BY <2>2, <3>1, <1>1, <1>2, <1>4, <1>5
    <2> QED
      BY <1>3, <2>1, <2>2
  <1> QED
    BY <1>4, <1>5, <1>6 DEF AllBacked

\* Of a transaction that is not over, everything is known.
LEMMA BidTxIs ==
    ASSUME BidTyped, NEW t \in DOMAIN bidTxs, bidTxs[t].stage # "dead"
    PROVE  bidTxs[t] \in BidTx
  <1>1. bidTxs[t] \in BidTx \cup {Dead}
    BY DEF BidTyped
  <1>2. bidTxs[t] # Dead
    BY DEF Dead
  <1> QED
    BY <1>1, <1>2

LEMMA BidTxGoesOn ==
    ASSUME BidTyped, NEW t \in DOMAIN bidTxs, bidTxs[t].stage # "dead",
           NEW to \in {"estimating", "signing", "mining", "mined", "reverted", "dead"},
           BidTxTo(t, to)
    PROVE  bidTxs' \in Seq(BidTx \cup {Dead})
  <1>1. bidTxs[t] \in BidTx /\ bidTxs \in Seq(BidTx \cup {Dead})
    BY BidTxIs DEF BidTyped
  <1>2. CASE to = "dead"
    BY <1>1, <1>2 DEF BidTxTo, Dead
  <1>3. CASE to # "dead"
    <2>1. bidTxs' = [bidTxs EXCEPT ![t] = [@ EXCEPT !.stage = to]]
      BY <1>3 DEF BidTxTo, Progress
    <2>2. [bidTxs[t] EXCEPT !.stage = to] \in BidTx
      BY <1>1, <1>3 DEF BidTx
    <2> QED
      BY <1>1, <2>1, <2>2
  <1> QED
    BY <1>2, <1>3

\* The state of a transaction is told, and what it did to the house was before.
LEMMA Reported ==
    ASSUME BidInv, NEW t \in DOMAIN bidTxs, NEW status \in TxStatuses, ReportBidTx(t, status),
           UNCHANGED placed
    PROVE  form' \in Forms /\ ModalTrue'
  <1> DEFINE f == [form EXCEPT !.bid = status]
             g == [form EXCEPT !.settle = status]
  <1>1. f \in Forms /\ g \in Forms /\ ended \in BOOLEAN /\ auction \in Sales
    BY DEF BidInv, BidTyped, Forms
  <1>2. Backed(auction, placed) /\ ModalTrue
    BY DEF BidInv, AllBacked
  <1>3. \/ form' = form /\ modal' = modal
        \/ Effects(f, auction, account, ended, ~ended)
        \/ Effects(g, auction, account, ended, ended)
    BY DEF ReportBidTx
  <1> HIDE DEF f, g
  <1>4. CASE form' = form /\ modal' = modal
    BY <1>4 DEF BidInv, BidTyped, ModalTrue
  <1>5. CASE Effects(f, auction, account, ended, ~ended)
    BY <1>1, <1>2, <1>5, EffectsTold
  <1>6. CASE Effects(g, auction, account, ended, ended)
    BY <1>1, <1>2, <1>6, EffectsTold
  <1> QED
    BY <1>3, <1>4, <1>5, <1>6

LEMMA BidKept == BidInv /\ [BidNext]_bidVars => BidInv'
  <1> SUFFICES ASSUME BidInv, [BidNext]_bidVars PROVE BidInv'
    OBVIOUS
  <1>1. /\ clock \in Nat /\ sale \in Sales /\ auction \in Sales /\ news \in Seq(Sales)
        /\ account \in Users \cup {Null} /\ form \in Forms /\ ended \in BOOLEAN
    BY DEF BidInv, BidTyped
  <1>2. CASE UNCHANGED bidVars
    BY <1>2 DEF BidInv, BidTyped, AllBacked, Backed, ModalTrue, PollInTime, TimerInTime,
                bidVars, panel
  <1>3. CASE DeliverNews
    <2>1. /\ Head(news) \in Sales /\ news' = Tail(news) /\ news' \in Seq(Sales)
          /\ Head(news) = news[1] /\ 1 \in DOMAIN news
          /\ \A i \in DOMAIN news' : i + 1 \in DOMAIN news /\ news'[i] = news[i + 1]
      BY <1>1, <1>3 DEF DeliverNews
    <2>2. Backed(Head(news), placed) /\ \A i \in DOMAIN news' : Backed(news'[i], placed)
      BY <2>1 DEF BidInv, AllBacked
    <2>3. Show(Head(news)) /\ UNCHANGED <<clock, sale, placed, account, bidTxs>>
      BY <1>3 DEF DeliverNews
    <2> QED
      BY <2>1, <2>2, <2>3, AuctionShown
  <1>4. CASE Poll
    <2>1. Show(auction) /\ UNCHANGED <<clock, sale, placed, account, bidTxs, news>>
      BY <1>4 DEF Poll
    <2> QED
      BY <1>1, <2>1, AuctionShown DEF BidInv, AllBacked
  <1>5. CASE Tick
    <2>1. /\ clock' = clock + 1 /\ poll # clock /\ timer.due # clock
          /\ UNCHANGED <<sale, placed, news, auction, ended, poll, timer, account, form, modal,
                         bidTxs>>
      BY <1>5 DEF Tick, panel
    <2>2. BidTyped' /\ AllBacked' /\ ModalTrue'
      BY <1>1, <2>1 DEF BidInv, BidTyped, AllBacked, Backed, ModalTrue
    <2>3. auction.end \in Nat
      BY <1>1 DEF Sales
    <2>4. PollInTime'
      BY <1>1, <2>1, <2>3 DEF BidInv, PollInTime
    <2>5. TimerInTime'
      BY <1>1, <2>1, <2>3 DEF BidInv, TimerInTime
    <2> QED
      BY <2>2, <2>4, <2>5 DEF BidInv
  <1>6. CASE CountDown
    <2>1. /\ timer' = TimerOf(auction, clock)
          /\ UNCHANGED <<clock, sale, placed, news, auction, ended, poll, account, form, modal,
                         bidTxs>>
      BY <1>6 DEF CountDown
    <2>2. BidTyped' /\ AllBacked' /\ ModalTrue' /\ PollInTime'
      BY <1>1, <2>1, LooksAtClock
         DEF BidInv, BidTyped, AllBacked, Backed, ModalTrue, PollInTime
    <2>3. auction.end \in Nat
      BY <1>1 DEF Sales
    <2>4. CASE Ends(auction, clock)
      <3>1. timer'.left = 0 /\ timer'.due = Null /\ clock >= auction.end
        BY <1>1, <2>1, <2>4, LooksAtClock
      <3> QED
        BY <2>1, <2>2, <3>1 DEF TimerInTime, BidInv
    <2>5. CASE ~Ends(auction, clock)
      <3>1. /\ timer'.left = auction.end - clock /\ timer'.due = clock + 1
            /\ clock + 1 <= auction.end
        BY <1>1, <2>1, <2>5, LooksAtClock
      <3>2. timer'.due # Null /\ timer'.due - 1 = clock
        BY <1>1, <3>1, WebBidAssumption
      <3> QED
        BY <2>1, <2>2, <3>1, <3>2 DEF TimerInTime, BidInv
    <2> QED
      BY <2>4, <2>5
  \* The house opens another auction, or takes a bid.
  <1>7. ASSUME SettleHouse PROVE sale' \in Sales /\ news' \in Seq(Sales) /\ placed' = placed
                                 /\ (auction' = auction => AllBacked')
    <2>1. /\ sale' = Opened(sale.noun + 1) /\ news' = Append(news, Opened(sale.noun + 1))
          /\ placed' = placed
      BY <1>7 DEF SettleHouse
    <2>2. Opened(sale.noun + 1) \in Sales /\ Opened(sale.noun + 1).bidder = Null
      BY <1>1, WebBidAssumption DEF Opened, Sales
    <2>3. \A i \in DOMAIN news' :
              (i \in DOMAIN news /\ news'[i] = news[i]) \/ news'[i] = Opened(sale.noun + 1)
      BY <1>1, <2>1
    <2> QED
      BY <1>1, <2>1, <2>2, <2>3 DEF BidInv, AllBacked, Backed
  <1>8. CASE OtherSettles
    <2>1. /\ SettleHouse
          /\ UNCHANGED <<clock, panel, auction, ended, timer, account, form, modal, bidTxs>>
      BY <1>8 DEF OtherSettles, panel
    <2>2. BidTyped' /\ ModalTrue'
      BY <1>7, <2>1 DEF BidInv, BidTyped, ModalTrue
    <2> QED
      BY <1>7, <2>1, <2>2, PanelAlone
  <1>9. ASSUME NEW amount \in Amounts, RivalBids(amount) PROVE BidInv'
    <2>1. /\ Take(Rival, amount) /\ amount \in Nat /\ Rival \in Bidders
          /\ UNCHANGED <<clock, panel, auction, ended, timer, account, form, modal, bidTxs>>
      BY <1>9, WebBidAssumption DEF RivalBids, Amounts, panel, Bidders
    <2>2. /\ sale' \in Sales /\ news' \in Seq(Sales) /\ placed \subseteq placed' /\ AllBacked'
      BY <2>1, Taken
    <2>3. BidTyped' /\ ModalTrue'
      BY <2>1, <2>2 DEF BidInv, BidTyped, ModalTrue
    <2> QED
      BY <2>1, <2>2, <2>3, PanelAlone
  \* The form.
  <1>10. ASSUME NEW amount \in Amounts, bidInputHandler(amount) PROVE BidInv'
    <2>1. /\ form' = [form EXCEPT !.input = amount]
          /\ UNCHANGED <<clock, sale, placed, news, panel, auction, ended, timer, account, modal,
                         bidTxs>>
      BY <1>10 DEF bidInputHandler, panel
    <2>2. form' \in Forms
      BY <1>1, <2>1, WebBidAssumption DEF Forms, Amounts
    <2>3. BidTyped' /\ ModalTrue'
      BY <2>1, <2>2 DEF BidInv, BidTyped, ModalTrue
    <2> QED
      BY <2>1, <2>3, HouseAlone
  <1>11. ASSUME NEW kind \in {"bid", "settle"}, NEW to \in {"estimating", "signing"},
                SendBidTx(kind, to), account # Null
         PROVE  bidTxs' \in Seq(BidTx \cup {Dead})
    <2> DEFINE tx == [kind |-> kind, noun |-> auction.noun, amount |-> form.input,
                      by |-> account, stage |-> to]
    <2>1. bidTxs' = Append(bidTxs, tx)
      BY <1>11 DEF SendBidTx
    <2>2. tx \in BidTx
      BY <1>1, <1>11 DEF BidTx, Sales, Forms
    <2> QED
      BY <2>1, <2>2 DEF BidInv, BidTyped
  <1>12. CASE placeBidHandler
    <2>1. /\ UNCHANGED <<clock, sale, placed, news, panel, auction, ended, timer, account>>
          /\ account # Null
      BY <1>12 DEF placeBidHandler, panel, isDisabled
    <2>2. CASE form.input < minBid
      <3>1. /\ modal' = [kind |-> "error"] /\ form' = [form EXCEPT !.input = minBid]
            /\ UNCHANGED bidTxs
        BY <1>12, <2>2 DEF placeBidHandler
      <3>2. minBid \in Nat
        BY <1>1 DEF minBid, Sales
      <3>3. form' \in Forms
        BY <1>1, <3>1, <3>2 DEF Forms
      <3>4. BidTyped' /\ ModalTrue'
        BY <2>1, <3>1, <3>3 DEF BidInv, BidTyped, ModalTrue
      <3> QED
        BY <2>1, <3>4, HouseAlone
    <2>3. CASE ~(form.input < minBid)
      <3>1. SendBidTx("bid", "estimating") /\ UNCHANGED <<form, modal>>
        BY <1>12, <2>3 DEF placeBidHandler
      <3>2. BidTyped' /\ ModalTrue'
        BY <2>1, <3>1, <1>11 DEF BidInv, BidTyped, ModalTrue
      <3> QED
        BY <2>1, <3>2, HouseAlone
    <2> QED
      BY <2>2, <2>3
  <1>13. CASE settleAuctionHandler
    <2>1. /\ UNCHANGED <<clock, sale, placed, news, panel, auction, ended, timer, account, form,
                         modal>>
          /\ account # Null /\ SendBidTx("settle", "signing")
      BY <1>13 DEF settleAuctionHandler, panel, settleEnabled
    <2>2. BidTyped' /\ ModalTrue'
      BY <2>1, <1>11 DEF BidInv, BidTyped, ModalTrue
    <2> QED
      BY <2>1, <2>2, HouseAlone
  \* The transactions.
  <1>14. ASSUME NEW t \in DOMAIN bidTxs, Estimated(t) PROVE BidInv'
    <2>1. PICK to \in {"signing", "dead"} : BidTxTo(t, to)
      BY <1>14 DEF Estimated
    <2>2. /\ UNCHANGED <<clock, sale, placed, news, panel, auction, ended, timer, account, form,
                         modal>>
          /\ bidTxs[t].stage # "dead"
      BY <1>14 DEF Estimated, panel
    <2>3. BidTyped' /\ ModalTrue'
      BY <2>1, <2>2, BidTxGoesOn DEF BidInv, BidTyped, ModalTrue
    <2> QED
      BY <2>2, <2>3, HouseAlone
  <1>15. ASSUME NEW t \in DOMAIN bidTxs, SignBidTx(t) \/ RejectBidTx(t) \/ BidTxMined(t)
         PROVE  BidInv'
    <2>1. PICK to \in {"mining", "dead"} : BidTxTo(t, to)
      BY <1>15 DEF SignBidTx, RejectBidTx, BidTxMined
    <2>2. PICK status \in TxStatuses : ReportBidTx(t, status)
      BY <1>15 DEF SignBidTx, RejectBidTx, BidTxMined, TxStatuses, Outcome
    <2>3. /\ UNCHANGED <<clock, sale, placed, news, panel, auction, ended, timer, account>>
          /\ bidTxs[t].stage # "dead"
      BY <1>15 DEF SignBidTx, RejectBidTx, BidTxMined, panel, IsMined
    <2>4. form' \in Forms /\ ModalTrue'
      BY <2>2, <2>3, Reported
    <2>5. BidTyped'
      BY <2>1, <2>3, <2>4, BidTxGoesOn DEF BidInv, BidTyped
    <2> QED
      BY <2>3, <2>4, <2>5, HouseAlone
  <1>16. ASSUME NEW t \in DOMAIN bidTxs, MineBidTx(t) PROVE BidInv'
    <2>1. PICK to \in {"mined", "reverted"} : BidTxTo(t, to)
      BY <1>16 DEF MineBidTx
    <2>2. /\ UNCHANGED <<clock, panel, auction, ended, timer, account, form, modal>>
          /\ bidTxs[t].stage = "mining"
      BY <1>16 DEF MineBidTx, panel
    <2>3. bidTxs[t] \in BidTx
      BY <2>2, BidTxIs DEF BidInv
    <2>4. bidTxs[t].by \in Bidders /\ bidTxs[t].amount \in Nat
      BY <2>3 DEF BidTx, Bidders
    <2>5. \/ UNCHANGED <<sale, placed, news>>
          \/ Take(bidTxs[t].by, bidTxs[t].amount)
          \/ SettleHouse
      BY <1>16 DEF MineBidTx
    <2>6. /\ sale' \in Sales /\ news' \in Seq(Sales) /\ placed \subseteq placed' /\ AllBacked'
      <3>1. CASE UNCHANGED <<sale, placed, news>>
        BY <1>1, <2>2, <3>1 DEF BidInv, AllBacked
      <3>2. CASE Take(bidTxs[t].by, bidTxs[t].amount)
        BY <2>2, <2>4, <3>2, Taken
      <3>3. CASE SettleHouse
        BY <1>7, <2>2, <3>3
      <3> QED
        BY <2>5, <3>1, <3>2, <3>3
    <2>7. bidTxs' \in Seq(BidTx \cup {Dead})
      BY <2>1, <2>2, BidTxGoesOn DEF BidInv
    <2>8. BidTyped' /\ ModalTrue'
      BY <2>2, <2>6, <2>7 DEF BidInv, BidTyped, ModalTrue
    <2> QED
      BY <2>2, <2>6, <2>8, PanelAlone
  \* The wallet.
  <1>17. ASSUME NEW who \in Users \cup {Null}, setActiveAccount(who),
                UNCHANGED <<clock, sale, placed, news, panel, bidTxs>>
         PROVE  BidInv'
    <2>1. account' = who /\ Effects(form, auction, who, ended, FALSE)
      BY <1>17 DEF setActiveAccount
    <2>2. form' \in Forms /\ ModalTrue'
      <3>1. Backed(auction, placed) /\ ModalTrue
        BY DEF BidInv, AllBacked
      <3> QED
        BY <1>1, <2>1, <3>1, <1>17, EffectsTold
    <2>3. BidTyped'
      BY <2>1, <2>2, <1>17 DEF BidInv, BidTyped, panel
    <2> QED
      BY <2>2, <2>3, <1>17, HouseAlone
  <1>18. CASE NavWallet
    <2>1. CASE setModalStateHandler(~connecting)
      <3>1. UNCHANGED <<clock, sale, placed, news, panel, auction, ended, timer, account, form,
                        modal, bidTxs>>
        BY <2>1 DEF setModalStateHandler, panel
      <3>2. BidTyped' /\ ModalTrue'
        BY <3>1 DEF BidInv, BidTyped, ModalTrue
      <3> QED
        BY <3>1, <3>2, HouseAlone
    <2>2. CASE switchWalletHandler \/ disconnectWalletHandler
      BY <2>2, <1>17 DEF switchWalletHandler, disconnectWalletHandler
    <2> QED
      BY <1>18, <2>1, <2>2 DEF NavWallet, CustomMenu
  <1>19. ASSUME NEW who \in Users, activate(who) PROVE BidInv'
    BY <1>19, <1>17 DEF activate
  <1>20. CASE CloseAlert
    <2>1. /\ modal' = Null
          /\ UNCHANGED <<clock, sale, placed, news, panel, auction, ended, timer, account, form,
                         bidTxs>>
      BY <1>20 DEF CloseAlert, panel
    <2>2. BidTyped' /\ ModalTrue'
      BY <2>1 DEF BidInv, BidTyped, ModalTrue
    <2> QED
      BY <2>1, <2>2, HouseAlone
  <1> QED
    BY <1>2, <1>3, <1>4, <1>5, <1>6, <1>8, <1>9, <1>10, <1>12, <1>13, <1>14, <1>15, <1>16,
       <1>18, <1>19, <1>20 DEF BidNext

\* The panel tells only of bids that were placed, though the form, the store, the wallet and
\* the transactions change one by one; and its two timers agree with the clock
\* (the effects of Bid, AuctionActivity and AuctionTimer).
THEOREM PanelIsTrue == Spec => []PanelTellsTruth
  <1>1. BidInv => PanelTellsTruth
    <2> SUFFICES ASSUME BidInv PROVE PanelTellsTruth
      OBVIOUS
    <2>1. clock \in Nat /\ auction.end \in Nat /\ ended \in BOOLEAN
      BY DEF BidInv, BidTyped, Sales
    <2>2. ASSUME poll # clock PROVE ended <=> clock >= auction.end
      BY <2>1, <2>2 DEF BidInv, PollInTime
    <2>3. ASSUME poll # clock, timer.due # clock
          PROVE  timer.left = IF ended THEN 0 ELSE auction.end - clock
      BY <2>1, <2>2, <2>3 DEF BidInv, TimerInTime
    <2> QED
      BY <2>2, <2>3 DEF PanelTellsTruth, BidInv, ModalTrue
  <1> QED
    BY <1>1, BidStarts, BidKept, Pages, PTL DEF BidSpec

-----------------------------------------------------------------------------
(* The draft of a proposal.                                                *)

\* What the form may hold.
Targets == Addresses \cup {"?", ""}
Signatures == Functions \cup {"", SelectFunction}

\* The call of a function with its arguments, or of none and without data.
Encoding(signature) ==
    IF signature = "" THEN <<>> ELSE <<signature, [n \in 1..Inputs[signature] |-> "good"]>>
EncodedCall(target, amount, signature) ==
    [target |-> target, value |-> amount, signature |-> signature,
     calldata |-> Encoding(signature)]
EncodedCalls ==
    {EncodedCall(target, amount, signature) :
        target \in Targets, amount \in Values, signature \in Signatures}

\* A function is chosen from an ABI only, and the form has an ABI from then on, though it
\* may be another one.
DraftInv ==
    /\ address \in Targets /\ value \in Values /\ func \in Signatures
    /\ downloads \subseteq Addresses
    /\ abi \in ABIs \cup {Null}
    /\ func # "" => abi # Null
    /\ draft \in Seq(EncodedCalls)

LEMMA DraftStarts == ProposalFormInit => DraftInv
  <1> SUFFICES ASSUME ProposalFormInit PROVE DraftInv
    OBVIOUS
  <1>1. address \in Targets /\ value \in Values /\ func \in Signatures /\ func = ""
    BY DEF ProposalFormInit, Targets, Values, Signatures
  <1>2. draft = <<>> /\ abi = Null /\ downloads = {}
    BY DEF ProposalFormInit
  <1>3. draft \in Seq(EncodedCalls)
    BY <1>2
  <1> QED
    BY <1>1, <1>2, <1>3 DEF DraftInv

LEMMA Removed ==
    ASSUME NEW S, NEW s \in Seq(S), NEW i \in DOMAIN s
    PROVE  RemoveAt(s, i) \in Seq(S)
  <1>1. SubSeq(s, 1, i - 1) \in Seq(S) /\ SubSeq(s, i + 1, Len(s)) \in Seq(S)
    OBVIOUS
  <1> QED
    BY <1>1 DEF RemoveAt

LEMMA DraftKept == DraftInv /\ [ProposalFormNext]_proposalFormVars => DraftInv'
  <1> SUFFICES ASSUME DraftInv, [ProposalFormNext]_proposalFormVars PROVE DraftInv'
    OBVIOUS
  <1>1. CASE \/ AddressNext \/ OtherNext \/ Back \/ OpenForm \/ Describe
             \/ CreateProposalButton \/ ReadChain \/ ProposeMined \/ ProposalEnds
             \/ UNCHANGED proposalFormVars
    <2>1. UNCHANGED <<address, value, func, abi, draft>> /\ downloads' \subseteq Addresses
      BY <1>1 DEF AddressNext, OtherNext, StepForward, Back, OpenForm, Describe,
                  CreateProposalButton, handleCreateProposal, ReadChain, ProposeMined,
                  ProposalEnds, proposalFormVars, formVars, draftVars, DraftInv
    <2> QED
      BY <2>1 DEF DraftInv
  <1>2. CASE Enter
    <2>1. UNCHANGED <<abi, draft, downloads>>
      BY <1>2 DEF Enter, draftVars
    <2>2. address' \in Targets /\ value' \in Values
      BY <1>2 DEF Enter, DraftInv, Targets
    <2>3. func' = func \/ (abi # Null /\ func' \in abi \cup {SelectFunction})
      BY <1>2 DEF Enter
    <2>4. func' \in Signatures /\ (func' # "" => abi # Null)
      BY <2>3, WebProposalFormAssumption DEF DraftInv, Signatures
    <2> QED
      BY <2>1, <2>2, <2>4 DEF DraftInv
  <1>3. CASE UploadABI
    BY <1>3, WebProposalFormAssumption DEF UploadABI, draftVars, DraftInv
  <1>4. ASSUME NEW a \in downloads, NEW isABI \in BOOLEAN, PopulateABI(a, isABI)
        PROVE  DraftInv'
    <2>1. UNCHANGED <<address, value, func, draft>> /\ downloads' = downloads \ {a}
          /\ (abi' = abi \/ (abi' = Published[a] /\ Published[a] # Null))
      BY <1>4 DEF PopulateABI, ABIAfterFailure, draftVars
    <2> QED
      BY <2>1, WebProposalFormAssumption DEF DraftInv
  <1>5. CASE AddTransaction
    <2>1. /\ func # "" => abi # Null /\ Encodes(func)
          /\ draft' = Append(draft, [target |-> address, value |-> value, signature |-> func,
                                     calldata |-> Calldata])
          /\ address' = "" /\ value' = "" /\ func' = "" /\ abi' = Null
          /\ UNCHANGED downloads
      BY <1>5 DEF AddTransaction, ClearedForm, DraftInv
    <2>2. Calldata = Encoding(func)
      BY <2>1 DEF Calldata, Encodes, Encoding
    <2>3. [target |-> address, value |-> value, signature |-> func, calldata |-> Calldata]
              = EncodedCall(address, value, func)
      BY <2>2 DEF EncodedCall
    <2>4. EncodedCall(address, value, func) \in EncodedCalls
      <3>1. address \in Targets /\ value \in Values /\ func \in Signatures
        BY DEF DraftInv
      <3> QED
        BY <3>1 DEF EncodedCalls
    <2>5. draft' \in Seq(EncodedCalls)
      <3>1. draft \in Seq(EncodedCalls)
        BY DEF DraftInv
      <3>2. PICK call \in EncodedCalls : draft' = Append(draft, call)
        BY <2>1, <2>3, <2>4
      <3> QED
        BY <3>1, <3>2
    <2>6. "" \in Targets /\ "" \in Values /\ "" \in Signatures
      BY DEF Targets, Values, Signatures
    <2> QED
      BY <2>1, <2>5, <2>6 DEF DraftInv
  <1>6. CASE ProposalTransactions
    <2>1. PICK i \in DOMAIN draft : draft' = RemoveAt(draft, i)
      BY <1>6 DEF ProposalTransactions, RemoveTransaction
    <2>2. UNCHANGED <<address, value, func, abi, downloads>>
      BY <1>6 DEF ProposalTransactions, RemoveTransaction, formVars
    <2> QED
      BY <2>1, <2>2, Removed DEF DraftInv
  <1>7. CASE HideForm
    BY <1>7 DEF HideForm, ClearedForm, draftVars, DraftInv, Targets, Values, Signatures
  <1> QED
    BY <1>1, <1>2, <1>3, <1>4, <1>5, <1>6, <1>7
       DEF ProposalFormNext, CreateProposalPage, ProposalEditor

\* No call of a function gets into the draft without the arguments of that function, though
\* the ABI may change between the steps of the form (AddTransaction of the form's modal).
THEOREM DraftIsEncoded == Spec => []DraftEncodes
  <1>1. DraftInv => DraftEncodes
    <2> SUFFICES ASSUME DraftInv, NEW i \in DOMAIN draft
                 PROVE  LET call == draft[i] IN
                        IF call.signature = "" THEN call.calldata = <<>>
                        ELSE call.calldata = <<call.signature,
                                   [n \in 1..Inputs[call.signature] |-> "good"]>>
      BY DEF DraftEncodes
    <2>1. PICK target \in Targets, amount \in Values, signature \in Signatures :
              draft[i] = EncodedCall(target, amount, signature)
      <3>1. draft \in Seq(EncodedCalls)
        BY DEF DraftInv
      <3>2. draft[i] \in EncodedCalls
        BY <3>1
      <3> QED
        BY <3>2 DEF EncodedCalls
    <2>2. draft[i].signature = signature /\ draft[i].calldata = Encoding(signature)
      BY <2>1 DEF EncodedCall
    <2> QED
      BY <2>2 DEF Encoding
  <1> QED
    BY <1>1, DraftStarts, DraftKept, Pages, PTL DEF ProposalFormSpec

-----------------------------------------------------------------------------
(* The Playground.                                                         *)

\* Every trait has images, and a trait that is not random has the index its select was set
\* to, which is that of one of them.
SelectsMatch ==
    /\ images \in [Titles -> Seq(Names)] /\ traits = images
    /\ DOMAIN modSeed \subseteq DOMAIN selectIndexes /\ DOMAIN modSeed \subseteq Titles
    /\ \A title \in DOMAIN modSeed :
           /\ modSeed[title] \in Nat /\ modSeed[title] < Len(images[title])
           /\ selectIndexes[title] = modSeed[title]
    /\ \A title \in DOMAIN selectIndexes \ DOMAIN modSeed : selectIndexes[title] = -1

\* As long as one file is chosen at a time, it is being read or it is pending.
UploadMatches ==
    /\ pendingTrait \in [filename : UserFiles \cup {NoFile}, type : Uploadable]
    /\ pendingTrait # NoTrait => pendingTrait.filename \in UserFiles
    /\ ~rechosen =>
           /\ reading # {} => reading = {input} /\ pendingTrait = NoTrait
           /\ pendingTrait # NoTrait =>
                  pendingTrait.type = chosenType /\ pendingTrait.filename = input

PlaygroundInv == SelectsMatch /\ UploadMatches

LEMMA PlaygroundStarts == PlaygroundInit => PlaygroundInv
  <1> SUFFICES ASSUME PlaygroundInit PROVE PlaygroundInv
    OBVIOUS
  <1>1. Shipped \in [Titles -> Seq(Names)]
    BY PlaygroundAssumption DEF Titles
  <1>2. DOMAIN modSeed = {} /\ DOMAIN selectIndexes = {}
    BY DEF PlaygroundInit
  <1> QED
    BY <1>1, <1>2, PlaygroundAssumption
       DEF PlaygroundInit, PlaygroundInv, SelectsMatch, UploadMatches, NoTrait

\* A trait is given an index, or made random, and its select is set.
LEMMA TraitSet ==
    ASSUME SelectsMatch, NEW title \in Titles, NEW index \in Int, index >= -1,
           traitButtonHandler(title, index), selectIndexes' = Set(selectIndexes, title, index),
           images' \in [Titles -> Seq(Names)], traits' = images',
           index < Len(images'[title]),
           \A other \in Titles : other # title => images'[other] = images[other]
    PROVE  SelectsMatch'
  <1>1. /\ DOMAIN selectIndexes' = DOMAIN selectIndexes \cup {title}
        /\ selectIndexes'[title] = index
        /\ \A t \in DOMAIN selectIndexes : t # title => selectIndexes'[t] = selectIndexes[t]
    BY DEF Set
  <1>2. CASE index < 0
    <2>1. /\ DOMAIN modSeed' = DOMAIN modSeed \ {title}
          /\ \A t \in DOMAIN modSeed' : modSeed'[t] = modSeed[t]
      BY <1>2 DEF traitButtonHandler, Deleted
    <2>2. index = -1
      BY <1>2
    <2> QED
      BY <1>1, <2>1, <2>2 DEF SelectsMatch
  <1>3. CASE index >= 0
    <2>1. /\ DOMAIN modSeed' = DOMAIN modSeed \cup {title}
          /\ modSeed'[title] = index
          /\ \A t \in DOMAIN modSeed : t # title => modSeed'[t] = modSeed[t]
      BY <1>3 DEF traitButtonHandler, Set
    <2> QED
      BY <1>1, <1>3, <2>1 DEF SelectsMatch
  <1> QED
    BY <1>2, <1>3

LEMMA PlaygroundKept == PlaygroundInv /\ [PlaygroundNext]_playgroundVars => PlaygroundInv'
  <1> SUFFICES ASSUME PlaygroundInv, [PlaygroundNext]_playgroundVars PROVE PlaygroundInv'
    OBVIOUS
  <1> USE PlaygroundAssumption DEF TraitsAfter, NoTrait
  <1>1. CASE UNCHANGED playgroundVars
    BY <1>1 DEF PlaygroundInv, SelectsMatch, UploadMatches, playgroundVars
  <1>2. ASSUME NEW title \in Titles, NEW index \in -1..Len(traits[title]) - 1,
               SelectTrait(title, index)
        PROVE  PlaygroundInv'
    <2>1. /\ UNCHANGED <<images, pendingTrait, reading, input, chosenType, rechosen>>
          /\ traits' = images /\ traitButtonHandler(title, index)
          /\ selectIndexes' = Set(selectIndexes, title, index)
      BY <1>2 DEF SelectTrait
    <2>2. images[title] \in Seq(Names) /\ traits = images
      BY DEF PlaygroundInv, SelectsMatch
    <2>3. index \in Int /\ index >= -1 /\ index < Len(images[title])
      BY <2>2
    <2>4. SelectsMatch'
      BY <2>1, <2>3, TraitSet DEF PlaygroundInv, SelectsMatch
    <2>5. UploadMatches'
      BY <2>1 DEF PlaygroundInv, UploadMatches
    <2> QED
      BY <2>4, <2>5 DEF PlaygroundInv
  <1>3. ASSUME NEW file \in UserFiles, ChooseFile(file) PROVE PlaygroundInv'
    <2>1. SelectsMatch'
      BY <1>3 DEF ChooseFile, PlaygroundInv, SelectsMatch
    <2>2. UploadMatches'
      BY <1>3 DEF ChooseFile, PlaygroundInv, UploadMatches
    <2> QED
      BY <2>1, <2>2 DEF PlaygroundInv
  <1>4. ASSUME NEW file \in UserFiles, ReaderLoads(file) PROVE PlaygroundInv'
    <2>1. /\ UNCHANGED <<images, modSeed, selectIndexes, rechosen>>
          /\ traits' \in {images, traits} /\ file \in reading /\ reading' = reading \ {file}
      BY <1>4 DEF ReaderLoads
    <2>2. SelectsMatch'
      BY <2>1 DEF PlaygroundInv, SelectsMatch
    <2>3. ~rechosen => pendingTrait = NoTrait /\ input = file /\ reading' = {}
      BY <2>1 DEF PlaygroundInv, UploadMatches
    <2>4. CASE file \in ValidFiles
      <3> DEFINE trait == [filename |-> file, type |-> DefaultTitle]
      <3>1. /\ pendingTrait' = trait /\ UNCHANGED input
            /\ pendingTrait = NoTrait => chosenType' = DefaultTitle
        BY <2>4, <1>4 DEF ReaderLoads
      <3>2. trait.filename = file /\ trait.type = DefaultTitle
        OBVIOUS
      <3>4. trait \in [filename : UserFiles \cup {NoFile}, type : Uploadable]
        OBVIOUS
      <3> HIDE DEF trait
      <3>3. UploadMatches'
        BY <2>1, <2>3, <3>1, <3>2, <3>4 DEF UploadMatches
      <3> QED
        BY <2>2, <3>3 DEF PlaygroundInv
    <2>5. CASE file \notin ValidFiles
      <3>1. UNCHANGED <<pendingTrait, chosenType>>
        BY <2>5, <1>4 DEF ReaderLoads
      <3>2. UploadMatches'
        BY <2>1, <2>3, <3>1 DEF PlaygroundInv, UploadMatches, NoTrait
      <3> QED
        BY <2>2, <3>2 DEF PlaygroundInv
    <2> QED
      BY <2>4, <2>5
  <1>5. ASSUME NEW title \in Uploadable, ChooseType(title) PROVE PlaygroundInv'
    <2>1. /\ pendingTrait # NoTrait /\ pendingTrait' = [pendingTrait EXCEPT !.type = title]
          /\ chosenType' = title /\ traits' = images
          /\ UNCHANGED <<images, modSeed, selectIndexes, reading, input, rechosen>>
      BY <1>5 DEF ChooseType
    <2>2. SelectsMatch'
      BY <2>1 DEF PlaygroundInv, SelectsMatch
    <2>3. pendingTrait' \in [filename : UserFiles \cup {NoFile}, type : Uploadable]
          /\ pendingTrait'.type = title /\ pendingTrait'.filename = pendingTrait.filename
      BY <2>1 DEF PlaygroundInv, UploadMatches
    <2>4. UploadMatches'
      BY <2>1, <2>3 DEF PlaygroundInv, UploadMatches
    <2> QED
      BY <2>2, <2>4 DEF PlaygroundInv
  <1>6. CASE uploadCustomTrait
    <2> DEFINE title == pendingTrait.type
               file == pendingTrait.filename
    <2>1. file \in Names /\ title \in Titles
      BY <1>6 DEF uploadCustomTrait, PlaygroundInv, UploadMatches, Names
    <2>2. /\ images' = [images EXCEPT ![title] = <<file>> \o @]
          /\ traitButtonHandler(title, 0) /\ selectIndexes' = Set(selectIndexes, title, 0)
          /\ traits' = images' /\ pendingTrait' = NoTrait
          /\ rechosen' = (reading # {}) /\ UNCHANGED reading
      BY <1>6 DEF uploadCustomTrait
    <2> HIDE DEF title, file
    <2>3. images \in [Titles -> Seq(Names)] /\ images[title] \in Seq(Names)
      BY <2>1 DEF PlaygroundInv, SelectsMatch
    <2>4. <<file>> \o images[title] \in Seq(Names) /\ 0 < Len(<<file>> \o images[title])
      BY <2>1, <2>3
    <2>5. /\ images' \in [Titles -> Seq(Names)] /\ 0 < Len(images'[title])
          /\ \A other \in Titles : other # title => images'[other] = images[other]
      BY <2>1, <2>2, <2>3, <2>4
    <2>6. SelectsMatch'
      BY <2>1, <2>2, <2>5, TraitSet DEF PlaygroundInv
    <2>7. UploadMatches'
      BY <2>2 DEF UploadMatches, NoTrait
    <2> QED
      BY <2>6, <2>7 DEF PlaygroundInv
  <1>7. CASE Leave
    <2>1. /\ DOMAIN modSeed' = {} /\ DOMAIN selectIndexes' = {} /\ traits' = images
          /\ images' = images /\ reading' = {} /\ pendingTrait' = NoTrait
      BY <1>7 DEF Leave
    <2> QED
      BY <2>1 DEF PlaygroundInv, SelectsMatch, UploadMatches, NoTrait
  <1> QED
    BY <1>1, <1>2, <1>3, <1>4, <1>5, <1>6, <1>7 DEF PlaygroundNext

\* A noun has the parts the selects show, though every upload moves the images and their
\* indexes, and what can be uploaded is the file and the type that are shown, unless a file
\* was chosen before the last was done with (traitButtonHandler, uploadCustomTrait).
THEOREM PartsAsShown == Spec => []DrawnAsSelected
  <1>1. PlaygroundInv => DrawnAsSelected
    <2> SUFFICES ASSUME PlaygroundInv PROVE DrawnAsSelected
      OBVIOUS
    <2>1. ASSUME NEW title \in Titles
          PROVE  IF Shown(title) = Random THEN title \notin DOMAIN modSeed
                 ELSE Parts(title) = {Shown(title)}
      <3>1. /\ traits = images /\ images[title] \in Seq(Names)
            /\ DOMAIN images[title] = 1..Len(images[title])
        BY <2>1 DEF PlaygroundInv, SelectsMatch
      <3>2. CASE title \in DOMAIN modSeed
        <4>1. /\ title \in DOMAIN selectIndexes /\ selectIndexes[title] = modSeed[title]
              /\ modSeed[title] + 1 \in 1..Len(images[title])
          BY <3>1, <3>2 DEF PlaygroundInv, SelectsMatch
        <4>2. Shown(title) = images[title][modSeed[title] + 1] /\ Shown(title) \in Names
          BY <3>1, <4>1 DEF Shown
        <4> QED
          BY <3>2, <4>2, PlaygroundAssumption DEF Parts
      <3>3. CASE title \notin DOMAIN modSeed
        BY <3>1, <3>3 DEF Shown, PlaygroundInv, SelectsMatch
      <3> QED
        BY <3>2, <3>3
    <2> QED
      BY <2>1 DEF DrawnAsSelected, PlaygroundInv, UploadMatches
  <1> QED
    BY <1>1, PlaygroundStarts, PlaygroundKept, Pages, PTL DEF PlaygroundSpec

-----------------------------------------------------------------------------
(* The log of the auction house.                                           *)

AuctionPageSpec == AuctionPageInit /\ [][AuctionPageNext]_auctionPageVars

\* A behaviour is of the auction page, or leaves it alone.
LEMMA AuctionAlone == Spec => AuctionPageSpec
  <1>1. MCInit => AuctionPageInit
    BY DEF MCInit
  <1>2. [Next]_vars => [AuctionPageNext]_auctionPageVars
    BY DEF Next, vars, Auctions, BidPanel, CreateProposal, Logs, Vote, Playground, Locale
  <1> QED
    BY <1>1, <1>2, PTL DEF Spec, AuctionPageSpec

AuctionEvents ==
    [kind : {"created"}, noun : Nat]
    \cup [kind : {"bid"}, noun : Nat, amount : Nat, block : Nat]
    \cup [kind : {"extended"}, noun : Nat, extensions : Nat]
    \cup [kind : {"settled"}, noun : Nat, amount : Nat]

\* The events of a kind of noun n among the first k of log l, and the amounts of its bids.
Of(l, kind, n, k) == {i \in 1..k : l[i].kind = kind /\ l[i].noun = n}
AmountsIn(l, n, k) == {l[i].amount : i \in Of(l, "bid", n, k)}

\* Nouns ascend, and the one created last is that of the auction house.
NounsAscend(l, h) ==
    /\ \A i \in 1..Len(l) : l[i].noun <= h.noun
    /\ \A j \in 1..Len(l) : l[j].kind = "created" =>
           /\ \A i \in 1..Len(l) : i < j => l[i].noun < l[j].noun
           /\ (\A i \in 1..Len(l) : i > j => l[i].kind # "created") => l[j].noun = h.noun

\* Amounts of a noun ascend one by one, and blocks of bids do not descend.
BidsAscend(l, h) ==
    /\ AmountsIn(l, h.noun, Len(l)) = 1..h.amount
    /\ \A j \in 1..Len(l) : l[j].kind = "bid" =>
           /\ l[j].block <= j
           /\ \A i \in 1..Len(l) : i < j /\ l[i].kind = "bid" =>
                  /\ l[i].block <= l[j].block
                  /\ l[i].noun = l[j].noun => l[i].amount < l[j].amount

\* An auction is settled for its last bid.
SettledLast(l, h) ==
    /\ h.settled => Of(l, "settled", h.noun, Len(l)) # {}
    /\ \A j \in 1..Len(l) : l[j].kind = "settled" =>
           /\ AmountsIn(l, l[j].noun, j) = 1..l[j].amount
           /\ \A i \in 1..Len(l) : i > j /\ l[i].kind = "bid" => l[i].noun # l[j].noun
           /\ l[j].noun = h.noun => h.settled /\ l[j].amount = h.amount

\* The last extension is the one that counts.
ExtendedLast(l, h) ==
    /\ h.extensions # 0 => Of(l, "extended", h.noun, Len(l)) # {}
    /\ \A j \in Of(l, "extended", h.noun, Len(l)) :
           (\A i \in Of(l, "extended", h.noun, Len(l)) : i <= j) =>
               l[j].extensions = h.extensions

\* What log l says when the auction of the auction house is h.
Tells(l, h) ==
    /\ l \in Seq(AuctionEvents) /\ Len(l) > 0
    /\ h \in NounAuctions /\ ~isNounderNoun(h.noun)
    /\ NounsAscend(l, h) /\ BidsAscend(l, h) /\ SettledLast(l, h) /\ ExtendedLast(l, h)

\* An event more.
LEMMA LogGrows ==
    ASSUME NEW l \in Seq(AuctionEvents), NEW e \in AuctionEvents, NEW L, L = l \o <<e>>
    PROVE  /\ L \in Seq(AuctionEvents)
           /\ Len(L) = Len(l) + 1 /\ Len(l) \in Nat
           /\ L[Len(l) + 1] = e
           /\ \A i \in 1..Len(l) : L[i] = l[i]
  <1>1. <<e>> \in Seq(AuctionEvents) /\ Len(<<e>>) = 1 /\ <<e>>[1] = e
    OBVIOUS
  <1> QED
    BY <1>1

\* What two logs have in common up to k, and what event k + 1 adds.
LEMMA SameAmounts ==
    ASSUME NEW l, NEW L, NEW n, NEW k \in Nat, \A i \in 1..k : L[i] = l[i]
    PROVE  AmountsIn(L, n, k) = AmountsIn(l, n, k)
  <1>1. Of(L, "bid", n, k) = Of(l, "bid", n, k)
    BY DEF Of
  <1>2. \A i \in Of(l, "bid", n, k) : L[i] = l[i]
    BY DEF Of
  <1> QED
    BY <1>1, <1>2 DEF AmountsIn

LEMMA ElseNext ==
    ASSUME NEW L, NEW k \in Nat, NEW kind, NEW n, ~(L[k + 1].kind = kind /\ L[k + 1].noun = n)
    PROVE  Of(L, kind, n, k + 1) = Of(L, kind, n, k)
  <1>1. 1..(k + 1) = (1..k) \cup {k + 1}
    OBVIOUS
  <1> QED
    BY <1>1 DEF Of

LEMMA SuchNext ==
    ASSUME NEW L, NEW k \in Nat, NEW kind, NEW n, L[k + 1].kind = kind, L[k + 1].noun = n
    PROVE  Of(L, kind, n, k + 1) = Of(L, kind, n, k) \cup {k + 1}
  <1>1. 1..(k + 1) = (1..k) \cup {k + 1}
    OBVIOUS
  <1> QED
    BY <1>1 DEF Of

LEMMA NoBidNext ==
    ASSUME NEW L, NEW k \in Nat, NEW n, ~(L[k + 1].kind = "bid" /\ L[k + 1].noun = n)
    PROVE  AmountsIn(L, n, k + 1) = AmountsIn(L, n, k)
  BY ElseNext DEF AmountsIn

LEMMA OneBidNext ==
    ASSUME NEW L, NEW k \in Nat, NEW n, L[k + 1].kind = "bid", L[k + 1].noun = n
    PROVE  AmountsIn(L, n, k + 1) = AmountsIn(L, n, k) \cup {L[k + 1].amount}
  <1>1. Of(L, "bid", n, k + 1) = Of(L, "bid", n, k) \cup {k + 1}
    BY SuchNext
  <1> QED
    BY <1>1 DEF AmountsIn

LEMMA CreatedTells ==
    ASSUME NEW l, NEW h, Tells(l, h), h.settled,
           NEW n \in Nat, n > h.noun, ~isNounderNoun(n)
    PROVE  Tells(l \o <<[kind |-> "created", noun |-> n]>>, Auction(n))
  <1> DEFINE e == [kind |-> "created", noun |-> n]
             L == l \o <<e>>
             a == Auction(n)
  <1>1. /\ e \in AuctionEvents /\ e.kind = "created" /\ e.noun = n
        /\ e.kind \notin {"bid", "settled", "extended"}
    BY DEF AuctionEvents
  <1>2. l \in Seq(AuctionEvents) /\ h \in NounAuctions
    BY DEF Tells
  <1>3. h.noun \in Nat /\ \A i \in 1..Len(l) : l[i].noun \in Nat /\ l[i].noun <= h.noun
    <2>1. \A i \in 1..Len(l) : l[i].noun \in Nat
      <3>1. \A i \in 1..Len(l) : l[i] \in AuctionEvents
        BY <1>2
      <3> QED
        BY <3>1 DEF AuctionEvents
    <2> QED
      BY <1>2, <2>1 DEF Tells, NounsAscend, NounAuctions
  <1>4. /\ a \in NounAuctions /\ a.noun = n /\ a.amount = 0 /\ a.extensions = 0
        /\ a.settled = FALSE
    BY DEF Auction, NounAuctions
  <1> HIDE DEF e, a
  <1>5. /\ L \in Seq(AuctionEvents)
        /\ Len(L) = Len(l) + 1 /\ Len(l) \in Nat
        /\ L[Len(l) + 1] = e
        /\ \A i \in 1..Len(l) : L[i] = l[i]
    BY <1>1, <1>2, LogGrows
  <1>6. /\ \A m, k : k \in 0..Len(l) => AmountsIn(L, m, k) = AmountsIn(l, m, k)
        /\ AmountsIn(L, n, Len(l) + 1) = AmountsIn(l, n, Len(l))
        /\ \A kind \in {"settled", "extended"} :
               Of(L, kind, n, Len(l) + 1) = Of(l, kind, n, Len(l))
    <2> HIDE DEF L
    <2>1. \A m, k : k \in 0..Len(l) => AmountsIn(L, m, k) = AmountsIn(l, m, k)
      <3> SUFFICES ASSUME NEW m, NEW k \in 0..Len(l)
                   PROVE  AmountsIn(L, m, k) = AmountsIn(l, m, k)
        OBVIOUS
      <3>1. k \in Nat /\ \A i \in 1..k : L[i] = l[i]
        BY <1>5
      <3> QED
        BY <3>1, SameAmounts
    <2>2. AmountsIn(L, n, Len(l) + 1) = AmountsIn(L, n, Len(l))
      BY <1>1, <1>5, NoBidNext
    <2>3. ASSUME NEW kind \in {"settled", "extended"}
          PROVE  Of(L, kind, n, Len(l) + 1) = Of(l, kind, n, Len(l))
      <3>1. PICK k \in Nat : k = Len(l)
        BY <1>5
      <3>2. L[k + 1].kind # kind /\ \A i \in 1..k : L[i] = l[i]
        BY <3>1, <1>1, <1>5
      <3>3. Of(L, kind, n, k + 1) = Of(L, kind, n, k)
        BY <3>2, ElseNext
      <3>4. Of(L, kind, n, k) = Of(l, kind, n, k)
        BY <3>2 DEF Of
      <3> QED
        BY <3>1, <3>3, <3>4
    <2>4. Len(l) \in 0..Len(l)
      BY <1>5
    <2> QED
      BY <2>1, <2>2, <2>3, <2>4
  <1>7. \A kind : Of(l, kind, n, Len(l)) = {}
    BY <1>3 DEF Of
  <1> HIDE DEF L
  <1>8. NounsAscend(L, a)
    <2>1. \A i \in 1..Len(L) : L[i].noun <= a.noun
      BY <1>1, <1>3, <1>4, <1>5
    <2>2. ASSUME NEW j \in 1..Len(L), L[j].kind = "created"
          PROVE  /\ \A i \in 1..Len(L) : i < j => L[i].noun < L[j].noun
                 /\ (\A i \in 1..Len(L) : i > j => L[i].kind # "created") =>
                         L[j].noun = a.noun
      <3>1. CASE j = Len(l) + 1
        BY <3>1, <1>1, <1>3, <1>4, <1>5
      <3>2. CASE j \in 1..Len(l)
        <4>1. L[Len(l) + 1].kind = "created" /\ Len(l) + 1 > j /\ Len(l) + 1 \in 1..Len(L)
          BY <3>2, <1>1, <1>5
        <4>2. L[j] = l[j] /\ \A i \in 1..Len(L) : i < j => i \in 1..Len(l) /\ L[i] = l[i]
          BY <3>2, <1>5
        <4> QED
          BY <2>2, <3>2, <4>1, <4>2 DEF NounsAscend, Tells
      <3> QED
        BY <3>1, <3>2, <1>5
    <2> QED
      BY <2>1, <2>2 DEF NounsAscend
  <1>9. BidsAscend(L, a)
    <2>1. AmountsIn(L, n, Len(L)) = {}
      BY <1>5, <1>6, <1>7 DEF AmountsIn
    <2> QED
      BY <2>1, <1>1, <1>4, <1>5 DEF BidsAscend, Tells
  <1>10. SettledLast(L, a)
    <2>1. ASSUME NEW j \in 1..Len(L), L[j].kind = "settled"
          PROVE  /\ AmountsIn(L, L[j].noun, j) = 1..L[j].amount
                 /\ \A i \in 1..Len(L) : i > j /\ L[i].kind = "bid" => L[i].noun # L[j].noun
                 /\ L[j].noun # n
      <3>1. j \in 1..Len(l) /\ L[j] = l[j] /\ l[j].kind = "settled"
        BY <2>1, <1>1, <1>5
      <3>2. AmountsIn(L, L[j].noun, j) = AmountsIn(l, l[j].noun, j)
        BY <3>1, <1>5, <1>6
      <3>3. L[j].noun # n
        BY <3>1, <1>3
      <3>4. ASSUME NEW i \in 1..Len(L), i > j, L[i].kind = "bid" PROVE L[i].noun # L[j].noun
        <4>1. i \in 1..Len(l) /\ L[i] = l[i]
          BY <3>4, <1>1, <1>5
        <4> QED
          BY <3>1, <3>4, <4>1 DEF Tells, SettledLast
      <3>5. AmountsIn(l, l[j].noun, j) = 1..l[j].amount
        BY <3>1 DEF Tells, SettledLast
      <3> QED
        BY <3>1, <3>2, <3>3, <3>4, <3>5
    <2> QED
      BY <2>1, <1>4 DEF SettledLast
  <1>11. ExtendedLast(L, a)
    BY <1>4, <1>5, <1>6, <1>7 DEF ExtendedLast
  <1>12. Tells(L, a)
    BY <1>4, <1>5, <1>8, <1>9, <1>10, <1>11 DEF Tells
  <1> QED
    BY <1>12 DEF L, a, e

LEMMA BidTells ==
    ASSUME NEW l, NEW h, Tells(l, h), ~h.settled, NEW b \in Nat,
           \/ b = Len(l) + 1
           \/ Len(l) > 0 /\ l[Len(l)].kind = "bid" /\ b = l[Len(l)].block
    PROVE  Tells(l \o <<[kind |-> "bid", noun |-> h.noun, amount |-> h.amount + 1,
                          block |-> b]>>,
                 [h EXCEPT !.amount = h.amount + 1])
  <1> DEFINE e == [kind |-> "bid", noun |-> h.noun, amount |-> h.amount + 1, block |-> b]
             L == l \o <<e>>
             a == [h EXCEPT !.amount = h.amount + 1]
  <1>1. l \in Seq(AuctionEvents) /\ h \in NounAuctions
    BY DEF Tells
  <1>2. h.noun \in Nat /\ h.amount \in Nat
    BY <1>1 DEF NounAuctions
  <1>3. /\ a \in NounAuctions /\ a.noun = h.noun /\ a.amount = h.amount + 1
        /\ a.extensions = h.extensions /\ a.settled = h.settled
    BY <1>1, <1>2 DEF NounAuctions
  <1>4. /\ e \in AuctionEvents /\ e.kind = "bid" /\ e.noun = h.noun
        /\ e.amount = h.amount + 1 /\ e.block = b
    BY <1>2 DEF AuctionEvents
  <1>5. \A i \in 1..Len(l) : l[i] \in AuctionEvents
    BY <1>1
  <1>6. \A i \in 1..Len(l) : l[i].kind = "bid" => l[i].block \in Nat /\ l[i].amount \in Nat
    BY <1>5 DEF AuctionEvents
  <1> HIDE DEF e, a
  <1>7. /\ L \in Seq(AuctionEvents)
        /\ Len(L) = Len(l) + 1 /\ Len(l) \in Nat
        /\ L[Len(l) + 1] = e
        /\ \A i \in 1..Len(l) : L[i] = l[i]
    BY <1>4, <1>1, LogGrows
  <1>8. /\ \A m, k : k \in 0..Len(l) => AmountsIn(L, m, k) = AmountsIn(l, m, k)
        /\ AmountsIn(L, h.noun, Len(l) + 1) = AmountsIn(l, h.noun, Len(l)) \cup {h.amount + 1}
        /\ \A kind \in {"settled", "extended"} :
               Of(L, kind, h.noun, Len(l) + 1) = Of(l, kind, h.noun, Len(l))
    <2> HIDE DEF L
    <2>1. \A m, k : k \in 0..Len(l) => AmountsIn(L, m, k) = AmountsIn(l, m, k)
      <3> SUFFICES ASSUME NEW m, NEW k \in 0..Len(l)
                   PROVE  AmountsIn(L, m, k) = AmountsIn(l, m, k)
        OBVIOUS
      <3>1. k \in Nat /\ \A i \in 1..k : L[i] = l[i]
        BY <1>7
      <3> QED
        BY <3>1, SameAmounts
    <2>2. AmountsIn(L, h.noun, Len(l) + 1) = AmountsIn(L, h.noun, Len(l)) \cup {h.amount + 1}
      <3>1. /\ L[Len(l) + 1].kind = "bid" /\ L[Len(l) + 1].noun = h.noun
            /\ L[Len(l) + 1].amount = h.amount + 1
        BY <1>4, <1>7
      <3>2. PICK k \in Nat : k = Len(l)
        BY <1>7
      <3>3. L[k + 1].kind = "bid" /\ L[k + 1].noun = h.noun
        BY <3>1, <3>2
      <3>4. AmountsIn(L, h.noun, k + 1) = AmountsIn(L, h.noun, k) \cup {L[k + 1].amount}
        BY <3>3, OneBidNext
      <3> QED
        BY <3>1, <3>2, <3>4
    <2>3. ASSUME NEW kind \in {"settled", "extended"}
          PROVE  Of(L, kind, h.noun, Len(l) + 1) = Of(l, kind, h.noun, Len(l))
      <3>1. PICK k \in Nat : k = Len(l)
        BY <1>7
      <3>2. L[k + 1].kind # kind /\ \A i \in 1..k : L[i] = l[i]
        BY <3>1, <1>4, <1>7
      <3>3. Of(L, kind, h.noun, k + 1) = Of(L, kind, h.noun, k)
        BY <3>2, ElseNext
      <3>4. Of(L, kind, h.noun, k) = Of(l, kind, h.noun, k)
        BY <3>2 DEF Of
      <3> QED
        BY <3>1, <3>3, <3>4
    <2>4. Len(l) \in 0..Len(l)
      BY <1>7
    <2> QED
      BY <2>1, <2>2, <2>3, <2>4
  <1> HIDE DEF L
  <1>9. NounsAscend(L, a)
    <2>1. \A i \in 1..Len(L) : L[i].noun <= a.noun
      BY <1>2, <1>3, <1>4, <1>7 DEF NounsAscend, Tells
    <2>2. ASSUME NEW j \in 1..Len(L), L[j].kind = "created"
          PROVE  /\ \A i \in 1..Len(L) : i < j => L[i].noun < L[j].noun
                 /\ (\A i \in 1..Len(L) : i > j => L[i].kind # "created") =>
                         L[j].noun = a.noun
      <3>1. j \in 1..Len(l) /\ L[j] = l[j] /\ l[j].kind = "created"
        BY <2>2, <1>4, <1>7
      <3> QED
        BY <3>1, <1>3, <1>7 DEF NounsAscend, Tells
    <2> QED
      BY <2>1, <2>2 DEF NounsAscend
  <1>10. BidsAscend(L, a)
    <2>1. AmountsIn(L, a.noun, Len(L)) = 1..a.amount
      <3>1. AmountsIn(l, h.noun, Len(l)) = 1..h.amount
        BY DEF Tells, BidsAscend
      <3>2. (1..h.amount) \cup {h.amount + 1} = 1..(h.amount + 1)
        BY <1>2
      <3> QED
        BY <3>1, <3>2, <1>3, <1>7, <1>8
    <2>2. \A i \in 1..Len(l) : l[i].kind = "bid" =>
              /\ l[i].block <= b
              /\ l[i].noun = h.noun => l[i].amount < h.amount + 1
      <3> SUFFICES ASSUME NEW i \in 1..Len(l), l[i].kind = "bid"
                   PROVE  /\ l[i].block <= b
                          /\ l[i].noun = h.noun => l[i].amount < h.amount + 1
        OBVIOUS
      <3>1. l[i].block <= i /\ l[i].block \in Nat /\ l[i].amount \in Nat
        BY <1>6 DEF Tells, BidsAscend
      <3>2. l[i].block <= b
        <4>1. CASE b = Len(l) + 1
          BY <3>1, <4>1, <1>7
        <4>2. CASE Len(l) > 0 /\ l[Len(l)].kind = "bid" /\ b = l[Len(l)].block
          <5>1. CASE i = Len(l)
            BY <3>1, <4>2, <5>1
          <5>2. CASE i < Len(l)
            BY <4>2, <5>2, <1>7 DEF Tells, BidsAscend
          <5> QED
            BY <5>1, <5>2, <1>7
        <4> QED
          BY <4>1, <4>2
      <3>3. ASSUME l[i].noun = h.noun PROVE l[i].amount < h.amount + 1
        <4>1. l[i].amount \in AmountsIn(l, h.noun, Len(l))
          BY <3>3 DEF AmountsIn, Of
        <4>2. l[i].amount \in 1..h.amount
          BY <4>1 DEF Tells, BidsAscend
        <4> QED
          BY <4>2, <1>2
      <3> QED
        BY <3>2, <3>3
    <2>3. b <= Len(l) + 1
      BY <1>7, <1>6 DEF Tells, BidsAscend
    <2>4. ASSUME NEW j \in 1..Len(L), L[j].kind = "bid"
          PROVE  /\ L[j].block <= j
                 /\ \A i \in 1..Len(L) : i < j /\ L[i].kind = "bid" =>
                        /\ L[i].block <= L[j].block
                        /\ L[i].noun = L[j].noun => L[i].amount < L[j].amount
      <3>1. CASE j \in 1..Len(l)
        <4>1. \A i \in 1..Len(L) : i < j => i \in 1..Len(l)
          BY <3>1, <1>7
        <4>2. L[j] = l[j] /\ \A i \in 1..Len(l) : L[i] = l[i]
          BY <3>1, <1>7
        <4> QED
          BY <2>4, <3>1, <4>1, <4>2 DEF Tells, BidsAscend
      <3>2. CASE j = Len(l) + 1
        <4>1. \A i \in 1..Len(L) : i < j => i \in 1..Len(l)
          BY <3>2, <1>7
        <4> QED
          BY <2>2, <2>3, <3>2, <4>1, <1>4, <1>7
      <3> QED
        BY <3>1, <3>2, <1>7
    <2> QED
      BY <2>1, <2>4 DEF BidsAscend
  <1>11. SettledLast(L, a)
    <2>1. ASSUME NEW j \in 1..Len(L), L[j].kind = "settled"
          PROVE  /\ AmountsIn(L, L[j].noun, j) = 1..L[j].amount
                 /\ \A i \in 1..Len(L) : i > j /\ L[i].kind = "bid" => L[i].noun # L[j].noun
                 /\ L[j].noun # h.noun
      <3>1. j \in 1..Len(l) /\ L[j] = l[j] /\ l[j].kind = "settled"
        BY <2>1, <1>4, <1>7
      <3>2. AmountsIn(L, L[j].noun, j) = AmountsIn(l, l[j].noun, j)
        BY <3>1, <1>7, <1>8
      <3>3. L[j].noun # h.noun
        BY <3>1 DEF Tells, SettledLast
      <3>4. ASSUME NEW i \in 1..Len(L), i > j, L[i].kind = "bid" PROVE L[i].noun # L[j].noun
        <4>1. CASE i = Len(l) + 1
          BY <3>3, <4>1, <1>4, <1>7
        <4>2. CASE i \in 1..Len(l)
          <5>1. L[i] = l[i]
            BY <4>2, <1>7
          <5> QED
            BY <3>1, <3>4, <4>2, <5>1 DEF Tells, SettledLast
        <4> QED
          BY <4>1, <4>2, <1>7
      <3> QED
        BY <3>1, <3>2, <3>3, <3>4 DEF Tells, SettledLast
    <2> QED
      BY <2>1, <1>3 DEF SettledLast
  <1>12. ExtendedLast(L, a)
    <2>1. Of(L, "extended", a.noun, Len(L)) = Of(l, "extended", h.noun, Len(l))
      BY <1>3, <1>7, <1>8
    <2>2. \A j \in Of(l, "extended", h.noun, Len(l)) : L[j] = l[j]
      BY <1>7 DEF Of
    <2> QED
      BY <2>1, <2>2, <1>3 DEF ExtendedLast, Tells
  <1>13. Tells(L, a)
    BY <1>3, <1>7, <1>9, <1>10, <1>11, <1>12 DEF Tells
  <1> QED
    BY <1>13 DEF L, a, e

LEMMA ExtendedTells ==
    ASSUME NEW l, NEW h, Tells(l, h), NEW x \in Nat
    PROVE  Tells(l \o <<[kind |-> "extended", noun |-> h.noun, extensions |-> x]>>,
                 [h EXCEPT !.extensions = x])
  <1> DEFINE e == [kind |-> "extended", noun |-> h.noun, extensions |-> x]
             L == l \o <<e>>
             a == [h EXCEPT !.extensions = x]
  <1>1. l \in Seq(AuctionEvents) /\ h \in NounAuctions
    BY DEF Tells
  <1>2. h.noun \in Nat
    BY <1>1 DEF NounAuctions
  <1>3. /\ a \in NounAuctions /\ a.noun = h.noun /\ a.amount = h.amount
        /\ a.extensions = x /\ a.settled = h.settled
    BY <1>1, <1>2 DEF NounAuctions
  <1>4. /\ e \in AuctionEvents /\ e.kind = "extended" /\ e.noun = h.noun
        /\ e.extensions = x
    BY <1>2 DEF AuctionEvents
  <1> HIDE DEF e, a
  <1>5. /\ L \in Seq(AuctionEvents)
        /\ Len(L) = Len(l) + 1 /\ Len(l) \in Nat
        /\ L[Len(l) + 1] = e
        /\ \A i \in 1..Len(l) : L[i] = l[i]
    BY <1>4, <1>1, LogGrows
  <1> HIDE DEF L
  <1>6. PICK k \in Nat : k = Len(l)
    BY <1>5
  <1>7. /\ \A m, j : j \in 0..k => AmountsIn(L, m, j) = AmountsIn(l, m, j)
        /\ AmountsIn(L, h.noun, k + 1) = AmountsIn(l, h.noun, k)
        /\ Of(L, "extended", h.noun, k + 1) = Of(l, "extended", h.noun, k) \cup {k + 1}
        /\ Of(L, "settled", h.noun, k + 1) = Of(l, "settled", h.noun, k)
    <2>1. /\ \A i \in 1..k : L[i] = l[i]
          /\ L[k + 1].kind = "extended" /\ L[k + 1].noun = h.noun
      BY <1>4, <1>5, <1>6
    <2>2. ASSUME NEW m, NEW j \in 0..k PROVE AmountsIn(L, m, j) = AmountsIn(l, m, j)
      <3>1. j \in Nat /\ \A i \in 1..j : L[i] = l[i]
        BY <2>1
      <3> QED
        BY <3>1, SameAmounts
    <2>3. AmountsIn(L, h.noun, k + 1) = AmountsIn(L, h.noun, k)
      BY <2>1, NoBidNext
    <2>4. Of(L, "extended", h.noun, k + 1) = Of(L, "extended", h.noun, k) \cup {k + 1}
      BY <2>1, SuchNext
    <2>5. Of(L, "settled", h.noun, k + 1) = Of(L, "settled", h.noun, k)
      BY <2>1, ElseNext
    <2>6. /\ Of(L, "extended", h.noun, k) = Of(l, "extended", h.noun, k)
          /\ Of(L, "settled", h.noun, k) = Of(l, "settled", h.noun, k)
      BY <2>1 DEF Of
    <2> QED
      BY <2>2, <2>3, <2>4, <2>5, <2>6
  <1>8. NounsAscend(L, a)
    <2>1. \A i \in 1..Len(L) : L[i].noun <= a.noun
      BY <1>2, <1>3, <1>4, <1>5 DEF NounsAscend, Tells
    <2>2. ASSUME NEW j \in 1..Len(L), L[j].kind = "created"
          PROVE  /\ \A i \in 1..Len(L) : i < j => L[i].noun < L[j].noun
                 /\ (\A i \in 1..Len(L) : i > j => L[i].kind # "created") =>
                         L[j].noun = a.noun
      <3>1. j \in 1..Len(l) /\ L[j] = l[j] /\ l[j].kind = "created"
        BY <2>2, <1>4, <1>5
      <3> QED
        BY <3>1, <1>3, <1>5 DEF NounsAscend, Tells
    <2> QED
      BY <2>1, <2>2 DEF NounsAscend
  <1>9. BidsAscend(L, a)
    <2>1. AmountsIn(L, a.noun, Len(L)) = 1..a.amount
      BY <1>3, <1>5, <1>6, <1>7 DEF Tells, BidsAscend
    <2>2. \A j \in 1..Len(L) : L[j].kind = "bid" => j \in 1..Len(l) /\ L[j] = l[j]
      BY <1>4, <1>5
    <2> QED
      BY <2>1, <2>2 DEF Tells, BidsAscend
  <1>10. SettledLast(L, a)
    <2>1. ASSUME NEW j \in 1..Len(L), L[j].kind = "settled"
          PROVE  /\ AmountsIn(L, L[j].noun, j) = 1..L[j].amount
                 /\ \A i \in 1..Len(L) : i > j /\ L[i].kind = "bid" => L[i].noun # L[j].noun
                 /\ L[j].noun = a.noun => a.settled /\ L[j].amount = a.amount
      <3>1. j \in 1..Len(l) /\ L[j] = l[j] /\ l[j].kind = "settled"
        BY <2>1, <1>4, <1>5
      <3>2. AmountsIn(L, L[j].noun, j) = AmountsIn(l, l[j].noun, j)
        BY <3>1, <1>6, <1>7
      <3>3. \A i \in 1..Len(L) : L[i].kind = "bid" => i \in 1..Len(l) /\ L[i] = l[i]
        BY <1>4, <1>5
      <3> QED
        BY <3>1, <3>2, <3>3, <1>3 DEF Tells, SettledLast
    <2> QED
      BY <2>1, <1>3, <1>5, <1>6, <1>7 DEF SettledLast, Tells
  <1>11. ExtendedLast(L, a)
    <2>1. Of(L, "extended", a.noun, Len(L)) = Of(l, "extended", h.noun, k) \cup {k + 1}
      BY <1>3, <1>5, <1>6, <1>7
    <2>2. \A j \in Of(l, "extended", h.noun, k) : j \in Nat /\ j < k + 1
      BY DEF Of
    <2>3. L[k + 1].extensions = a.extensions
      BY <1>3, <1>4, <1>5, <1>6
    <2>4. k + 1 \in Of(L, "extended", a.noun, Len(L))
      BY <2>1
    <2>5. ASSUME NEW j \in Of(L, "extended", a.noun, Len(L)),
                 \A i \in Of(L, "extended", a.noun, Len(L)) : i <= j
          PROVE  L[j].extensions = a.extensions
      <3>1. k + 1 <= j
        BY <2>4, <2>5
      <3>2. j = k + 1
        BY <2>1, <2>2, <2>5, <3>1
      <3> QED
        BY <2>3, <3>2
    <2> QED
      BY <2>1, <2>5 DEF ExtendedLast
  <1>12. Tells(L, a)
    BY <1>3, <1>5, <1>8, <1>9, <1>10, <1>11 DEF Tells
  <1> QED
    BY <1>12 DEF L, a, e

LEMMA SettledTells ==
    ASSUME NEW l, NEW h, Tells(l, h), ~h.settled
    PROVE  Tells(l \o <<[kind |-> "settled", noun |-> h.noun, amount |-> h.amount]>>,
                 [h EXCEPT !.settled = TRUE])
  <1> DEFINE e == [kind |-> "settled", noun |-> h.noun, amount |-> h.amount]
             L == l \o <<e>>
             a == [h EXCEPT !.settled = TRUE]
  <1>1. l \in Seq(AuctionEvents) /\ h \in NounAuctions
    BY DEF Tells
  <1>2. h.noun \in Nat /\ h.amount \in Nat
    BY <1>1 DEF NounAuctions
  <1>3. /\ a \in NounAuctions /\ a.noun = h.noun /\ a.amount = h.amount
        /\ a.extensions = h.extensions /\ a.settled = TRUE
    BY <1>1, <1>2 DEF NounAuctions
  <1>4. /\ e \in AuctionEvents /\ e.kind = "settled" /\ e.noun = h.noun
        /\ e.amount = h.amount
    BY <1>2 DEF AuctionEvents
  <1> HIDE DEF e, a
  <1>5. /\ L \in Seq(AuctionEvents)
        /\ Len(L) = Len(l) + 1 /\ Len(l) \in Nat
        /\ L[Len(l) + 1] = e
        /\ \A i \in 1..Len(l) : L[i] = l[i]
    BY <1>4, <1>1, LogGrows
  <1> HIDE DEF L
  <1>6. PICK k \in Nat : k = Len(l)
    BY <1>5
  <1>7. /\ \A m, j : j \in 0..k => AmountsIn(L, m, j) = AmountsIn(l, m, j)
        /\ AmountsIn(L, h.noun, k + 1) = AmountsIn(l, h.noun, k)
        /\ Of(L, "settled", h.noun, k + 1) = Of(l, "settled", h.noun, k) \cup {k + 1}
        /\ Of(L, "extended", h.noun, k + 1) = Of(l, "extended", h.noun, k)
    <2>1. /\ \A i \in 1..k : L[i] = l[i]
          /\ L[k + 1].kind = "settled" /\ L[k + 1].noun = h.noun
      BY <1>4, <1>5, <1>6
    <2>2. ASSUME NEW m, NEW j \in 0..k PROVE AmountsIn(L, m, j) = AmountsIn(l, m, j)
      <3>1. j \in Nat /\ \A i \in 1..j : L[i] = l[i]
        BY <2>1
      <3> QED
        BY <3>1, SameAmounts
    <2>3. AmountsIn(L, h.noun, k + 1) = AmountsIn(L, h.noun, k)
      BY <2>1, NoBidNext
    <2>4. Of(L, "settled", h.noun, k + 1) = Of(L, "settled", h.noun, k) \cup {k + 1}
      BY <2>1, SuchNext
    <2>5. Of(L, "extended", h.noun, k + 1) = Of(L, "extended", h.noun, k)
      BY <2>1, ElseNext
    <2>6. /\ Of(L, "extended", h.noun, k) = Of(l, "extended", h.noun, k)
          /\ Of(L, "settled", h.noun, k) = Of(l, "settled", h.noun, k)
      BY <2>1 DEF Of
    <2> QED
      BY <2>2, <2>3, <2>4, <2>5, <2>6
  <1>8. NounsAscend(L, a)
    <2>1. \A i \in 1..Len(L) : L[i].noun <= a.noun
      BY <1>2, <1>3, <1>4, <1>5 DEF NounsAscend, Tells
    <2>2. ASSUME NEW j \in 1..Len(L), L[j].kind = "created"
          PROVE  /\ \A i \in 1..Len(L) : i < j => L[i].noun < L[j].noun
                 /\ (\A i \in 1..Len(L) : i > j => L[i].kind # "created") =>
                         L[j].noun = a.noun
      <3>1. j \in 1..Len(l) /\ L[j] = l[j] /\ l[j].kind = "created"
        BY <2>2, <1>4, <1>5
      <3> QED
        BY <3>1, <1>3, <1>5 DEF NounsAscend, Tells
    <2> QED
      BY <2>1, <2>2 DEF NounsAscend
  <1>9. BidsAscend(L, a)
    <2>1. AmountsIn(L, a.noun, Len(L)) = 1..a.amount
      BY <1>3, <1>5, <1>6, <1>7 DEF Tells, BidsAscend
    <2>2. \A j \in 1..Len(L) : L[j].kind = "bid" => j \in 1..Len(l) /\ L[j] = l[j]
      BY <1>4, <1>5
    <2> QED
      BY <2>1, <2>2 DEF Tells, BidsAscend
  <1>10. SettledLast(L, a)
    <2>1. ASSUME NEW j \in 1..Len(L), L[j].kind = "settled"
          PROVE  /\ AmountsIn(L, L[j].noun, j) = 1..L[j].amount
                 /\ \A i \in 1..Len(L) : i > j /\ L[i].kind = "bid" => L[i].noun # L[j].noun
                 /\ L[j].noun = a.noun => L[j].amount = a.amount
      <3>1. CASE j = k + 1
        <4>1. L[j].noun = h.noun /\ L[j].amount = h.amount /\ Len(L) = k + 1
          BY <3>1, <1>4, <1>5, <1>6
        <4>2. AmountsIn(L, h.noun, k + 1) = 1..h.amount
          BY <1>6, <1>7 DEF Tells, BidsAscend
        <4> QED
          BY <3>1, <4>1, <4>2, <1>3
      <3>2. CASE j \in 1..k
        <4>1. L[j] = l[j] /\ j \in 1..Len(l) /\ l[j].kind = "settled"
          BY <2>1, <3>2, <1>5, <1>6
        <4>2. AmountsIn(L, L[j].noun, j) = AmountsIn(l, l[j].noun, j)
          BY <3>2, <4>1, <1>7
        <4>3. \A i \in 1..Len(L) : L[i].kind = "bid" => i \in 1..Len(l) /\ L[i] = l[i]
          BY <1>4, <1>5
        <4> QED
          BY <4>1, <4>2, <4>3, <1>3 DEF Tells, SettledLast
      <3> QED
        BY <3>1, <3>2, <1>5, <1>6
    <2> QED
      BY <2>1, <1>3, <1>5, <1>6, <1>7 DEF SettledLast
  <1>11. ExtendedLast(L, a)
    <2>1. Of(L, "extended", a.noun, Len(L)) = Of(l, "extended", h.noun, Len(l))
      BY <1>3, <1>5, <1>6, <1>7
    <2>2. \A j \in Of(l, "extended", h.noun, Len(l)) : L[j] = l[j]
      BY <1>5 DEF Of
    <2> QED
      BY <2>1, <2>2, <1>3 DEF ExtendedLast, Tells
  <1>12. Tells(L, a)
    BY <1>3, <1>5, <1>8, <1>9, <1>10, <1>11 DEF Tells
  <1> QED
    BY <1>12 DEF L, a, e

LEMMA LogStarts == AuctionPageInit => Tells(log, house)
  <1> SUFFICES ASSUME AuctionPageInit PROVE Tells(log, house)
    OBVIOUS
  <1>1. log = <<[kind |-> "created", noun |-> 1]>> /\ house = Auction(1)
    BY DEF AuctionPageInit
  <1>2. /\ log \in Seq(AuctionEvents) /\ Len(log) = 1
        /\ log[1].kind = "created" /\ log[1].noun = 1
    <2>1. [kind |-> "created", noun |-> 1] \in AuctionEvents
      BY DEF AuctionEvents
    <2> QED
      BY <1>1, <2>1
  <1>3. /\ house \in NounAuctions /\ house.noun = 1 /\ house.amount = 0
        /\ house.extensions = 0 /\ house.settled = FALSE
    BY <1>1 DEF Auction, NounAuctions
  <1>4. ~isNounderNoun(house.noun)
    <2>1. RewardEvery \in Nat /\ RewardEvery > 1
      BY WebAuctionAssumption
    <2>2. 1 % RewardEvery # 0
      BY <2>1
    <2> QED
      BY <2>2, <1>3 DEF isNounderNoun
  <1>5. AmountsIn(log, house.noun, Len(log)) = {}
    BY <1>2, <1>3 DEF AmountsIn, Of
  <1>6. \A i \in 1..Len(log) : i = 1
    BY <1>2
  <1>7. NounsAscend(log, house)
    BY <1>2, <1>3, <1>6 DEF NounsAscend
  <1>8. BidsAscend(log, house)
    BY <1>2, <1>3, <1>5, <1>6 DEF BidsAscend
  <1>9. SettledLast(log, house) /\ ExtendedLast(log, house)
    BY <1>2, <1>3, <1>6 DEF SettledLast, ExtendedLast, Of
  <1> QED
    BY <1>2, <1>3, <1>4, <1>7, <1>8, <1>9 DEF Tells

\* What the auction house emits, one of its steps at a time.
LEMMA BidEmits ==
    ASSUME Tells(log, house), NEW extended \in BOOLEAN, NEW sameBlock \in BOOLEAN,
           Bid(extended, sameBlock)
    PROVE  /\ Tells(log', house')
           /\ \A i \in 1..Len(log) : log'[i] = log[i]
           /\ Len(log') \in {Len(log) + 1, Len(log) + 2}
           /\ \A i \in Len(log) + 1..Len(log') : log'[i].kind # "created"
           /\ log'[Len(log) + 1].kind = "bid" /\ log'[Len(log) + 1].noun = house.noun
           /\ log'[Len(log) + 1].amount = house.amount + 1
           /\ house'.noun = house.noun /\ house'.amount = house.amount + 1
           /\ house'.settled = house.settled
           /\ \/ house'.extensions = house.extensions
              \/ /\ Len(log') = Len(log) + 2 /\ (~Heard("extended") => missed')
                 /\ log'[Len(log) + 2].kind = "extended"
                 /\ log'[Len(log) + 2].noun = house.noun
           /\ ~Heard("bid") => missed'
           /\ missed => missed'
           /\ UNCHANGED <<phase, found, next, blocks, active, bids, last, onDisplay,
                          past, path>>
  <1> DEFINE b == IF sameBlock THEN log[Len(log)].block ELSE Len(log) + 1
             e == [kind |-> "bid", noun |-> house.noun, amount |-> house.amount + 1,
                   block |-> b]
             x == house.extensions + (IF extended THEN 1 ELSE 0)
             f == [kind |-> "extended", noun |-> house.noun, extensions |-> x]
             h == [house EXCEPT !.amount = house.amount + 1]
             l == log \o <<e>>
             events == <<e>> \o IF extended THEN <<f>> ELSE <<>>
  <1>1. /\ ~house.settled
        /\ sameBlock => log[Len(log)].kind = "bid"
        /\ house' = [house EXCEPT !.amount = house.amount + 1, !.extensions = x]
        /\ log' = log \o events
        /\ missed' = (missed \/ \E i \in 1..Len(events) : ~Heard(events[i].kind))
        /\ UNCHANGED <<phase, found, next, blocks, active, bids, last, onDisplay,
                       past, path>>
    BY DEF Bid, Emit
  <1>2. /\ log \in Seq(AuctionEvents) /\ house \in NounAuctions /\ Len(log) \in Nat
        /\ house.noun \in Nat /\ house.amount \in Nat /\ house.extensions \in Nat
    BY DEF Tells, NounAuctions
  <1>3. Len(log) > 0 /\ \A i \in 1..Len(log) : log[i] \in AuctionEvents
    BY <1>2 DEF Tells
  <1>4. b \in Nat
    <2>1. CASE sameBlock
      <3>1. log[Len(log)] \in AuctionEvents /\ log[Len(log)].kind = "bid"
        BY <2>1, <1>1, <1>2, <1>3
      <3> QED
        BY <3>1, <2>1 DEF AuctionEvents
    <2>2. CASE ~sameBlock
      BY <2>2, <1>2
    <2> QED
      BY <2>1, <2>2
  <1>5. Tells(l, h)
    <2>1. \/ b = Len(log) + 1
          \/ Len(log) > 0 /\ log[Len(log)].kind = "bid" /\ b = log[Len(log)].block
      BY <1>1, <1>3
    <2> HIDE DEF b
    <2> QED
      BY <1>1, <1>4, <2>1, BidTells
  <1>6. /\ h.noun = house.noun /\ h.amount = house.amount + 1
        /\ h.extensions = house.extensions /\ h.settled = house.settled
        /\ h \in NounAuctions
    BY <1>2 DEF NounAuctions
  <1>7. e \in AuctionEvents /\ f \in AuctionEvents
    <2>1. x \in Nat
      BY <1>2
    <2> HIDE DEF b, x
    <2> QED
      BY <1>2, <1>4, <2>1 DEF AuctionEvents
  <1>8. /\ e.kind = "bid" /\ e.noun = house.noun /\ e.amount = house.amount + 1
        /\ f.kind = "extended" /\ f.noun = house.noun
    OBVIOUS
  <1>9. /\ l \in Seq(AuctionEvents) /\ Len(l) = Len(log) + 1 /\ l[Len(log) + 1] = e
        /\ \A i \in 1..Len(log) : l[i] = log[i]
    <2> HIDE DEF e
    <2> QED
      BY <1>2, <1>7, LogGrows
  <1>10. CASE ~extended
    <2>1. events = <<e>> \o <<>> /\ x = house.extensions
      BY <1>10, <1>2
    <2>2. events = <<e>> /\ Len(events) = 1 /\ events[1] = e
      <3>1. <<e>> \in Seq(AuctionEvents)
        <4> HIDE DEF e
        <4> QED
          BY <1>7
      <3>2. <<e>> \o <<>> = <<e>>
        <4> HIDE DEF e
        <4> QED
          BY <3>1, ConcatEmptySeq
      <3> HIDE DEF e, events
      <3> QED
        BY <2>1, <3>2
    <2>3. log' = l /\ house' = h
      BY <1>1, <1>2, <2>1, <2>2 DEF NounAuctions
    <2> HIDE DEF h, l, e, f, x, b, events
    <2>4. ~Heard("bid") => missed'
      <3>1. 1 \in 1..Len(events) /\ events[1].kind = "bid"
        BY <1>8, <2>2
      <3> QED
        BY <1>1, <3>1 DEF Heard
    <2>5. \A i \in Len(log) + 1..Len(log') : i = Len(log) + 1 /\ log'[i] = e
      BY <1>2, <1>9, <2>3
    <2>6. Tells(log', house')
      BY <1>5, <2>3
    <2>7. /\ \A i \in 1..Len(log) : log'[i] = log[i]
          /\ Len(log') = Len(log) + 1 /\ log'[Len(log) + 1] = e
      BY <1>9, <2>3
    <2>8. /\ house'.noun = house.noun /\ house'.amount = house.amount + 1
          /\ house'.settled = house.settled /\ house'.extensions = house.extensions
      BY <1>6, <2>3
    <2>9. missed => missed'
      BY <1>1
    <2>10. \A i \in Len(log) + 1..Len(log') : log'[i].kind # "created"
      BY <1>8, <2>5
    <2> QED
      BY <1>1, <1>8, <2>4, <2>6, <2>7, <2>8, <2>9, <2>10
  <1>11. CASE extended
    <2>1. events = <<e>> \o <<f>> /\ x \in Nat
      BY <1>11, <1>2
    <2>2. Len(events) = 2 /\ events[1] = e /\ events[2] = f
      <3> HIDE DEF e, f
      <3> QED
        BY <2>1, <1>7
    <2>3. log' = l \o <<f>>
      <3>1. <<e>> \in Seq(AuctionEvents) /\ <<f>> \in Seq(AuctionEvents)
        <4> HIDE DEF e, f
        <4> QED
          BY <1>7
      <3> HIDE DEF e, f
      <3>2. log \o (<<e>> \o <<f>>) = (log \o <<e>>) \o <<f>>
        BY <1>2, <3>1, ConcatAssociative
      <3> QED
        BY <1>1, <2>1, <3>2
    <2>4. house' = [h EXCEPT !.extensions = x]
      BY <1>1, <1>2 DEF NounAuctions
    <2>5. Tells(log', house')
      <3>1. f = [kind |-> "extended", noun |-> h.noun, extensions |-> x]
        BY <1>6
      <3> HIDE DEF h, l, x
      <3> QED
        BY <1>5, <2>1, <2>3, <2>4, <3>1, ExtendedTells
    <2>6. /\ house'.noun = house.noun /\ house'.amount = house.amount + 1
          /\ house'.settled = house.settled
      BY <1>2, <2>4 DEF NounAuctions
    <2> HIDE DEF h, l, e, f, x, b, events
    <2>7. /\ Len(log') = Len(log) + 2 /\ log'[Len(log) + 2] = f
          /\ \A i \in 1..Len(log) + 1 : log'[i] = l[i]
      BY <1>2, <1>7, <1>9, <2>3, LogGrows
    <2>8. (~Heard("bid") => missed') /\ (~Heard("extended") => missed')
      <3>1. /\ 1 \in 1..Len(events) /\ events[1].kind = "bid"
            /\ 2 \in 1..Len(events) /\ events[2].kind = "extended"
        BY <1>8, <2>2
      <3> QED
        BY <1>1, <3>1 DEF Heard
    <2>9. /\ \A i \in 1..Len(log) : log'[i] = log[i]
          /\ log'[Len(log) + 1] = e
      BY <1>2, <1>9, <2>7
    <2>10. \A i \in Len(log) + 1..Len(log') : log'[i] = e \/ log'[i] = f
      <3>1. \A i \in Len(log) + 1..Len(log') : i = Len(log) + 1 \/ i = Len(log) + 2
        BY <1>2, <2>7
      <3> QED
        BY <2>7, <2>9, <3>1
    <2>11. missed => missed'
      BY <1>1
    <2>12. \A i \in Len(log) + 1..Len(log') : log'[i].kind # "created"
      BY <1>8, <2>10
    <2> QED
      BY <1>1, <1>8, <2>5, <2>6, <2>7, <2>8, <2>9, <2>11, <2>12
  <1> QED
    BY <1>10, <1>11

LEMMA SettleEmits ==
    ASSUME Tells(log, house), Settle
    PROVE  /\ Tells(log', house')
           /\ \A i \in 1..Len(log) : log'[i] = log[i]
           /\ Len(log') = Len(log) + 1
           /\ log'[Len(log) + 1].kind = "settled" /\ log'[Len(log) + 1].noun = house.noun
           /\ house'.noun = house.noun /\ house'.amount = house.amount
           /\ house'.settled = TRUE /\ house'.extensions = house.extensions
           /\ ~Heard("settled") => missed'
           /\ missed => missed'
           /\ UNCHANGED <<phase, found, next, blocks, active, bids, last, onDisplay,
                          past, path>>
  <1> DEFINE e == [kind |-> "settled", noun |-> house.noun, amount |-> house.amount]
             h == [house EXCEPT !.settled = TRUE]
  <1>1. /\ ~house.settled /\ house' = h
        /\ log' = log \o <<e>>
        /\ missed' = (missed \/ \E i \in 1..Len(<<e>>) : ~Heard(<<e>>[i].kind))
        /\ UNCHANGED <<phase, found, next, blocks, active, bids, last, onDisplay,
                       past, path>>
    BY DEF Settle, Emit
  <1>2. /\ log \in Seq(AuctionEvents) /\ house \in NounAuctions /\ Len(log) \in Nat
        /\ house.noun \in Nat /\ house.amount \in Nat
    BY DEF Tells, NounAuctions
  <1>3. Tells(log', house')
    BY <1>1, SettledTells
  <1>4. /\ h.noun = house.noun /\ h.amount = house.amount
        /\ h.extensions = house.extensions /\ h.settled = TRUE
    BY <1>2 DEF NounAuctions
  <1>5. e \in AuctionEvents /\ e.kind = "settled" /\ e.noun = house.noun
    BY <1>2 DEF AuctionEvents
  <1> HIDE DEF e, h
  <1>6. Len(<<e>>) = 1 /\ <<e>>[1] = e
    OBVIOUS
  <1>7. ~Heard("settled") => missed'
    <2>1. 1 \in 1..Len(<<e>>) /\ <<e>>[1].kind = "settled"
      BY <1>5, <1>6
    <2> QED
      BY <1>1, <2>1 DEF Heard
  <1>8. /\ Len(log') = Len(log) + 1 /\ log'[Len(log) + 1] = e
        /\ \A i \in 1..Len(log) : log'[i] = log[i]
    BY <1>1, <1>2, <1>5, LogGrows
  <1> QED
    BY <1>1, <1>3, <1>4, <1>5, <1>7, <1>8

LEMMA CreateEmits ==
    ASSUME Tells(log, house), Create
    PROVE  /\ Tells(log', house')
           /\ \A i \in 1..Len(log) : log'[i] = log[i]
           /\ Len(log') = Len(log) + 1
           /\ log'[Len(log) + 1].kind = "created"
           /\ house'.noun > house.noun
           /\ ~Heard("created") => missed'
           /\ missed => missed'
           /\ UNCHANGED <<phase, found, next, blocks, active, bids, last, onDisplay,
                          past, path>>
  <1>1. PICK n : /\ n = IF isNounderNoun(house.noun + 1) THEN house.noun + 2 ELSE house.noun + 1
                 /\ house.settled
                 /\ Emit(Auction(n), <<[kind |-> "created", noun |-> n]>>)
    BY DEF Create
  <1> DEFINE e == [kind |-> "created", noun |-> n]
  <1>2. /\ house' = Auction(n) /\ log' = log \o <<e>>
        /\ missed' = (missed \/ \E i \in 1..Len(<<e>>) : ~Heard(<<e>>[i].kind))
        /\ UNCHANGED <<phase, found, next, blocks, active, bids, last, onDisplay,
                       past, path>>
    BY <1>1 DEF Emit
  <1>3. /\ log \in Seq(AuctionEvents) /\ house \in NounAuctions /\ Len(log) \in Nat
        /\ house.noun \in Nat
    BY DEF Tells, NounAuctions
  <1>4. n \in Nat /\ n > house.noun /\ ~isNounderNoun(n)
    <2>1. RewardEvery \in Nat /\ RewardEvery > 1
      BY WebAuctionAssumption
    <2>2. ASSUME NEW m \in Nat, NEW k \in Nat, k > 1, m % k = 0 PROVE (m + 1) % k # 0
      BY <2>2
    <2>3. CASE isNounderNoun(house.noun + 1)
      <3>1. n = (house.noun + 1) + 1 /\ house.noun + 1 \in Nat
        BY <2>3, <1>1, <1>3
      <3>2. n % RewardEvery # 0
        BY <2>1, <2>2, <2>3, <3>1 DEF isNounderNoun
      <3> QED
        BY <1>3, <3>1, <3>2 DEF isNounderNoun
    <2>4. CASE ~isNounderNoun(house.noun + 1)
      BY <1>1, <1>3, <2>4
    <2> QED
      BY <2>3, <2>4
  <1>5. Tells(log', house')
    BY <1>1, <1>2, <1>4, CreatedTells
  <1>6. house'.noun = n
    BY <1>2 DEF Auction
  <1>7. e \in AuctionEvents /\ e.kind = "created"
    BY <1>4 DEF AuctionEvents
  <1> HIDE DEF e
  <1>8. Len(<<e>>) = 1 /\ <<e>>[1] = e
    OBVIOUS
  <1>9. ~Heard("created") => missed'
    <2>1. 1 \in 1..Len(<<e>>) /\ <<e>>[1].kind = "created"
      BY <1>7, <1>8
    <2> QED
      BY <1>2, <2>1 DEF Heard
  <1>10. /\ Len(log') = Len(log) + 1 /\ log'[Len(log) + 1] = e
         /\ \A i \in 1..Len(log) : log'[i] = log[i]
    BY <1>2, <1>3, <1>7, LogGrows
  <1> QED
    BY <1>2, <1>4, <1>5, <1>6, <1>7, <1>9, <1>10

-----------------------------------------------------------------------------
(* The store and what is displayed.                                        *)

LEMMA HighestExists ==
    ASSUME NEW k \in Nat, NEW S, S \subseteq 0..k, S # {}
    PROVE  HighestOf(S) \in S /\ \A y \in S : y <= HighestOf(S)
  <1> DEFINE R == OpToRel(<, Nat)
             T == {k - x : x \in S}
  <1>1. T \subseteq Nat /\ T # {}
    <2>1. PICK x \in S : x \in 0..k
      OBVIOUS
    <2>2. k - x \in T
      OBVIOUS
    <2>3. \A z \in S : k - z \in Nat
      OBVIOUS
    <2> QED
      BY <2>2, <2>3
  <1>2. PICK m \in T : \A d \in T : ~(<<d, m>> \in R)
    <2> HIDE DEF R, T
    <2> QED
      BY <1>1, NatLessThanWellFounded, WFMin DEF R
  <1>3. \A d \in T : <<d, m>> \in R <=> d < m
    BY <1>1 DEF OpToRel
  <1>4. PICK x \in S : m = k - x
    OBVIOUS
  <1>5. \A y \in S : k - y \in T
    OBVIOUS
  <1> HIDE DEF R, T
  <1>6. \A y \in S : y <= x
    <2>1. \A y \in S : ~(k - y < k - x)
      BY <1>2, <1>3, <1>4, <1>5
    <2>2. \A y \in S : y \in Nat /\ x \in Nat
      OBVIOUS
    <2> QED
      BY <2>1, <2>2
  <1> QED
    BY <1>6 DEF HighestOf

NounOrNone == Nat \cup {Null}

ViewInv ==
    /\ path \in NounOrNone /\ onDisplay \in NounOrNone /\ last \in NounOrNone
    /\ past # Null => past \in 0..Len(log)

\* No noun is displayed that does not exist.
Displayed == onDisplay # Null => onDisplay <= house.noun

\* An event of the current auction is still to be delivered.
Coming(kind) == \E i \in next..Len(log) : log[i].kind = kind /\ log[i].noun = house.noun

\* What loadState has fetched, before the events are listened to.
Loaded ==
    /\ active \in NounAuctions
    /\ active.noun = house.noun /\ last = house.noun
    /\ active.settled = house.settled /\ active.extensions = house.extensions
    /\ active.amount <= house.amount

\* The store has the current auction but for what is still to come.
Stored ==
    /\ active \in NounAuctions
    /\ active.noun = house.noun /\ last = house.noun
    /\ active.settled = house.settled \/ Coming("settled")
    /\ active.extensions = house.extensions \/ Coming("extended")
    /\ active.amount <= house.amount /\ bids \subseteq 1..active.amount
    /\ \A amount \in 1..house.amount :
           \/ amount \in bids
           \/ \E i \in blocks \cup (next..Len(log)) :
                  log[i].kind = "bid" /\ log[i].noun = house.noun /\ log[i].amount = amount

\* The store is about the current auction once the event of its creation was delivered.
Announced == \A i \in next..Len(log) : log[i].kind # "created"

LoadInv ==
    /\ phase \in {"fetch", "query", "subscribe", "live", "failed"}
    /\ phase = "fetch" => last = Null /\ Displayed
    /\ phase \in {"fetch", "query", "subscribe"} => bids = {} /\ blocks = {}
    /\ phase \in {"query", "subscribe"} /\ ~missed => Loaded /\ Displayed
    /\ phase = "subscribe" => found \in 0..Len(log) /\ (~missed => found = Len(log))

LiveInv ==
    phase = "live" =>
        /\ next \in 1..Len(log) + 1
        /\ \A i \in blocks : i \in 1..next - 1 /\ log[i].kind = "bid"
        /\ ~missed /\ Announced => Stored /\ Displayed

AuctionInv == Tells(log, house) /\ ViewInv /\ LoadInv /\ LiveInv

LEMMA AuctionStarts == AuctionPageInit => AuctionInv
  <1> SUFFICES ASSUME AuctionPageInit PROVE AuctionInv
    OBVIOUS
  <1>1. Links \subseteq Nat
    BY WebAuctionAssumption
  <1> QED
    BY <1>1, LogStarts
       DEF AuctionPageInit, AuctionInv, ViewInv, LoadInv, LiveInv, NounOrNone, Displayed

LEMMA LogTyped ==
    ASSUME Tells(log, house)
    PROVE  /\ house.noun \in Nat /\ house.amount \in Nat /\ house.extensions \in Nat
           /\ house.settled \in BOOLEAN /\ Len(log) \in Nat /\ house \in NounAuctions
           /\ \A i \in 1..Len(log) :
                  /\ log[i].noun \in Nat /\ log[i].noun <= house.noun
                  /\ log[i].kind = "bid" =>
                         log[i].amount \in Nat /\ log[i].block \in Nat
                  /\ log[i].kind = "settled" => log[i].amount \in Nat
                  /\ log[i].kind = "extended" => log[i].extensions \in Nat
  <1>1. log \in Seq(AuctionEvents) /\ house \in NounAuctions
    BY DEF Tells
  <1>2. \A i \in 1..Len(log) : log[i] \in AuctionEvents
    BY <1>1
  <1>3. \A i \in 1..Len(log) : log[i].noun <= house.noun
    BY DEF Tells, NounsAscend
  <1> QED
    BY <1>1, <1>2, <1>3 DEF AuctionEvents, NounAuctions

LEMMA BidKeepsStore ==
    ASSUME AuctionInv, NEW extended \in BOOLEAN, NEW sameBlock \in BOOLEAN,
           Bid(extended, sameBlock)
    PROVE  AuctionInv'
  <1>0. Tells(log, house)
    BY DEF AuctionInv
  <1>1. /\ Tells(log', house')
        /\ \A i \in 1..Len(log) : log'[i] = log[i]
        /\ Len(log') \in {Len(log) + 1, Len(log) + 2}
        /\ \A i \in Len(log) + 1..Len(log') : log'[i].kind # "created"
        /\ log'[Len(log) + 1].kind = "bid" /\ log'[Len(log) + 1].noun = house.noun
        /\ log'[Len(log) + 1].amount = house.amount + 1
        /\ house'.noun = house.noun /\ house'.amount = house.amount + 1
        /\ house'.settled = house.settled
    BY <1>0, BidEmits
  <1>2. /\ \/ house'.extensions = house.extensions
           \/ /\ Len(log') = Len(log) + 2 /\ (~Heard("extended") => missed')
              /\ log'[Len(log) + 2].kind = "extended"
              /\ log'[Len(log) + 2].noun = house.noun
        /\ ~Heard("bid") => missed'
        /\ missed => missed'
        /\ UNCHANGED <<phase, found, next, blocks, active, bids, last, onDisplay,
                       past, path>>
    BY <1>0, BidEmits
  <1>3. /\ house.noun \in Nat /\ house.amount \in Nat /\ Len(log) \in Nat
        /\ Len(log') \in Nat
    BY <1>0, <1>1, LogTyped
  <1>4. ViewInv'
    BY <1>1, <1>2, <1>3 DEF AuctionInv, ViewInv
  <1>5. Displayed => Displayed'
    BY <1>1, <1>2 DEF Displayed
  <1>6. LoadInv'
    <2>1. ASSUME phase \in {"query", "subscribe"}, ~missed' PROVE Loaded' /\ Displayed'
      <3>1. Loaded /\ Displayed
        BY <2>1, <1>2 DEF AuctionInv, LoadInv
      <3>2. house'.extensions = house.extensions
        <4>1. ~Heard("extended")
          BY <2>1 DEF Heard
        <4> QED
          BY <2>1, <4>1, <1>2
      <3>3. active.amount \in Nat
        BY <3>1 DEF Loaded, NounAuctions
      <3> QED
        BY <3>1, <3>2, <3>3, <1>1, <1>2, <1>3, <1>5 DEF Loaded
    <2>2. ASSUME phase = "subscribe" PROVE found' \in 0..Len(log') /\ missed'
      BY <2>2, <1>1, <1>2, <1>3 DEF AuctionInv, LoadInv, Heard
    <2> QED
      BY <2>1, <2>2, <1>2, <1>5 DEF AuctionInv, LoadInv
  <1>7. LiveInv'
    <2> SUFFICES ASSUME phase = "live"
                 PROVE  /\ next \in 1..Len(log') + 1
                        /\ \A i \in blocks : i \in 1..next - 1 /\ log'[i].kind = "bid"
                        /\ ~missed' /\ Announced' => Stored' /\ Displayed'
      BY <1>2 DEF LiveInv
    <2>1. /\ next \in 1..Len(log) + 1
          /\ \A i \in blocks : i \in 1..next - 1 /\ log[i].kind = "bid"
          /\ ~missed /\ Announced => Stored /\ Displayed
      BY DEF AuctionInv, LiveInv
    <2>2. \A i \in blocks : i \in 1..Len(log)
      BY <2>1, <1>3
    <2>3. ASSUME ~missed', Announced' PROVE Stored' /\ Displayed'
      <3>1. Announced
        BY <2>1, <2>3, <1>1, <1>2, <1>3 DEF Announced
      <3>2. Stored /\ Displayed
        BY <2>1, <2>3, <3>1, <1>2
      <3>3. \A i \in next..Len(log) : i \in next'..Len(log') /\ log'[i] = log[i]
        BY <2>1, <1>1, <1>2, <1>3
      <3>4. active.settled = house'.settled \/ Coming("settled")'
        BY <3>2, <3>3, <1>1 DEF Stored, Coming
      <3>5. active.extensions = house'.extensions \/ Coming("extended")'
        <4>1. CASE house'.extensions = house.extensions
          BY <4>1, <3>2, <3>3, <1>1 DEF Stored, Coming
        <4>2. CASE house'.extensions # house.extensions
          <5>1. /\ Len(log') = Len(log) + 2 /\ log'[Len(log) + 2].kind = "extended"
                /\ log'[Len(log) + 2].noun = house'.noun
            BY <4>2, <1>1, <1>2
          <5>2. Len(log) + 2 \in next'..Len(log')
            BY <5>1, <2>1, <1>2, <1>3
          <5> QED
            BY <5>1, <5>2 DEF Coming
        <4> QED
          BY <4>1, <4>2
      <3>6. active.amount <= house'.amount
        <4>1. active.amount \in Nat /\ active.amount <= house.amount
          BY <3>2 DEF Stored, NounAuctions
        <4> QED
          BY <4>1, <1>1, <1>3
      <3>7. ASSUME NEW amount \in 1..house'.amount
            PROVE  \/ amount \in bids'
                   \/ \E i \in blocks' \cup (next'..Len(log')) :
                          /\ log'[i].kind = "bid" /\ log'[i].noun = house'.noun
                          /\ log'[i].amount = amount
        <4>1. CASE amount = house.amount + 1
          <5>1. Len(log) + 1 \in next'..Len(log')
            BY <2>1, <1>1, <1>2, <1>3
          <5> QED
            BY <4>1, <5>1, <1>1
        <4>2. CASE amount \in 1..house.amount
          <5>1. CASE amount \in bids
            BY <5>1, <1>2
          <5>2. CASE amount \notin bids
            <6>1. PICK i \in blocks \cup (next..Len(log)) :
                      log[i].kind = "bid" /\ log[i].noun = house.noun
                      /\ log[i].amount = amount
              BY <4>2, <5>2, <3>2 DEF Stored
            <6>2. i \in blocks' \cup (next'..Len(log')) /\ log'[i] = log[i]
              BY <6>1, <2>2, <3>3, <1>1, <1>2
            <6> QED
              BY <6>1, <6>2, <1>1
          <5> QED
            BY <5>1, <5>2
        <4> QED
          BY <4>1, <4>2, <1>1, <1>3
      <3>8. active' \in NounAuctions /\ active'.noun = house'.noun /\ last' = house'.noun
            /\ bids' \subseteq 1..active'.amount
        BY <3>2, <1>1, <1>2 DEF Stored
      <3> QED
        BY <3>2, <3>4, <3>5, <3>6, <3>7, <3>8, <1>2, <1>5 DEF Stored
    <2> QED
      BY <2>1, <2>2, <2>3, <1>1, <1>3
  <1> QED
    BY <1>1, <1>4, <1>6, <1>7 DEF AuctionInv

LEMMA SettleKeepsStore ==
    ASSUME AuctionInv, Settle
    PROVE  AuctionInv'
  <1>0. Tells(log, house)
    BY DEF AuctionInv
  <1>1. /\ Tells(log', house')
        /\ \A i \in 1..Len(log) : log'[i] = log[i]
        /\ Len(log') = Len(log) + 1
        /\ log'[Len(log) + 1].kind = "settled" /\ log'[Len(log) + 1].noun = house.noun
        /\ house'.noun = house.noun /\ house'.amount = house.amount
        /\ house'.settled = TRUE /\ house'.extensions = house.extensions
    BY <1>0, SettleEmits
  <1>2. /\ ~Heard("settled") => missed'
        /\ missed => missed'
        /\ UNCHANGED <<phase, found, next, blocks, active, bids, last, onDisplay,
                       past, path>>
    BY <1>0, SettleEmits
  <1>3. house.noun \in Nat /\ house.amount \in Nat /\ Len(log) \in Nat
    BY <1>0, LogTyped
  <1>4. ViewInv'
    BY <1>1, <1>2, <1>3 DEF AuctionInv, ViewInv
  <1>5. Displayed => Displayed'
    BY <1>1, <1>2 DEF Displayed
  <1>6. LoadInv'
    <2>1. phase \in {"query", "subscribe"} => missed'
      BY <1>2 DEF Heard
    <2>2. phase = "subscribe" => found' \in 0..Len(log')
      BY <1>1, <1>2, <1>3 DEF AuctionInv, LoadInv
    <2> QED
      BY <2>1, <2>2, <1>2, <1>5 DEF AuctionInv, LoadInv
  <1>7. LiveInv'
    <2> SUFFICES ASSUME phase = "live"
                 PROVE  /\ next \in 1..Len(log') + 1
                        /\ \A i \in blocks : i \in 1..next - 1 /\ log'[i].kind = "bid"
                        /\ ~missed' /\ Announced' => Stored' /\ Displayed'
      BY <1>2 DEF LiveInv
    <2>1. /\ next \in 1..Len(log) + 1
          /\ \A i \in blocks : i \in 1..next - 1 /\ log[i].kind = "bid"
          /\ ~missed /\ Announced => Stored /\ Displayed
      BY DEF AuctionInv, LiveInv
    <2>2. \A i \in blocks : i \in 1..Len(log)
      BY <2>1, <1>3
    <2>3. ASSUME ~missed', Announced' PROVE Stored' /\ Displayed'
      <3>1. Announced
        BY <2>1, <2>3, <1>1, <1>2, <1>3 DEF Announced
      <3>2. Stored /\ Displayed
        BY <2>1, <2>3, <3>1, <1>2
      <3>3. \A i \in next..Len(log) : i \in next'..Len(log') /\ log'[i] = log[i]
        BY <2>1, <1>1, <1>2, <1>3
      <3>4. Coming("settled")'
        <4>1. Len(log) + 1 \in next'..Len(log')
          BY <2>1, <1>1, <1>2, <1>3
        <4> QED
          BY <4>1, <1>1 DEF Coming
      <3>5. active.extensions = house'.extensions \/ Coming("extended")'
        BY <3>2, <3>3, <1>1 DEF Stored, Coming
      <3>6. ASSUME NEW amount \in 1..house'.amount
            PROVE  \/ amount \in bids'
                   \/ \E i \in blocks' \cup (next'..Len(log')) :
                          /\ log'[i].kind = "bid" /\ log'[i].noun = house'.noun
                          /\ log'[i].amount = amount
        <4>1. CASE amount \in bids
          BY <4>1, <1>2
        <4>2. CASE amount \notin bids
          <5>1. PICK i \in blocks \cup (next..Len(log)) :
                    log[i].kind = "bid" /\ log[i].noun = house.noun
                    /\ log[i].amount = amount
            BY <4>2, <3>2, <1>1 DEF Stored
          <5>2. i \in blocks' \cup (next'..Len(log')) /\ log'[i] = log[i]
            BY <5>1, <2>2, <3>3, <1>1, <1>2
          <5> QED
            BY <5>1, <5>2, <1>1
        <4> QED
          BY <4>1, <4>2
      <3>7. active' \in NounAuctions /\ active'.noun = house'.noun /\ last' = house'.noun
            /\ active'.amount <= house'.amount /\ bids' \subseteq 1..active'.amount
        BY <3>2, <1>1, <1>2 DEF Stored
      <3> QED
        BY <3>2, <3>4, <3>5, <3>6, <3>7, <1>2, <1>5 DEF Stored
    <2> QED
      BY <2>1, <2>2, <2>3, <1>1, <1>3
  <1> QED
    BY <1>1, <1>4, <1>6, <1>7 DEF AuctionInv

LEMMA CreateKeepsStore ==
    ASSUME AuctionInv, Create
    PROVE  AuctionInv'
  <1>0. Tells(log, house)
    BY DEF AuctionInv
  <1>1. /\ Tells(log', house')
        /\ \A i \in 1..Len(log) : log'[i] = log[i]
        /\ Len(log') = Len(log) + 1
        /\ log'[Len(log) + 1].kind = "created"
        /\ house'.noun > house.noun
    BY <1>0, CreateEmits
  <1>2. /\ ~Heard("created") => missed'
        /\ missed => missed'
        /\ UNCHANGED <<phase, found, next, blocks, active, bids, last, onDisplay,
                       past, path>>
    BY <1>0, CreateEmits
  <1>3. house.noun \in Nat /\ Len(log) \in Nat
    BY <1>0, LogTyped
  <1>4. house'.noun \in Nat
    BY <1>1 DEF Tells, NounAuctions
  <1>5. ViewInv'
    BY <1>1, <1>2, <1>3 DEF AuctionInv, ViewInv
  <1>6. Displayed => Displayed'
    <2>1. onDisplay # Null => onDisplay \in Nat
      BY DEF AuctionInv, ViewInv, NounOrNone
    <2> QED
      BY <2>1, <1>1, <1>2, <1>3, <1>4 DEF Displayed
  <1>7. LoadInv'
    <2>1. phase \in {"query", "subscribe"} => missed'
      BY <1>2 DEF Heard
    <2>2. phase = "subscribe" => found' \in 0..Len(log')
      BY <1>1, <1>2, <1>3 DEF AuctionInv, LoadInv
    <2> QED
      BY <2>1, <2>2, <1>2, <1>6 DEF AuctionInv, LoadInv
  <1>8. LiveInv'
    <2> SUFFICES ASSUME phase = "live"
                 PROVE  /\ next' \in 1..Len(log') + 1
                        /\ \A i \in blocks : i \in 1..next - 1 /\ log'[i].kind = "bid"
                        /\ ~Announced'
      BY <1>2 DEF LiveInv
    <2>1. /\ next \in 1..Len(log) + 1
          /\ \A i \in blocks : i \in 1..next - 1 /\ log[i].kind = "bid"
      BY DEF AuctionInv, LiveInv
    <2>2. \A i \in blocks : i \in 1..Len(log)
      BY <2>1, <1>3
    <2>3. Len(log) + 1 \in next'..Len(log')
      BY <2>1, <1>1, <1>2, <1>3
    <2> QED
      BY <2>1, <2>2, <2>3, <1>1, <1>2, <1>3 DEF Announced
  <1> QED
    BY <1>1, <1>5, <1>7, <1>8 DEF AuctionInv

\* Loading.
LEMMA LoadKept ==
    ASSUME AuctionInv, FetchAuction \/ QueryBids \/ Subscribe \/ LoadFails
    PROVE  AuctionInv'
  <1>1. /\ Tells(log, house) /\ ViewInv /\ LoadInv /\ LiveInv
    BY DEF AuctionInv
  <1>2. /\ house.noun \in Nat /\ house.amount \in Nat /\ Len(log) \in Nat
        /\ house \in NounAuctions
    BY <1>1, LogTyped
  <1>3. UNCHANGED <<house, log, onDisplay, past, path, missed>>
    BY DEF FetchAuction, QueryBids, Subscribe, LoadFails, chain
  <1>4. Tells(log', house')
    BY <1>1, <1>3
  <1>5. last' \in NounOrNone
    BY <1>1, <1>2 DEF FetchAuction, QueryBids, Subscribe, LoadFails, ViewInv, NounOrNone
  <1>6. ViewInv' /\ (Displayed => Displayed')
    BY <1>1, <1>3, <1>5 DEF ViewInv, Displayed
  <1>7. CASE FetchAuction
    <2>1. /\ phase = "fetch" /\ phase' = "query" /\ active' = house /\ last' = house.noun
          /\ UNCHANGED <<bids, blocks>>
      BY <1>7 DEF FetchAuction
    <2>2. Loaded'
      BY <2>1, <1>2, <1>3 DEF Loaded
    <2>3. LoadInv' /\ LiveInv'
      BY <2>1, <2>2, <1>1, <1>6 DEF LoadInv, LiveInv
    <2> QED
      BY <2>3, <1>4, <1>6 DEF AuctionInv
  <1>8. CASE QueryBids
    <2>1. /\ phase = "query" /\ phase' = "subscribe" /\ found' = Len(log)
          /\ UNCHANGED <<bids, blocks, active, last>>
      BY <1>8 DEF QueryBids
    <2>2. Loaded => Loaded'
      BY <2>1, <1>3 DEF Loaded
    <2>3. found' \in 0..Len(log') /\ found' = Len(log')
      BY <2>1, <1>2, <1>3
    <2>4. LoadInv' /\ LiveInv'
      BY <2>1, <2>2, <2>3, <1>1, <1>3, <1>6 DEF LoadInv, LiveInv
    <2> QED
      BY <2>4, <1>4, <1>6 DEF AuctionInv
  <1>9. CASE Subscribe
    <2>1. /\ phase = "subscribe" /\ phase' = "live" /\ next' = Len(log) + 1
          /\ blocks' = {i \in 1..found : log[i].kind = "bid"}
          /\ UNCHANGED <<bids, active, last>>
      BY <1>9 DEF Subscribe
    <2>2. found \in 0..Len(log) /\ bids = {}
          /\ (~missed => found = Len(log) /\ Loaded /\ Displayed)
      BY <2>1, <1>1 DEF LoadInv
    <2>3. /\ next' \in 1..Len(log') + 1
          /\ \A i \in blocks' : i \in 1..next' - 1 /\ log'[i].kind = "bid"
      BY <2>1, <2>2, <1>2, <1>3
    <2>4. ASSUME ~missed PROVE Stored' /\ Displayed'
      <3>1. Loaded /\ found = Len(log)
        BY <2>2, <2>4
      <3>2. ASSUME NEW amount \in 1..house'.amount
            PROVE  \E i \in blocks' :
                       log'[i].kind = "bid" /\ log'[i].noun = house'.noun
                       /\ log'[i].amount = amount
        <4>1. amount \in AmountsIn(log, house.noun, Len(log))
          BY <1>1, <1>3 DEF Tells, BidsAscend
        <4>2. PICK i \in 1..Len(log) :
                  log[i].kind = "bid" /\ log[i].noun = house.noun /\ log[i].amount = amount
          BY <4>1 DEF AmountsIn, Of
        <4> QED
          BY <4>2, <2>1, <3>1, <1>3
      <3>3. bids' \subseteq 1..active'.amount
        BY <2>1, <2>2
      <3>4. active' \in NounAuctions /\ active'.noun = house'.noun /\ last' = house'.noun
            /\ active'.settled = house'.settled /\ active'.extensions = house'.extensions
            /\ active'.amount <= house'.amount
        BY <2>1, <3>1, <1>3 DEF Loaded
      <3> QED
        BY <2>2, <2>4, <3>2, <3>3, <3>4, <1>6 DEF Stored
    <2>5. LoadInv' /\ LiveInv'
      BY <2>1, <2>3, <2>4, <1>3 DEF LoadInv, LiveInv
    <2> QED
      BY <2>5, <1>4, <1>6 DEF AuctionInv
  <1>10. CASE LoadFails
    <2>1. phase' = "failed"
      BY <1>10 DEF LoadFails
    <2>2. LoadInv' /\ LiveInv'
      BY <2>1 DEF LoadInv, LiveInv
    <2> QED
      BY <2>2, <1>4, <1>6 DEF AuctionInv
  <1> QED
    BY <1>7, <1>8, <1>9, <1>10

\* Events.  The rest of the log is what comes after the one delivered.
LEMMA RestOfLog ==
    ASSUME AuctionInv, phase = "live", next <= Len(log), next' = next + 1
    PROVE  /\ next \in 1..Len(log) /\ next' \in 1..Len(log) + 1
           /\ next..Len(log) = {next} \cup (next'..Len(log))
           /\ \A i \in blocks : i \in 1..next - 1 /\ i \in 1..next' - 1 /\ log[i].kind = "bid"
           /\ ~missed /\ Announced => Stored /\ Displayed
  <1>1. Len(log) \in Nat
    BY LogTyped DEF AuctionInv
  <1>2. next \in 1..Len(log) + 1
    BY DEF AuctionInv, LiveInv
  <1>3. \A i \in blocks : i \in 1..next - 1 /\ log[i].kind = "bid"
    BY DEF AuctionInv, LiveInv
  <1>4. ~missed /\ Announced => Stored /\ Displayed
    BY DEF AuctionInv, LiveInv
  <1>5. next \in 1..Len(log) /\ next' \in 1..Len(log) + 1
    BY <1>1, <1>2
  <1>6. \A i \in 1..next - 1 : i \in 1..next' - 1
    BY <1>5
  <1>7. next..Len(log) = {next} \cup (next'..Len(log))
    BY <1>1, <1>5
  <1> QED
    BY <1>3, <1>4, <1>5, <1>6, <1>7

LEMMA CreationKept ==
    ASSUME AuctionInv, processAuctionCreated
    PROVE  AuctionInv'
  <1>1. /\ phase = "live" /\ next <= Len(log) /\ next' = next + 1
        /\ log[next].kind = "created"
        /\ active' = Auction(log[next].noun) /\ bids' = {}
        /\ onDisplay' = log[next].noun /\ last' = log[next].noun
        /\ UNCHANGED <<house, log, phase, found, blocks, past, path>>
    BY DEF processAuctionCreated, Delivered, Event, chain
  <1>2. /\ next \in 1..Len(log) /\ next' \in 1..Len(log) + 1
        /\ next..Len(log) = {next} \cup (next'..Len(log))
        /\ \A i \in blocks : i \in 1..next - 1 /\ i \in 1..next' - 1 /\ log[i].kind = "bid"
    BY <1>1, RestOfLog
  <1>3. Tells(log, house)
    BY DEF AuctionInv
  <1>4. /\ house.noun \in Nat /\ house.amount \in Nat /\ house.extensions \in Nat
        /\ house.settled \in BOOLEAN /\ Len(log) \in Nat
        /\ log[next].noun \in Nat /\ log[next].noun <= house.noun
    BY <1>2, <1>3, LogTyped
  <1>5. Tells(log', house')
    BY <1>1, <1>3
  <1>6. ViewInv' /\ Displayed'
    BY <1>1, <1>4 DEF AuctionInv, ViewInv, Displayed, NounOrNone
  <1>7. LoadInv'
    BY <1>1 DEF LoadInv
  <1>8. ASSUME Announced' PROVE Stored'
    <2>1. \A i \in 1..Len(log) : i > next => log[i].kind # "created"
      <3>1. \A i \in 1..Len(log) : i > next => i \in next'..Len(log')
        BY <1>1, <1>2, <1>4
      <3> QED
        BY <3>1, <1>1, <1>8 DEF Announced
    <2>2. log[next].noun = house.noun
      BY <2>1, <1>1, <1>2, <1>3 DEF Tells, NounsAscend
    <2>3. \A i \in 1..Len(log) : i < next => log[i].noun < house.noun
      BY <2>2, <1>1, <1>2, <1>3 DEF Tells, NounsAscend
    <2>4. \A i \in 1..Len(log) : log[i].kind # "created" /\ log[i].noun = house.noun =>
              i \in next'..Len(log')
      BY <2>3, <1>1, <1>2, <1>4
    <2>5. active'.settled = house'.settled \/ Coming("settled")'
      <3>1. CASE house.settled
        <4>1. PICK i \in Of(log, "settled", house.noun, Len(log)) : TRUE
          BY <3>1, <1>3 DEF Tells, SettledLast
        <4>2. i \in next'..Len(log') /\ log[i].kind = "settled" /\ log[i].noun = house.noun
          BY <4>1, <2>4 DEF Of
        <4> QED
          BY <4>2, <1>1 DEF Coming
      <3>2. CASE ~house.settled
        BY <3>2, <1>1, <1>4 DEF Auction
      <3> QED
        BY <3>1, <3>2
    <2>6. active'.extensions = house'.extensions \/ Coming("extended")'
      <3>1. CASE house.extensions # 0
        <4>1. PICK i \in Of(log, "extended", house.noun, Len(log)) : TRUE
          BY <3>1, <1>3 DEF Tells, ExtendedLast
        <4>2. i \in next'..Len(log') /\ log[i].kind = "extended" /\ log[i].noun = house.noun
          BY <4>1, <2>4 DEF Of
        <4> QED
          BY <4>2, <1>1 DEF Coming
      <3>2. CASE house.extensions = 0
        BY <3>2, <1>1 DEF Auction
      <3> QED
        BY <3>1, <3>2
    <2>7. ASSUME NEW amount \in 1..house'.amount
          PROVE  \E i \in next'..Len(log') :
                     log'[i].kind = "bid" /\ log'[i].noun = house'.noun
                     /\ log'[i].amount = amount
      <3>1. amount \in AmountsIn(log, house.noun, Len(log))
        BY <1>1, <1>3 DEF Tells, BidsAscend
      <3>2. PICK i \in 1..Len(log) :
                log[i].kind = "bid" /\ log[i].noun = house.noun /\ log[i].amount = amount
        BY <3>1 DEF AmountsIn, Of
      <3>3. i \in next'..Len(log')
        BY <3>2, <2>4
      <3> QED
        BY <3>2, <3>3, <1>1
    <2>8. /\ active' \in NounAuctions /\ active'.noun = house'.noun /\ last' = house'.noun
          /\ active'.amount <= house'.amount
      BY <2>2, <1>1, <1>4 DEF Auction, NounAuctions
    <2> QED
      BY <2>5, <2>6, <2>7, <2>8, <1>1 DEF Stored
  <1>9. LiveInv'
    BY <1>1, <1>2, <1>6, <1>8 DEF LiveInv
  <1> QED
    BY <1>5, <1>6, <1>7, <1>9 DEF AuctionInv

\* What the other events have in common.
LEMMA EventKept ==
    ASSUME AuctionInv, phase = "live", next <= Len(log), next' = next + 1,
           log[next].kind # "created",
           UNCHANGED <<house, log, phase, found, missed, last, onDisplay, past, path>>,
           \A i \in blocks' : i \in blocks \/ (i = next /\ log[next].kind = "bid"),
           ~missed /\ Stored => Stored'
    PROVE  AuctionInv'
  <1>1. /\ next \in 1..Len(log) /\ next' \in 1..Len(log) + 1
        /\ next..Len(log) = {next} \cup (next'..Len(log))
        /\ \A i \in blocks : i \in 1..next - 1 /\ i \in 1..next' - 1 /\ log[i].kind = "bid"
        /\ ~missed /\ Announced => Stored /\ Displayed
    BY RestOfLog
  <1>2. Tells(log', house') /\ ViewInv' /\ LoadInv' /\ (Displayed => Displayed')
    BY DEF AuctionInv, ViewInv, LoadInv, Displayed
  <1>3. Announced' => Announced
    BY <1>1 DEF Announced
  <1>4. \A i \in blocks' : i \in 1..next' - 1 /\ log'[i].kind = "bid"
    BY <1>1
  <1>5. LiveInv'
    BY <1>1, <1>2, <1>3, <1>4 DEF LiveInv
  <1> QED
    BY <1>2, <1>5 DEF AuctionInv

LEMMA ActiveEqual ==
    ASSUME Stored, NEW e
    PROVE  auctionsEqual(e) <=> e.noun = house.noun
  <1>1. active # Null
    BY WebAuctionAssumption DEF Stored
  <1> QED
    BY <1>1 DEF Stored, auctionsEqual

LEMMA ExtensionKept ==
    ASSUME AuctionInv, processAuctionExtended
    PROVE  AuctionInv'
  <1>1. /\ phase = "live" /\ next <= Len(log) /\ next' = next + 1
        /\ log[next].kind = "extended"
        /\ active' = IF auctionsEqual(log[next])
                     THEN [active EXCEPT !.extensions = log[next].extensions] ELSE active
        /\ UNCHANGED <<house, log, phase, found, blocks, missed, bids, last, onDisplay,
                       past, path>>
    BY DEF processAuctionExtended, Delivered, Event, chain
  <1>2. /\ next \in 1..Len(log) /\ next..Len(log) = {next} \cup (next'..Len(log))
    BY <1>1, RestOfLog
  <1>3. Tells(log, house)
    BY DEF AuctionInv
  <1>4. Len(log) \in Nat /\ log[next].extensions \in Nat
    BY <1>1, <1>2, <1>3, LogTyped
  <1>5. ASSUME Stored PROVE Stored'
    <2>1. auctionsEqual(log[next]) <=> log[next].noun = house.noun
      BY <1>5, ActiveEqual
    <2>2. /\ active' \in NounAuctions /\ active'.noun = active.noun
          /\ active'.amount = active.amount /\ active'.settled = active.settled
          /\ log[next].noun = house.noun => active'.extensions = log[next].extensions
          /\ log[next].noun # house.noun => active'.extensions = active.extensions
      BY <2>1, <1>1, <1>4, <1>5 DEF Stored, NounAuctions
    <2>3. active'.settled = house'.settled \/ Coming("settled")'
      BY <2>2, <1>1, <1>2, <1>5 DEF Stored, Coming
    <2>4. active'.extensions = house'.extensions \/ Coming("extended")'
      <3>1. CASE log[next].noun # house.noun
        BY <3>1, <2>2, <1>1, <1>2, <1>5 DEF Stored, Coming
      <3>2. CASE log[next].noun = house.noun /\ ~Coming("extended")'
        <4>1. next \in Of(log, "extended", house.noun, Len(log))
          BY <3>2, <1>1, <1>2 DEF Of
        <4>2. ASSUME NEW i \in Of(log, "extended", house.noun, Len(log)) PROVE i <= next
          <5>1. i \in 1..Len(log) /\ log[i].kind = "extended" /\ log[i].noun = house.noun
            BY DEF Of
          <5>2. i \notin next'..Len(log')
            BY <3>2, <5>1, <1>1 DEF Coming
          <5> QED
            BY <5>1, <5>2, <1>1, <1>2, <1>4
        <4>3. log[next].extensions = house.extensions
          BY <4>1, <4>2, <1>3 DEF Tells, ExtendedLast
        <4> QED
          BY <3>2, <4>3, <2>2, <1>1
      <3> QED
        BY <3>1, <3>2
    <2>5. \A amount \in 1..house'.amount :
              \/ amount \in bids'
              \/ \E i \in blocks' \cup (next'..Len(log')) :
                     /\ log'[i].kind = "bid" /\ log'[i].noun = house'.noun
                     /\ log'[i].amount = amount
      BY <1>1, <1>2, <1>5 DEF Stored
    <2>6. /\ active'.noun = house'.noun /\ last' = house'.noun
          /\ active'.amount <= house'.amount /\ bids' \subseteq 1..active'.amount
      BY <2>2, <1>1, <1>5 DEF Stored
    <2> QED
      BY <2>2, <2>3, <2>4, <2>5, <2>6 DEF Stored
  <1> QED
    BY <1>1, <1>5, EventKept

LEMMA SettlementKept ==
    ASSUME AuctionInv, processAuctionSettled
    PROVE  AuctionInv'
  <1>1. /\ phase = "live" /\ next <= Len(log) /\ next' = next + 1
        /\ log[next].kind = "settled"
        /\ active' = IF auctionsEqual(log[next])
                     THEN [active EXCEPT !.settled = TRUE, !.amount = log[next].amount]
                     ELSE active
        /\ UNCHANGED <<house, log, phase, found, blocks, missed, bids, last, onDisplay,
                       past, path>>
    BY DEF processAuctionSettled, Delivered, Event, chain
  <1>2. /\ next \in 1..Len(log) /\ next..Len(log) = {next} \cup (next'..Len(log))
    BY <1>1, RestOfLog
  <1>3. Tells(log, house)
    BY DEF AuctionInv
  <1>4. house.amount \in Nat /\ house.settled \in BOOLEAN
    BY <1>3, LogTyped
  <1>5. ASSUME Stored PROVE Stored'
    <2>1. auctionsEqual(log[next]) <=> log[next].noun = house.noun
      BY <1>5, ActiveEqual
    <2>2. CASE log[next].noun # house.noun
      <3>1. active' = active
        BY <2>1, <2>2, <1>1
      <3>2. /\ active'.settled = house'.settled \/ Coming("settled")'
            /\ active'.extensions = house'.extensions \/ Coming("extended")'
        BY <2>2, <3>1, <1>1, <1>2, <1>5 DEF Stored, Coming
      <3>3. \A amount \in 1..house'.amount :
                \/ amount \in bids'
                \/ \E i \in blocks' \cup (next'..Len(log')) :
                       /\ log'[i].kind = "bid" /\ log'[i].noun = house'.noun
                       /\ log'[i].amount = amount
        BY <1>1, <1>2, <1>5 DEF Stored
      <3> QED
        BY <3>1, <3>2, <3>3, <1>1, <1>5 DEF Stored
    <2>3. CASE log[next].noun = house.noun
      <3>1. house.settled = TRUE /\ log[next].amount = house.amount
        BY <2>3, <1>1, <1>2, <1>3, <1>4 DEF Tells, SettledLast
      <3>2. /\ active' \in NounAuctions /\ active'.noun = active.noun
            /\ active'.amount = house.amount /\ active'.settled = TRUE
            /\ active'.extensions = active.extensions
        BY <2>1, <2>3, <3>1, <1>1, <1>4, <1>5 DEF Stored, NounAuctions
      <3>3. active'.extensions = house'.extensions \/ Coming("extended")'
        BY <3>2, <1>1, <1>2, <1>5 DEF Stored, Coming
      <3>4. \A amount \in 1..house'.amount :
                \/ amount \in bids'
                \/ \E i \in blocks' \cup (next'..Len(log')) :
                       /\ log'[i].kind = "bid" /\ log'[i].noun = house'.noun
                       /\ log'[i].amount = amount
        BY <1>1, <1>2, <1>5 DEF Stored
      <3>5. bids' \subseteq 1..active'.amount /\ active'.amount <= house'.amount
        <4>1. /\ bids \subseteq 1..active.amount /\ active.amount <= house.amount
              /\ active.amount \in Nat
          BY <1>5 DEF Stored, NounAuctions
        <4>2. \A b \in 1..active.amount : b \in 1..house.amount
          BY <4>1, <1>4
        <4> QED
          BY <4>1, <4>2, <3>2, <1>1, <1>4
      <3>6. /\ active'.noun = house'.noun /\ last' = house'.noun
            /\ active'.settled = house'.settled
        BY <3>1, <3>2, <1>1, <1>5 DEF Stored
      <3> QED
        BY <3>2, <3>3, <3>4, <3>5, <3>6 DEF Stored
    <2> QED
      BY <2>2, <2>3
  <1> QED
    BY <1>1, <1>5, EventKept

LEMMA BidEventKept ==
    ASSUME AuctionInv, processBidFilter
    PROVE  AuctionInv'
  <1>1. /\ phase = "live" /\ next <= Len(log) /\ next' = next + 1
        /\ log[next].kind = "bid"
        /\ blocks' = blocks \cup {next}
        /\ UNCHANGED <<house, log, phase, found, active, missed, bids, last, onDisplay,
                       past, path>>
    BY DEF processBidFilter, Delivered, Event, chain
  <1>2. /\ next \in 1..Len(log) /\ next..Len(log) = {next} \cup (next'..Len(log))
    BY <1>1, RestOfLog
  <1>3. ASSUME Stored PROVE Stored'
    <2>1. /\ active'.settled = house'.settled \/ Coming("settled")'
          /\ active'.extensions = house'.extensions \/ Coming("extended")'
      BY <1>1, <1>2, <1>3 DEF Stored, Coming
    <2>2. blocks' \cup (next'..Len(log')) = blocks \cup (next..Len(log))
      BY <1>1, <1>2
    <2>3. \A amount \in 1..house'.amount :
              \/ amount \in bids'
              \/ \E i \in blocks' \cup (next'..Len(log')) :
                     /\ log'[i].kind = "bid" /\ log'[i].noun = house'.noun
                     /\ log'[i].amount = amount
      BY <2>2, <1>1, <1>3 DEF Stored
    <2> QED
      BY <2>1, <2>3, <1>1, <1>3 DEF Stored
  <1> QED
    BY <1>1, <1>3, EventKept

\* A bid that is stored, or lost, is no longer fetched.
LEMMA FetchedBidKept ==
    ASSUME AuctionInv, NEW i \in blocks, appendBid(i) \/ LoseBid(i)
    PROVE  AuctionInv'
  <1>1. /\ blocks' = blocks \ {i}
        /\ UNCHANGED <<house, log, phase, found, next, last, onDisplay, past, path>>
    BY DEF appendBid, LoseBid, chain
  <1>2. Tells(log, house)
    BY DEF AuctionInv
  <1>3. ViewInv' /\ Tells(log', house') /\ (Displayed => Displayed')
    BY <1>1, <1>2 DEF AuctionInv, ViewInv, Displayed
  <1>4. phase \notin {"fetch", "query", "subscribe"}
    BY DEF AuctionInv, LoadInv
  <1>5. LoadInv'
    BY <1>1, <1>4 DEF AuctionInv, LoadInv
  <1>6. LiveInv'
    <2> SUFFICES ASSUME phase = "live" PROVE LiveInv'
      BY <1>1 DEF LiveInv
    <2>1. /\ next \in 1..Len(log) + 1 /\ Len(log) \in Nat
          /\ \A j \in blocks : j \in 1..next - 1 /\ log[j].kind = "bid"
          /\ ~missed /\ Announced => Stored /\ Displayed
      BY <1>2, LogTyped DEF AuctionInv, LiveInv
    <2>2. i \in 1..Len(log) /\ log[i].kind = "bid"
      BY <2>1
    <2>3. house.amount \in Nat /\ log[i].amount \in Nat
      BY <2>2, <1>2, LogTyped
    <2>4. (Announced' <=> Announced) /\ (missed => missed')
      <3>1. Announced' <=> Announced
        BY <1>1 DEF Announced
      <3>2. missed => missed'
        BY DEF appendBid, LoseBid
      <3> QED
        BY <3>1, <3>2
    <2>5. ASSUME ~missed', Stored PROVE Stored'
      <3>1. auctionsEqual(log[i]) <=> log[i].noun = house.noun
        BY <2>5, ActiveEqual
      <3>2. \A kind : Coming(kind) => Coming(kind)'
        BY <1>1 DEF Coming
      <3>3. ASSUME active' = active, bids' = bids,
                   log[i].noun # house.noun \/ log[i].amount \in bids
            PROVE  Stored'
        <4>1. ASSUME NEW amount \in 1..house'.amount
              PROVE  \/ amount \in bids'
                     \/ \E j \in blocks' \cup (next'..Len(log')) :
                            /\ log'[j].kind = "bid" /\ log'[j].noun = house'.noun
                            /\ log'[j].amount = amount
          <5>1. CASE amount \in bids
            BY <5>1, <3>3
          <5>2. CASE amount \notin bids
            <6>1. PICK j \in blocks \cup (next..Len(log)) :
                      log[j].kind = "bid" /\ log[j].noun = house.noun
                      /\ log[j].amount = amount
              BY <5>2, <2>5, <1>1 DEF Stored
            <6>2. j # i
              BY <5>2, <6>1, <3>3
            <6> QED
              BY <6>1, <6>2, <1>1
          <5> QED
            BY <5>1, <5>2
        <4>2. /\ active'.settled = house'.settled \/ Coming("settled")'
              /\ active'.extensions = house'.extensions \/ Coming("extended")'
          BY <2>5, <3>2, <3>3, <1>1 DEF Stored
        <4> QED
          BY <4>1, <4>2, <2>5, <3>3, <1>1 DEF Stored
      <3>4. CASE LoseBid(i)
        <4>1. active' = active /\ bids' = bids /\ missed' = (missed \/ auctionsEqual(log[i]))
          BY <3>4 DEF LoseBid
        <4> QED
          BY <4>1, <3>1, <3>3, <2>5
      <3>5. CASE appendBid(i) /\ ~(auctionsEqual(log[i]) /\ log[i].amount \notin bids)
        <4>1. active' = active /\ bids' = bids
          BY <3>5 DEF appendBid
        <4> QED
          BY <4>1, <3>1, <3>3, <3>5
      <3>6. CASE appendBid(i) /\ auctionsEqual(log[i]) /\ log[i].amount \notin bids
        <4> DEFINE after == bids \cup {log[i].amount}
        <4>1. bids' = after /\ active' = [active EXCEPT !.amount = HighestOf(after)]
          BY <3>6 DEF appendBid, maxBid
        <4>2. log[i].amount \in 1..house.amount
          <5>1. log[i].amount \in AmountsIn(log, house.noun, Len(log))
            BY <2>2, <3>1, <3>6 DEF AmountsIn, Of
          <5> QED
            BY <5>1, <1>2 DEF Tells, BidsAscend
        <4>3. after \subseteq 1..house.amount
          <5>1. /\ bids \subseteq 1..active.amount /\ active.amount <= house.amount
                /\ active.amount \in Nat
            BY <2>5 DEF Stored, NounAuctions
          <5>2. \A b \in 1..active.amount : b \in 1..house.amount
            BY <5>1, <2>3
          <5> QED
            BY <5>1, <5>2, <4>2
        <4>4. HighestOf(after) \in after /\ \A y \in after : y <= HighestOf(after)
          <5>1. after \subseteq 0..house.amount /\ after # {}
            BY <4>3, <2>3
          <5> HIDE DEF after
          <5> QED
            BY <5>1, <2>3, HighestExists
        <4> HIDE DEF after
        <4>5. HighestOf(after) \in 1..house.amount
          BY <4>3, <4>4
        <4>6. /\ active' \in NounAuctions /\ active'.noun = active.noun
              /\ active'.amount = HighestOf(after)
              /\ active'.settled = active.settled /\ active'.extensions = active.extensions
          BY <4>1, <4>5, <2>5 DEF Stored, NounAuctions
        <4>7. bids' \subseteq 1..active'.amount /\ active'.amount <= house'.amount
          <5>1. \A b \in after : b \in 1..HighestOf(after)
            BY <4>3, <4>4, <4>5, <2>3
          <5> QED
            BY <5>1, <4>1, <4>5, <4>6, <2>3, <1>1
        <4>8. ASSUME NEW amount \in 1..house'.amount
              PROVE  \/ amount \in bids'
                     \/ \E j \in blocks' \cup (next'..Len(log')) :
                            /\ log'[j].kind = "bid" /\ log'[j].noun = house'.noun
                            /\ log'[j].amount = amount
          <5>1. CASE amount \in after
            BY <5>1, <4>1
          <5>2. CASE amount \notin after
            <6>1. PICK j \in blocks \cup (next..Len(log)) :
                      log[j].kind = "bid" /\ log[j].noun = house.noun
                      /\ log[j].amount = amount
              BY <5>2, <2>5, <1>1 DEF Stored, after
            <6>2. j # i
              BY <5>2, <6>1 DEF after
            <6> QED
              BY <6>1, <6>2, <1>1
          <5> QED
            BY <5>1, <5>2
        <4>9. /\ active'.settled = house'.settled \/ Coming("settled")'
              /\ active'.extensions = house'.extensions \/ Coming("extended")'
          BY <4>6, <2>5, <3>2, <1>1 DEF Stored
        <4> QED
          BY <4>6, <4>7, <4>8, <4>9, <2>5, <1>1 DEF Stored
      <3> QED
        BY <3>4, <3>5, <3>6
    <2> QED
      BY <2>1, <2>4, <2>5, <1>1, <1>3 DEF LiveInv
  <1> QED
    BY <1>3, <1>5, <1>6 DEF AuctionInv

\* The page shows the noun that is to be displayed, or nothing.
LEMMA ShowsDisplayed ==
    ASSUME useOnDisplayAuction # Null
    PROVE  onDisplay # Null /\ useOnDisplayAuction.noun = onDisplay
  <1>1. onDisplay # Null /\ active # Null
    BY DEF useOnDisplayAuction
  <1>2. CASE onDisplay = active.noun
    BY <1>1, <1>2 DEF useOnDisplayAuction, deserializeAuction
  <1>3. CASE onDisplay # active.noun /\ isNounderNoun(onDisplay)
    BY <1>1, <1>3 DEF useOnDisplayAuction, generateEmptyNounderAuction
  <1>4. CASE onDisplay # active.noun /\ ~isNounderNoun(onDisplay)
    <2>1. /\ findAuction(onDisplay) # Null
          /\ useOnDisplayAuction = deserializeAuction(findAuction(onDisplay),
                                                     findAuction(onDisplay).startTime)
      BY <1>1, <1>4 DEF useOnDisplayAuction
    <2>2. findAuction(onDisplay).noun = onDisplay
      BY <2>1 DEF findAuction, pastAuctions, reduxSafePastAuctions
    <2> QED
      BY <1>1, <2>1, <2>2 DEF deserializeAuction
  <1> QED
    BY <1>2, <1>3, <1>4

LEMMA ViewKept ==
    ASSUME AuctionInv, ViewNext
    PROVE  AuctionInv'
  <1>1. UNCHANGED <<house, log, phase, found, next, blocks, missed, active, bids, last>>
    BY DEF ViewNext, AddPastAuctions, AuctionPageEffect, prevAuctionHandler, nextAuctionHandler,
           onClickNoun, Visit, chain, subscriber
  <1>2. Tells(log, house) /\ house.noun \in Nat /\ Len(log) \in Nat
    BY LogTyped DEF AuctionInv
  <1>3. Tells(log', house')
    BY <1>1, <1>2
  <1>4. /\ path \in NounOrNone /\ onDisplay \in NounOrNone /\ last \in NounOrNone
        /\ past # Null => past \in 0..Len(log)
    BY DEF AuctionInv, ViewInv
  <1>5. Null \notin Nat /\ Links \subseteq Nat
    BY WebAuctionAssumption
  <1>6. ViewInv' /\ (Displayed /\ last \in {Null, house.noun} => Displayed')
    <2>1. CASE AddPastAuctions
      <3>1. past' = Len(log) /\ UNCHANGED <<onDisplay, path>>
        BY <2>1 DEF AddPastAuctions
      <3> QED
        BY <3>1, <1>1, <1>2, <1>4 DEF ViewInv, Displayed
    <2>2. CASE AuctionPageEffect
      <3>1. /\ onDisplay' = OnDisplayAfterEffect /\ onDisplay' # onDisplay
            /\ UNCHANGED <<past, path>>
        BY <2>2 DEF AuctionPageEffect
      <3>2. /\ last # Null
            /\ \/ onDisplay' = last
               \/ onDisplay' = path /\ path # Null /\ ~(path > last)
        BY <3>1 DEF OnDisplayAfterEffect
      <3>3. onDisplay' \in NounOrNone
        BY <3>2, <1>4
      <3>4. last = house.noun => onDisplay' <= house.noun
        BY <3>2, <1>2, <1>4 DEF NounOrNone
      <3> QED
        BY <3>1, <3>2, <3>3, <3>4, <1>1, <1>4 DEF ViewInv, Displayed
    <2>3. CASE prevAuctionHandler
      <3>1. /\ last # Null /\ useOnDisplayAuction # Null
            /\ useOnDisplayAuction.noun # 0
            /\ onDisplay' = onDisplay - 1 /\ path' = useOnDisplayAuction.noun - 1
            /\ UNCHANGED past
        BY <2>3 DEF prevAuctionHandler, AuctionNavigation
      <3>2. onDisplay \in Nat \ {0} /\ path' = onDisplay - 1
        BY <3>1, <1>4, ShowsDisplayed DEF NounOrNone
      <3>3. onDisplay' \in Nat /\ path' \in Nat /\ onDisplay' < onDisplay
        BY <3>1, <3>2
      <3> QED
        BY <3>1, <3>2, <3>3, <1>1, <1>2, <1>4, <1>5 DEF ViewInv, Displayed, NounOrNone
    <2>4. CASE nextAuctionHandler
      <3>1. /\ last # Null /\ useOnDisplayAuction # Null
            /\ useOnDisplayAuction.noun # last
            /\ onDisplay' = onDisplay + 1 /\ path' = useOnDisplayAuction.noun + 1
            /\ UNCHANGED past
        BY <2>4 DEF nextAuctionHandler, AuctionNavigation
      <3>2. onDisplay \in Nat /\ onDisplay # Null /\ onDisplay # last /\ path' = onDisplay + 1
        BY <3>1, <1>4, ShowsDisplayed DEF NounOrNone
      <3>3. onDisplay' \in Nat /\ path' \in Nat
        BY <3>1, <3>2
      <3>4. Displayed /\ last = house.noun => onDisplay' <= house.noun
        BY <3>1, <3>2, <1>2 DEF Displayed
      <3> QED
        BY <3>1, <3>3, <3>4, <1>1, <1>4 DEF ViewInv, Displayed, NounOrNone
    <2>5. CASE \E n \in Links : n <= house.noun /\ onClickNoun(n)
      BY <2>5, <1>1, <1>4, <1>5 DEF onClickNoun, ViewInv, Displayed, NounOrNone
    <2>6. CASE \E p \in {Null} \cup Links : Visit(p)
      BY <2>6, <1>1, <1>4, <1>5 DEF Visit, ViewInv, Displayed, NounOrNone
    <2> QED
      BY <2>1, <2>2, <2>3, <2>4, <2>5, <2>6 DEF ViewNext
  <1>7. LoadInv'
    <2>1. Loaded' <=> Loaded
      BY <1>1 DEF Loaded
    <2>2. Loaded => last = house.noun
      BY DEF Loaded
    <2> QED
      BY <2>1, <2>2, <1>1, <1>6 DEF AuctionInv, LoadInv
  <1>8. LiveInv'
    <2>1. (Stored' <=> Stored) /\ (Announced' <=> Announced)
      BY <1>1 DEF Stored, Announced, Coming
    <2>2. Stored => last = house.noun
      BY DEF Stored
    <2> QED
      BY <2>1, <2>2, <1>1, <1>6 DEF AuctionInv, LiveInv
  <1> QED
    BY <1>3, <1>6, <1>7, <1>8 DEF AuctionInv

LEMMA AuctionKept == AuctionInv /\ [AuctionPageNext]_auctionPageVars => AuctionInv'
  <1> SUFFICES ASSUME AuctionInv, [AuctionPageNext]_auctionPageVars PROVE AuctionInv'
    OBVIOUS
  <1>1. CASE HouseNext
    BY <1>1, SettleKeepsStore, CreateKeepsStore, BidKeepsStore DEF HouseNext
  <1>2. CASE SubscriberNext
    BY <1>2, LoadKept, CreationKept, ExtensionKept, SettlementKept, BidEventKept, FetchedBidKept
       DEF SubscriberNext
  <1>3. CASE ViewNext
    BY <1>3, ViewKept
  <1>4. CASE UNCHANGED auctionPageVars
    <2>1. UNCHANGED <<house, log, phase, found, next, blocks, missed, active, bids, last,
                      onDisplay, past, path>>
      BY <1>4 DEF auctionPageVars, chain, subscriber
    <2> QED
      BY <2>1 DEF AuctionInv, ViewInv, LoadInv, LiveInv, Stored, Loaded, Displayed, Announced,
                  Coming
  <1> QED
    BY <1>1, <1>2, <1>3, <1>4 DEF AuctionPageNext

\* Bids listed.
LEMMA EventsAre ==
    /\ \A kind, n, k : EventsOf(kind, n, k) = Of(log, kind, n, k)
    /\ \A n, k : BidsOf(n, k) = AmountsIn(log, n, k)
  BY DEF EventsOf, BidsOf, Of, AmountsIn

LEMMA BlocksAscend ==
    ASSUME Tells(log, house), NEW n,
           NEW a \in AmountsIn(log, n, Len(log)), NEW b \in AmountsIn(log, n, Len(log)), a <= b
    PROVE  Block(n, a) \in Nat /\ Block(n, b) \in Nat /\ Block(n, a) <= Block(n, b)
  <1> DEFINE at(x) == CHOOSE i \in EventsOf("bid", n, Len(log)) : log[i].amount = x
  <1>1. /\ at(a) \in Of(log, "bid", n, Len(log)) /\ log[at(a)].amount = a
        /\ at(b) \in Of(log, "bid", n, Len(log)) /\ log[at(b)].amount = b
    BY EventsAre DEF AmountsIn
  <1>2. Block(n, a) = log[at(a)].block /\ Block(n, b) = log[at(b)].block
    BY DEF Block
  <1> HIDE DEF at
  <1>3. /\ at(a) \in 1..Len(log) /\ log[at(a)].kind = "bid" /\ log[at(a)].noun = n
        /\ at(b) \in 1..Len(log) /\ log[at(b)].kind = "bid" /\ log[at(b)].noun = n
    BY <1>1 DEF Of
  <1>4. /\ log[at(a)].block \in Nat /\ log[at(b)].block \in Nat /\ a \in Nat /\ b \in Nat
    BY <1>1, <1>3, LogTyped
  <1>5. ~(at(b) < at(a))
    <2>1. ASSUME at(b) < at(a) PROVE log[at(b)].amount < log[at(a)].amount
      BY <2>1, <1>3 DEF Tells, BidsAscend
    <2> QED
      BY <2>1, <1>1, <1>4
  <1>6. CASE at(a) = at(b)
    BY <1>2, <1>4, <1>6
  <1>7. CASE at(a) < at(b)
    BY <1>2, <1>3, <1>4, <1>7 DEF Tells, BidsAscend
  <1> QED
    BY <1>3, <1>5, <1>6, <1>7

LEMMA NewestListed ==
    ASSUME Tells(log, house), NEW n, NEW highest \in Nat,
           useAuctionBids(n) = 1..highest, AmountsIn(log, n, Len(log)) = 1..highest
    PROVE  /\ highest > 0 => highest \in Trophies(n)
           /\ \A b \in 1..highest : highest - b < HistoryMax => b \in BidHistory(n)
  <1>1. ASSUME NEW b \in 1..highest PROVE LaterThan(n, b) \subseteq (b + 1)..highest
    <2>1. ASSUME NEW x \in 1..highest, Block(n, x) > Block(n, b) PROVE x > b
      <3>1. CASE x <= b
        <4>1. Block(n, x) \in Nat /\ Block(n, b) \in Nat /\ Block(n, x) <= Block(n, b)
          BY <3>1, BlocksAscend
        <4> QED
          BY <2>1, <4>1
      <3> QED
        BY <3>1
    <2> QED
      BY <2>1 DEF LaterThan
  <1>2. ASSUME NEW b \in 1..highest
        PROVE  /\ Cardinality(LaterThan(n, b)) \in Nat
               /\ Cardinality(LaterThan(n, b)) <= highest - b
    <2>1. /\ IsFiniteSet((b + 1)..highest)
          /\ Cardinality((b + 1)..highest) =
                 IF b + 1 > highest THEN 0 ELSE highest - (b + 1) + 1
      BY FS_Interval
    <2>2. Cardinality((b + 1)..highest) = highest - b
      BY <2>1
    <2>3. /\ IsFiniteSet(LaterThan(n, b))
          /\ Cardinality(LaterThan(n, b)) <= Cardinality((b + 1)..highest)
      BY <1>1, <2>1, FS_Subset
    <2> QED
      BY <2>2, <2>3, FS_CardinalityType
  <1>3. ASSUME highest > 0 PROVE highest \in Trophies(n)
    <2>1. highest \in 1..highest /\ (highest + 1)..highest = {}
      BY <1>3
    <2>2. LaterThan(n, highest) = {}
      BY <1>1, <2>1
    <2> QED
      BY <2>1, <2>2 DEF Trophies
  <1>4. ASSUME NEW b \in 1..highest, highest - b < HistoryMax PROVE b \in BidHistory(n)
    <2>1. HistoryMax \in Nat
      BY WebAuctionAssumption
    <2>2. Cardinality(LaterThan(n, b)) < HistoryMax
      BY <1>2, <1>4, <2>1
    <2> QED
      BY <2>2 DEF BidHistory
  <1> QED
    BY <1>3, <1>4

\* Once an auction is settled its bids are those it was settled for.
LEMMA FinalBids ==
    ASSUME Tells(log, house), NEW j \in 1..Len(log), log[j].kind = "settled",
           NEW k \in 1..Len(log), j <= k
    PROVE  AmountsIn(log, log[j].noun, k) = 1..log[j].amount
  <1>1. Len(log) \in Nat
    BY LogTyped
  <1>2. AmountsIn(log, log[j].noun, j) = 1..log[j].amount
    BY DEF Tells, SettledLast
  <1>3. \A i \in 1..Len(log) : i > j /\ log[i].kind = "bid" => log[i].noun # log[j].noun
    BY DEF Tells, SettledLast
  <1>4. Of(log, "bid", log[j].noun, k) = Of(log, "bid", log[j].noun, j)
    BY <1>1, <1>3 DEF Of
  <1> QED
    BY <1>2, <1>4 DEF AmountsIn

\* What the subgraph tells of a noun.
LEMMA FoundInPast ==
    ASSUME AuctionInv, NEW n, findAuction(n) # Null
    PROVE  /\ past # Null /\ past \in 0..Len(log)
           /\ findAuction(n).bids = BidsOf(n, past)
           /\ findAuction(n).amount = HighestOf({0} \cup BidsOf(n, past))
           /\ findAuction(n).startTime \in EventsOf("created", n, past)
  <1>1. /\ n \in DOMAIN pastAuctions /\ findAuction(n) = pastAuctions[n]
    BY DEF findAuction
  <1> DEFINE k == IF past = Null THEN 0 ELSE past
  <1>2. /\ EventsOf("created", n, k) # {}
        /\ findAuction(n).bids = BidsOf(n, k)
        /\ findAuction(n).amount = HighestOf({0} \cup BidsOf(n, k))
        /\ findAuction(n).startTime = StartTime(n, k)
    BY <1>1 DEF pastAuctions, reduxSafePastAuctions, latestAuctionsQuery
  <1>3. past # Null
    BY <1>2 DEF EventsOf
  <1>4. past \in 0..Len(log) /\ k = past /\ Len(log) \in Nat
    BY <1>3, LogTyped DEF AuctionInv, ViewInv
  <1>5. StartTime(n, past) \in EventsOf("created", n, past)
    <2> DEFINE S == {0} \cup EventsOf("created", n, past)
    <2>1. S \subseteq 0..past /\ S # {} /\ past \in Nat
      BY <1>4 DEF EventsOf
    <2>2. HighestOf(S) \in S /\ \A y \in S : y <= HighestOf(S)
      <3> HIDE DEF S
      <3> QED
        BY <2>1, HighestExists
    <2>3. PICK i \in EventsOf("created", n, past) : i \in 1..past
      BY <1>2, <1>4 DEF EventsOf
    <2>4. i <= HighestOf(S)
      BY <2>2, <2>3
    <2>5. HighestOf(S) # 0
      BY <2>1, <2>3, <2>4
    <2>6. HighestOf(S) \in EventsOf("created", n, past)
      BY <2>2, <2>5
    <2> QED
      BY <2>6 DEF StartTime
  <1> QED
    BY <1>2, <1>3, <1>4, <1>5

\* With everything delivered the store has the auction of the auction house.
LEMMA StoreCatchesUp ==
    ASSUME AuctionInv, phase = "live", ~Delivering, ~missed
    PROVE  /\ active = house /\ bids = 1..house.amount /\ last = house.noun
           /\ onDisplay # Null => onDisplay \in 0..house.noun
  <1>1. Tells(log, house) /\ ViewInv /\ LiveInv
    BY DEF AuctionInv
  <1>2. /\ house.noun \in Nat /\ house.amount \in Nat /\ house \in NounAuctions
        /\ Len(log) \in Nat
    BY <1>1, LogTyped
  <1>3. next..Len(log) = {} /\ blocks = {}
    BY <1>1, <1>2 DEF Delivering, LiveInv
  <1>4. Stored /\ Displayed
    BY <1>1, <1>3 DEF LiveInv, Announced
  <1>5. /\ active \in NounAuctions /\ active.noun = house.noun /\ last = house.noun
        /\ active.settled = house.settled /\ active.extensions = house.extensions
        /\ active.amount <= house.amount /\ bids \subseteq 1..active.amount
        /\ 1..house.amount \subseteq bids
    BY <1>3, <1>4 DEF Stored, Coming
  <1>6. active.amount \in Nat
    BY <1>5 DEF NounAuctions
  <1>7. active.amount = house.amount
    <2>1. CASE house.amount = 0
      BY <2>1, <1>5, <1>6
    <2>2. CASE house.amount > 0
      <3>1. house.amount \in bids
        BY <2>2, <1>2, <1>5
      <3>2. house.amount \in 1..active.amount
        BY <3>1, <1>5
      <3> QED
        BY <3>2, <1>2, <1>5, <1>6
    <2> QED
      BY <2>1, <2>2, <1>2
  <1>8. active = house
    BY <1>2, <1>5, <1>7 DEF NounAuctions
  <1>9. onDisplay # Null => onDisplay \in 0..house.noun
    BY <1>1, <1>2, <1>4 DEF Displayed, ViewInv, NounOrNone
  <1> QED
    BY <1>5, <1>7, <1>8, <1>9

\* The fields of what is beside the picture.
LEMMA ActivityHas ==
    ASSUME NEW a, NEW over
    PROVE  LET shown == AuctionActivity(a, over)
           IN  /\ shown.panel = "activity" /\ shown.noun = a.noun /\ shown.date = a.startTime
               /\ shown.currentBid.amount = a.amount
               /\ shown.bid <=> a.noun = last
               /\ shown.newest = IF a.noun = last THEN BidHistory(a.noun) ELSE {}
               /\ shown.card = IF a.noun = last THEN Null ELSE NounInfoCard(a.noun)
               /\ shown.allBids <=> a.noun = last /\ a.amount # 0
               /\ shown.winner = IF over THEN Winner(a.amount, FALSE) ELSE Null
  <1> DEFINE shown == AuctionActivity(a, over)
  <1>1. shown.currentBid = CurrentBid(a.amount, over)
    BY DEF AuctionActivity
  <1>2. CurrentBid(a.amount, over).amount = a.amount
    BY DEF CurrentBid
  <1>3. shown.currentBid.amount = a.amount
    <2> HIDE DEF shown
    <2> QED
      BY <1>1, <1>2
  <1>4. shown.panel = "activity" /\ shown.noun = a.noun /\ shown.date = a.startTime
    BY DEF AuctionActivity
  <1>5. /\ shown.bid <=> a.noun = last
        /\ shown.allBids <=> a.noun = last /\ a.amount # 0
    BY DEF AuctionActivity
  <1>6. /\ shown.newest = IF a.noun = last THEN BidHistory(a.noun) ELSE {}
        /\ shown.card = IF a.noun = last THEN Null ELSE NounInfoCard(a.noun)
        /\ shown.winner = IF over THEN Winner(a.amount, FALSE) ELSE Null
    BY DEF AuctionActivity
  <1> HIDE DEF shown
  <1> QED
    BY <1>3, <1>4, <1>5, <1>6 DEF shown

LEMMA ShowsCurrent ==
    ASSUME AuctionInv, phase = "live", ~Delivering, ~missed,
           useOnDisplayAuction # Null, onDisplay = house.noun, NEW over \in BOOLEAN
    PROVE  /\ AuctionContent(over).noun = house.noun
           /\ CurrentShown(AuctionContent(over))
  <1> DEFINE auction_ == useOnDisplayAuction
             shown == AuctionContent(over)
  <1>1. active = house /\ bids = 1..house.amount /\ last = house.noun
    BY StoreCatchesUp
  <1>2. Tells(log, house) /\ house.amount \in Nat
    BY LogTyped DEF AuctionInv
  <1>3. auction_.noun = house.noun /\ auction_.amount = house.amount
    BY <1>1 DEF useOnDisplayAuction, deserializeAuction
  <1>4. ~isNounderNoun(house.noun)
    BY <1>2 DEF Tells
  <1>5. shown = AuctionActivity(auction_, over)
    BY <1>3, <1>4 DEF AuctionContent
  <1>6. /\ shown.noun = house.noun /\ shown.bid /\ shown.card = Null
        /\ shown.newest = BidHistory(house.noun)
        /\ shown.currentBid.amount = house.amount
        /\ shown.allBids <=> house.amount # 0
    <2>1. auction_.noun = last
      BY <1>1, <1>3
    <2> HIDE DEF auction_, shown
    <2>2. shown.noun = auction_.noun /\ shown.currentBid.amount = auction_.amount
      BY <1>5, ActivityHas
    <2>3. shown.bid /\ (shown.allBids <=> auction_.amount # 0)
      BY <2>1, <1>5, ActivityHas
    <2>4. shown.newest = IF auction_.noun = last THEN BidHistory(auction_.noun) ELSE {}
      BY <1>5, ActivityHas
    <2>5. shown.card = IF auction_.noun = last THEN Null ELSE NounInfoCard(auction_.noun)
      BY <1>5, ActivityHas
    <2> QED
      BY <2>1, <2>2, <2>3, <2>4, <2>5, <1>1, <1>3
  <1>7. ~ActivityFeed
    BY <1>1, <1>3 DEF ActivityFeed
  <1>8. useAuctionBids(house.noun) = 1..house.amount
    BY <1>1 DEF useAuctionBids
  <1>9. AmountsIn(log, house.noun, Len(log)) = 1..house.amount
    BY <1>2 DEF Tells, BidsAscend
  <1>10. /\ house.amount > 0 => house.amount \in Trophies(house.noun)
         /\ \A b \in 1..house.amount :
                house.amount - b < HistoryMax => b \in BidHistory(house.noun)
    BY <1>2, <1>8, <1>9, NewestListed
  <1>11. shown.allBids <=> house.amount > 0
    BY <1>2, <1>6
  <1> HIDE DEF shown
  <1>12. CurrentShown(shown)
    BY <1>6, <1>7, <1>10, <1>11 DEF CurrentShown
  <1> QED
    BY <1>6, <1>12 DEF shown

LEMMA ShowsPast ==
    ASSUME AuctionInv, phase = "live", ~Delivering, ~missed,
           useOnDisplayAuction # Null, onDisplay # house.noun, ~isNounderNoun(onDisplay)
    PROVE  /\ AuctionContent(TRUE).noun = onDisplay /\ AuctionContent(TRUE).panel = "activity"
           /\ PastShown(AuctionContent(TRUE))
  <1> DEFINE n == onDisplay
             auction_ == useOnDisplayAuction
             shown == AuctionContent(TRUE)
  <1>1. active = house /\ last = house.noun /\ n # last
    BY StoreCatchesUp
  <1>2. Tells(log, house) /\ Len(log) \in Nat
    BY LogTyped DEF AuctionInv
  <1>3. /\ findAuction(n) # Null
        /\ auction_ = deserializeAuction(findAuction(n), findAuction(n).startTime)
    BY <1>1 DEF useOnDisplayAuction
  <1>4. /\ past # Null /\ past \in 0..Len(log)
        /\ findAuction(n).bids = BidsOf(n, past)
        /\ findAuction(n).amount = HighestOf({0} \cup BidsOf(n, past))
        /\ findAuction(n).startTime \in EventsOf("created", n, past)
    BY <1>3, FoundInPast
  <1>5. /\ auction_.noun = n /\ auction_.amount = findAuction(n).amount
        /\ auction_.startTime = findAuction(n).startTime
    BY <1>3, ShowsDisplayed DEF deserializeAuction
  <1>6. shown = AuctionActivity(auction_, TRUE)
    BY <1>5 DEF AuctionContent
  <1> HIDE DEF n
  <1>7. /\ shown.noun = n /\ shown.panel = "activity" /\ ~shown.bid
        /\ shown.date = findAuction(n).startTime
        /\ shown.currentBid.amount = findAuction(n).amount
        /\ shown.winner.name = IF findAuction(n).amount \in Ours THEN "You" ELSE "bidder"
        /\ shown.card = NounInfoCard(n)
    <2>1. auction_.noun # last
      BY <1>1, <1>5
    <2> HIDE DEF auction_, shown
    <2>2. /\ shown.panel = "activity" /\ shown.noun = auction_.noun
          /\ shown.date = auction_.startTime /\ shown.currentBid.amount = auction_.amount
          /\ shown.bid <=> auction_.noun = last
          /\ shown.card = IF auction_.noun = last THEN Null ELSE NounInfoCard(auction_.noun)
          /\ shown.winner = Winner(auction_.amount, FALSE)
      BY <1>6, ActivityHas
    <2>3. Winner(auction_.amount, FALSE).name =
              IF auction_.amount \in Ours THEN "You" ELSE "bidder"
      BY DEF Winner
    <2>4. shown.winner.name = IF findAuction(n).amount \in Ours THEN "You" ELSE "bidder"
      BY <2>2, <2>3, <1>5
    <2> QED
      BY <2>1, <2>2, <2>4, <1>5
  <1>8. ActivityFeed
    BY <1>1, <1>5 DEF ActivityFeed
  <1>9. /\ shown.card.birthday = findAuction(n).startTime
        /\ shown.card.bidHistory = BidsOf(n, past)
    <2>1. NounInfoRowBirthday(n) = findAuction(n).startTime
      BY <1>3 DEF NounInfoRowBirthday, n
    <2>2. BidHistoryModal(n) = BidsOf(n, past)
      BY <1>1, <1>3, <1>4 DEF BidHistoryModal, useAuctionBids
    <2> HIDE DEF shown
    <2> QED
      BY <2>1, <2>2, <1>7 DEF NounInfoCard
  <1>10. ASSUME NEW amount \in {log[i].amount : i \in EventsOf("settled", n, past)}
         PROVE  /\ shown.currentBid.amount = amount
                /\ shown.winner.name = "You" <=> amount \in Ours
                /\ shown.card.bidHistory = 1..amount
                /\ amount > 0 => amount \in Trophies(n)
    <2>1. PICK j \in 1..past :
              log[j].kind = "settled" /\ log[j].noun = n /\ log[j].amount = amount
      BY DEF EventsOf
    <2>2. j \in 1..Len(log) /\ past \in 1..Len(log) /\ Len(log) \in 1..Len(log)
          /\ j <= past /\ j <= Len(log)
      BY <2>1, <1>2, <1>4
    <2>3. amount \in Nat
      BY <2>1, <2>2, <1>2, LogTyped
    <2>4. AmountsIn(log, n, past) = 1..amount /\ AmountsIn(log, n, Len(log)) = 1..amount
      BY <2>1, <2>2, <1>2, FinalBids
    <2>5. BidsOf(n, past) = 1..amount
      BY <2>4, EventsAre
    <2>6. findAuction(n).amount = amount
      <3> DEFINE S == {0} \cup BidsOf(n, past)
      <3>1. S \subseteq 0..amount /\ S # {}
        BY <2>3, <2>5
      <3>2. HighestOf(S) \in S /\ \A y \in S : y <= HighestOf(S)
        <4> HIDE DEF S
        <4> QED
          BY <2>3, <3>1, HighestExists
      <3>3. HighestOf(S) = amount
        <4>1. amount \in S
          BY <2>3, <2>5
        <4>2. HighestOf(S) \in 0..amount /\ amount <= HighestOf(S)
          <5> HIDE DEF S
          <5> QED
            BY <3>1, <3>2, <4>1
        <4> QED
          BY <2>3, <4>2
      <3> QED
        BY <3>3, <1>4
    <2>7. useAuctionBids(n) = 1..amount
      BY <2>5, <1>1, <1>3, <1>4 DEF useAuctionBids
    <2>8. amount > 0 => amount \in Trophies(n)
      BY <2>3, <2>4, <2>7, <1>2, NewestListed
    <2>9. shown.winner.name = "You" <=> amount \in Ours
      <3>1. shown.winner.name = IF amount \in Ours THEN "You" ELSE "bidder"
        BY <2>6, <1>7
      <3> HIDE DEF shown
      <3> QED
        BY <3>1
    <2> HIDE DEF shown
    <2> QED
      BY <2>5, <2>6, <2>8, <2>9, <1>7, <1>9
  <1> HIDE DEF shown
  <1>11. PastShown(shown)
    BY <1>4, <1>7, <1>8, <1>9, <1>10 DEF PastShown
  <1> QED
    BY <1>7, <1>11 DEF shown, n

LEMMA ShowsNounders ==
    ASSUME AuctionInv, phase = "live", ~Delivering, ~missed,
           useOnDisplayAuction # Null, isNounderNoun(onDisplay)
    PROVE  /\ AuctionContent(TRUE).noun = onDisplay /\ AuctionContent(TRUE).panel = "nounders"
           /\ AuctionContent(TRUE).date \in
                  {0} \cup EventsOf("created", onDisplay + 1, Len(log))
  <1>1. active = house
    BY StoreCatchesUp
  <1>2. Tells(log, house) /\ Len(log) \in Nat
    BY LogTyped DEF AuctionInv
  <1>3. onDisplay # active.noun
    BY <1>1, <1>2 DEF Tells
  <1>4. useOnDisplayAuction = generateEmptyNounderAuction(onDisplay)
    BY <1>3 DEF useOnDisplayAuction
  <1> DEFINE date == IF findAuction(onDisplay + 1) = Null THEN 0
                     ELSE findAuction(onDisplay + 1).startTime
  <1>5. useOnDisplayAuction.noun = onDisplay /\ useOnDisplayAuction.startTime = date
    BY <1>4 DEF generateEmptyNounderAuction
  <1>6. AuctionContent(TRUE) = NounderNounContent(useOnDisplayAuction)
    BY <1>5 DEF AuctionContent
  <1>7. date \in {0} \cup EventsOf("created", onDisplay + 1, Len(log))
    <2>1. CASE findAuction(onDisplay + 1) = Null
      BY <2>1
    <2>2. CASE findAuction(onDisplay + 1) # Null
      <3>1. /\ past \in 0..Len(log)
            /\ findAuction(onDisplay + 1).startTime \in EventsOf("created", onDisplay + 1, past)
        BY <2>2, FoundInPast
      <3>2. EventsOf("created", onDisplay + 1, past) \subseteq
                EventsOf("created", onDisplay + 1, Len(log))
        BY <3>1, <1>2 DEF EventsOf
      <3> QED
        BY <2>2, <3>1, <3>2
    <2> QED
      BY <2>1, <2>2
  <1> HIDE DEF date
  <1>8. /\ NounderNounContent(useOnDisplayAuction).noun = useOnDisplayAuction.noun
        /\ NounderNounContent(useOnDisplayAuction).panel = "nounders"
        /\ NounderNounContent(useOnDisplayAuction).date = useOnDisplayAuction.startTime
    BY DEF NounderNounContent
  <1> QED
    BY <1>5, <1>6, <1>7, <1>8

\* ChainSubscriber, the reducers and the arrows: when everything was delivered, in whatever
\* order the blocks of bids came, the store has what the auction house has, and the page
\* shows it, or of an earlier noun what the subgraph had of it.
THEOREM PageInTheEnd == Spec => []PageCatchesUp
  <1>1. AuctionInv => PageCatchesUp
    <2> SUFFICES ASSUME AuctionInv, phase = "live", ~Delivering, ~missed
                 PROVE  /\ active = house /\ bids = 1..house.amount
                        /\ AuctionContent(TRUE) # Null =>
                             LET shown == AuctionContent(TRUE)
                             IN  /\ shown.noun \in 0..house.noun
                                 /\ IF shown.noun = house.noun
                                    THEN /\ CurrentShown(shown)
                                         /\ CurrentShown(AuctionContent(FALSE))
                                    ELSE IF shown.panel = "nounders"
                                    THEN shown.date \in
                                           {0} \cup EventsOf("created", shown.noun + 1, Len(log))
                                    ELSE PastShown(shown)
      BY DEF PageCatchesUp
    <2>1. /\ active = house /\ bids = 1..house.amount
          /\ onDisplay # Null => onDisplay \in 0..house.noun
      BY StoreCatchesUp
    <2>2. ~isNounderNoun(house.noun)
      BY DEF AuctionInv, Tells
    <2>3. AuctionContent(TRUE) # Null => useOnDisplayAuction # Null
      BY DEF AuctionContent
    <2>4. CASE useOnDisplayAuction = Null
      BY <2>1, <2>3, <2>4
    <2>5. CASE useOnDisplayAuction # Null /\ onDisplay = house.noun
      <3>1. AuctionContent(TRUE).noun = house.noun
            /\ CurrentShown(AuctionContent(TRUE)) /\ CurrentShown(AuctionContent(FALSE))
        BY <2>5, ShowsCurrent
      <3>2. onDisplay \in 0..house.noun
        BY <2>1, <2>5, ShowsDisplayed
      <3> QED
        BY <2>1, <2>5, <3>1, <3>2
    <2>6. CASE useOnDisplayAuction # Null /\ isNounderNoun(onDisplay)
      <3>1. /\ AuctionContent(TRUE).noun = onDisplay /\ AuctionContent(TRUE).panel = "nounders"
            /\ AuctionContent(TRUE).date \in
                   {0} \cup EventsOf("created", onDisplay + 1, Len(log))
        BY <2>6, ShowsNounders
      <3>2. onDisplay \in 0..house.noun /\ onDisplay # house.noun
        BY <2>1, <2>2, <2>6, ShowsDisplayed
      <3> QED
        BY <2>1, <3>1, <3>2
    <2>7. CASE useOnDisplayAuction # Null /\ onDisplay # house.noun /\ ~isNounderNoun(onDisplay)
      <3>1. /\ AuctionContent(TRUE).noun = onDisplay /\ AuctionContent(TRUE).panel = "activity"
            /\ PastShown(AuctionContent(TRUE))
        BY <2>7, ShowsPast
      <3>2. onDisplay \in 0..house.noun
        BY <2>1, <2>7, ShowsDisplayed
      <3> QED
        BY <2>1, <2>7, <3>1, <3>2
    <2> QED
      BY <2>4, <2>5, <2>6, <2>7
  <1> QED
    BY <1>1, AuctionStarts, AuctionKept, AuctionAlone, PTL DEF AuctionPageSpec

=============================================================================
