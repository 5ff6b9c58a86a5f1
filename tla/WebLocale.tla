----------------------------- MODULE WebLocale -----------------------------
(***************************************************************************)
(* The language of the web application.  The choice is kept in the         *)
(* browser's local storage, which other tabs share; its catalog is         *)
(* imported, and the language is activated when that import ends, however  *)
(* it ends and whatever was chosen since.  LanguageProvider activates the  *)
(* language of the start twice, once for each of its two callbacks.  An    *)
(* import of a catalog that was imported before ends at once.              *)
(***************************************************************************)
EXTENDS WebTransactions

CONSTANTS
    SUPPORTED_LOCALES,
    DEFAULT_LOCALE,
    Browsers     \* languages of the browser, in the form of SUPPORTED_LOCALES

ASSUME WebLocaleAssumption ==
    DEFAULT_LOCALE \in SUPPORTED_LOCALES /\ Null \notin SUPPORTED_LOCALES \cup Browsers

VARIABLES
    lang,         \* localStorage.lang, or Null
    navigator,    \* the language of the browser
    locale,       \* i18n.locale: the language activated last, or Null
    catalogs,     \* the catalogs imported
    activations,  \* the calls of dynamicActivate that wait for their import
    menu,         \* the dropdown or, on a small screen, the modal of languages, or Null
    chosen,       \* history: the last choice made here, or what the page was opened with
    rivals        \* history: the other languages that were being imported when that choice
                  \* was made, and were not in before it was activated

localeVars == <<lang, navigator, locale, catalogs, activations, menu, chosen, rivals>>

navigatorLocale == IF navigator \in SUPPORTED_LOCALES THEN navigator ELSE Null

Or(a, b) == IF a # Null THEN a ELSE b

\* What was stored is of SUPPORTED_LOCALES: parseLocale finds it.
initialLocale == Or(lang, Or(navigatorLocale, DEFAULT_LOCALE))

\* Fault: what the user chose before is not looked at.
useActiveLocale_Browser == Or(navigatorLocale, navigator)

\* fromNavigator returns the browser's language, supported or not.
useActiveLocale == Or(lang, Or(navigatorLocale, navigator))

\* The page is opened: initialLocale is activated, then LanguageProvider rendered, which
\* activates the default language at once but with no catalog.
LocaleInit ==
    /\ lang \in SUPPORTED_LOCALES \cup {Null} /\ navigator \in Browsers
    /\ locale = IF useActiveLocale = DEFAULT_LOCALE THEN DEFAULT_LOCALE ELSE Null
    /\ activations = {[locale |-> initialLocale, by |-> "user"],
                      [locale |-> useActiveLocale, by |-> "provider"]}
    /\ catalogs = {} /\ menu = Null
    /\ chosen = initialLocale
    /\ rivals = IF lang # Null THEN {} ELSE {useActiveLocale} \ {initialLocale}

OpenAgain ==
    /\ locale' = IF useActiveLocale = DEFAULT_LOCALE THEN DEFAULT_LOCALE ELSE Null
    /\ activations' = {[locale |-> initialLocale, by |-> "user"],
                       [locale |-> useActiveLocale, by |-> "provider"]}
    /\ catalogs' = {} /\ menu' = Null
    /\ chosen' = initialLocale
    /\ rivals' = IF lang # Null THEN {} ELSE {useActiveLocale} \ {initialLocale}
    /\ UNCHANGED <<lang, navigator>>

-----------------------------------------------------------------------------
\* i18n.activate: everything below I18nProvider is made anew when the language changes,
\* the menu included.
I18nProvider == menu' = IF locale' = locale THEN menu ELSE Null

\* dynamicActivate of the user's choice.
dynamicActivate(l) ==
    IF l \in catalogs THEN locale' = l /\ UNCHANGED activations
    ELSE /\ activations' = activations \cup {[locale |-> l, by |-> "user"]}
         /\ UNCHANGED locale

\* Once the choice is activated only what is still imported can come after it.
RivalsAfter(l) ==
    IF l = chosen THEN {rival \in rivals : \E call \in activations' : call.locale = rival}
    ELSE rivals

\* The import ends for all calls that wait for it, then onActivate of LanguageProvider
\* activates the language again.
Imported(l) ==
    /\ l \in SUPPORTED_LOCALES /\ \E call \in activations : call.locale = l
    /\ catalogs' = catalogs \cup {l}
    /\ activations' = {call \in activations : call.locale # l}
    /\ locale' = l /\ I18nProvider
    /\ rivals' = RivalsAfter(l)
    /\ UNCHANGED <<lang, navigator, chosen>>

\* The error is dropped and the language activated all the same.
ImportFails(l) ==
    /\ \E call \in activations : call.locale = l
    /\ activations' = {call \in activations : call.locale # l} \cup
                      {[locale |-> l, by |-> "user"] :
                        call \in {c \in activations : c.locale = l /\ c.by = "provider"}}
    /\ locale' = l /\ I18nProvider
    /\ rivals' = RivalsAfter(l)
    /\ UNCHANGED <<lang, navigator, catalogs, chosen>>

-----------------------------------------------------------------------------
\* Nothing is rendered before a language is activated.
NavLocaleSwitcher(m) ==
    /\ locale # Null /\ menu # m
    /\ menu' = m
    /\ UNCHANGED <<lang, navigator, locale, catalogs, activations, chosen, rivals>>

\* The language ticked in the menu.
Ticked == useActiveLocale

setLocale(l) ==
    /\ IF lang = l THEN UNCHANGED <<lang, locale, activations, chosen, rivals>>
       ELSE /\ lang' = l
            /\ dynamicActivate(l)
            /\ chosen' = l
            /\ rivals' = {call.locale : call \in activations} \ {l}
    /\ UNCHANGED <<navigator, catalogs>>

\* A click in the dropdown leaves it open; in the modal it closes it.
ClickInDropdown(l) == menu = "dropdown" /\ setLocale(l) /\ I18nProvider
LanguageSelectionModal(l) == menu = "modal" /\ setLocale(l) /\ menu' = Null

\* Another tab of the application stores its user's choice.
OtherTab(l) ==
    /\ lang # l
    /\ lang' = l
    /\ UNCHANGED <<navigator, locale, catalogs, activations, menu, chosen, rivals>>

LocaleNext ==
    \/ OpenAgain
    \/ \E l \in SUPPORTED_LOCALES \cup Browsers : Imported(l) \/ ImportFails(l)
    \/ \E m \in {Null, "dropdown", "modal"} : NavLocaleSwitcher(m)
    \/ \E l \in SUPPORTED_LOCALES :
        ClickInDropdown(l) \/ LanguageSelectionModal(l) \/ OtherTab(l)

-----------------------------------------------------------------------------
(* Correctness.                                                            *)

\* Once its imports have ended, the page is in the language that was chosen in it last,
\* whether or not the catalogs came, or in one whose import had begun before that choice
\* and ended after it: no other choice can undo it, nor can another tab's, which the page
\* goes by only when it is opened again.  Unless another tab has chosen since, the
\* language shown is then the one ticked.  With none chosen it is the browser's, or the
\* default one where the browser's is not supported; none is ticked then.
LanguageAsChosen ==
    activations = {} =>
        /\ locale \in {chosen} \cup rivals
        /\ rivals = {} /\ (lang = chosen \/ (lang = Null /\ navigatorLocale # Null))
               => Ticked = locale
=============================================================================
