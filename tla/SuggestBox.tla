----------------------------- MODULE SuggestBox -----------------------------
(***************************************************************************)
(* The typeahead page: the search box with its debounce timer, the         *)
(* requests to /suggest under way, the list and the hint they fill, the    *)
(* form's POST /search, and the trending panel.                            *)
(*                                                                         *)
(* One action is one task of the browser's event loop: an event listener,  *)
(* a timer callback, or the rest of an async function after its fetch has  *)
(* ended.  Answers arrive in any order, and any of them may fail.          *)
(*                                                                         *)
(* A text is what the input listener passes on, without leading blanks;    *)
(* Blank stands for every text with nothing else in it.                    *)
(***************************************************************************)
EXTENDS Integers, Sequences

CONSTANTS
    Texts,       \* what may stand in the box, Blank excluded
    Blank,
    Results,     \* text -> the lists /suggest may answer it with
    Trends,      \* the sets of queries /trending may answer
    MaxEdits,    \* bound: edits of the box
    MaxBlurs,    \* bound: blur timers running at a time
    MaxSubmits,  \* bound: POST /search under way at a time
    MaxLoads     \* bound: GET /trending under way at a time

ASSUME TextsAssumption == Blank \notin Texts
ASSUME ResultsAssumption == Results \in [Texts -> SUBSET Seq(Texts)]
ASSUME TrendsAssumption == Trends \subseteq SUBSET Texts
ASSUME BoundsAssumption ==
    /\ MaxEdits \in Nat
    /\ MaxBlurs \in Nat
    /\ MaxSubmits \in Nat
    /\ MaxLoads \in Nat \ {0}

VARIABLES
    input,            \* searchInput.value
    edits,            \* edits so far
    wanted,           \* the text scheduleFetch was last called with
    debounceTimer,    \* the text the running timer will ask for, or Blank
    requestSequence,
    requests,         \* fetches of /suggest under way
    currentSuggestions,
    answered,         \* the text currentSuggestions answers, or Blank
    activeIndex,      \* the item the arrow keys chose, or -1
    hint,             \* which message searchHint shows
    blurTimers,       \* blur timers running
    submits,          \* fetches of POST /search under way
    status,           \* which message searchStatus shows
    loads,            \* fetches of /trending under way
    trending          \* the queries the trending panel lists

list == <<currentSuggestions, answered, activeIndex>>
fetching == <<debounceTimer, requestSequence, requests>>
form == <<submits, status>>
panel == <<loads, trending>>
vars == <<input, edits, wanted, fetching, list, hint, blurTimers, form, panel>>

Hints == {"start", "searching", "selected", "found", "none", "error"}
Statuses == {"", "empty", "submitting", "recorded", "failed"}

ClearSuggestions ==
    /\ currentSuggestions' = <<>>
    /\ answered' = Blank
    /\ activeIndex' = -1

\* MUTANT: the new list is shown under the old choice.
RenderKeepingChoice(text, suggestions) ==
    /\ currentSuggestions' = suggestions
    /\ answered' = IF suggestions = <<>> THEN Blank ELSE text
    /\ UNCHANGED activeIndex

RenderSuggestions(text, suggestions) ==
    /\ currentSuggestions' = suggestions
    /\ answered' = IF suggestions = <<>> THEN Blank ELSE text
    /\ activeIndex' = -1

\* The page has run its script, which asks for the trending queries.
Init ==
    /\ input = Blank
    /\ edits = 0
    /\ wanted = Blank
    /\ debounceTimer = Blank
    /\ requestSequence = 0
    /\ requests = {}
    /\ currentSuggestions = <<>>
    /\ answered = Blank
    /\ activeIndex = -1
    /\ hint = "start"
    /\ blurTimers = 0
    /\ submits = 0
    /\ status = ""
    /\ loads = 1
    /\ trending = {}

-----------------------------------------------------------------------------
(* Typing, and the requests it leads to.                                   *)

\* scheduleFetch replaces the timer; an emptied box has none, but a request
\* under way remains the latest.
ScheduleFetch(text) ==
    /\ edits < MaxEdits
    /\ edits' = edits + 1
    /\ input' = text
    /\ wanted' = text
    /\ debounceTimer' = text
    /\ \/ /\ text = Blank
          /\ ClearSuggestions
          /\ hint' = "start"
       \/ /\ text # Blank
          /\ hint' = "searching"
          /\ UNCHANGED list
    /\ UNCHANGED <<requestSequence, requests, blurTimers, form, panel>>

Edit == \E text \in (Texts \cup {Blank}) : ScheduleFetch(text)

ClickTrending == \E text \in trending : ScheduleFetch(text)

\* MUTANT: the sequence number is read before it is incremented.
FireDebouncePostfix ==
    /\ debounceTimer # Blank
    /\ requestSequence' = requestSequence + 1
    /\ requests' = requests \cup
                    {[sequence |-> requestSequence, prefix |-> debounceTimer]}
    /\ debounceTimer' = Blank
    /\ UNCHANGED <<input, edits, wanted, list, hint, blurTimers, form, panel>>

FireDebounce ==
    /\ debounceTimer # Blank
    /\ requestSequence' = requestSequence + 1
    /\ requests' = requests \cup
                    {[sequence |-> requestSequence + 1, prefix |-> debounceTimer]}
    /\ debounceTimer' = Blank
    /\ UNCHANGED <<input, edits, wanted, list, hint, blurTimers, form, panel>>

\* MUTANT: every answer is rendered, the latest or not.
AnyRequest(r) == TRUE

LatestRequest(r) == r.sequence = requestSequence

\* MUTANT: the hint is chosen by the answer instead of the list.
HintOfAnswer(suggestions) == IF suggestions = <<>> THEN "none" ELSE "found"

\* Evaluated after the list was, or was not, rendered.
HintOfList(suggestions) == IF currentSuggestions' = <<>> THEN "none" ELSE "found"

\* An answer that is not the latest is dropped, but its hint is not.
Respond(r, suggestions) ==
    /\ requests' = requests \ {r}
    /\ \/ LatestRequest(r) /\ RenderSuggestions(r.prefix, suggestions)
       \/ ~LatestRequest(r) /\ UNCHANGED list
    /\ hint' = HintOfList(suggestions)
    /\ UNCHANGED <<input, edits, wanted, debounceTimer, requestSequence,
                   blurTimers, form, panel>>

\* An error status, a lost connection, a broken body: whichever request it
\* is, the list that is shown goes.
RespondError(r) ==
    /\ requests' = requests \ {r}
    /\ ClearSuggestions
    /\ hint' = "error"
    /\ UNCHANGED <<input, edits, wanted, debounceTimer, requestSequence,
                   blurTimers, form, panel>>

Answer ==
    \E r \in requests :
        \/ \E suggestions \in Results[r.prefix] : Respond(r, suggestions)
        \/ RespondError(r)

-----------------------------------------------------------------------------
(* The list.                                                               *)

\* A mouse press on item i, or Enter on the chosen one.  Setting the value
\* raises no input event: timer and requests go on.
SelectSuggestion(i) ==
    /\ input' = currentSuggestions[i + 1]
    /\ ClearSuggestions
    /\ hint' = "selected"
    /\ UNCHANGED <<edits, wanted, fetching, blurTimers, form, panel>>

Press == \E i \in 0 .. Len(currentSuggestions) - 1 : SelectSuggestion(i)

EnterOnItem ==
    /\ activeIndex >= 0
    /\ currentSuggestions # <<>>
    /\ SelectSuggestion(activeIndex)

ArrowDown ==
    /\ currentSuggestions # <<>>
    /\ activeIndex' = IF activeIndex + 1 < Len(currentSuggestions)
                      THEN activeIndex + 1 ELSE Len(currentSuggestions) - 1
    /\ UNCHANGED <<input, edits, wanted, fetching, currentSuggestions, answered,
                   hint, blurTimers, form, panel>>

ArrowUp ==
    /\ currentSuggestions # <<>>
    /\ activeIndex' = IF activeIndex > 0 THEN activeIndex - 1 ELSE 0
    /\ UNCHANGED <<input, edits, wanted, fetching, currentSuggestions, answered,
                   hint, blurTimers, form, panel>>

\* The list closes; timer and requests go on.
Escape ==
    /\ ClearSuggestions
    /\ hint' = "start"
    /\ UNCHANGED <<input, edits, wanted, fetching, blurTimers, form, panel>>

Blur ==
    /\ blurTimers < MaxBlurs
    /\ blurTimers' = blurTimers + 1
    /\ UNCHANGED <<input, edits, wanted, fetching, list, hint, form, panel>>

FireBlur ==
    /\ blurTimers > 0
    /\ blurTimers' = blurTimers - 1
    /\ ClearSuggestions
    /\ UNCHANGED <<input, edits, wanted, fetching, hint, form, panel>>

-----------------------------------------------------------------------------
(* The form.                                                               *)

SubmitSearch ==
    /\ \/ /\ input = Blank
          /\ status' = "empty"
          /\ UNCHANGED submits
       \/ /\ input # Blank
          /\ submits < MaxSubmits
          /\ submits' = submits + 1
          /\ status' = "submitting"
    /\ UNCHANGED <<input, edits, wanted, fetching, list, hint, blurTimers, panel>>

\* The button, whatever is chosen, and Enter with nothing chosen.
ClickSearch == SubmitSearch

EnterOnText == activeIndex = -1 /\ SubmitSearch

SearchRecorded ==
    /\ submits > 0
    /\ submits' = submits - 1
    /\ ClearSuggestions
    /\ status' = "recorded"
    /\ UNCHANGED <<input, edits, wanted, fetching, hint, blurTimers, panel>>

SearchFailed ==
    /\ submits > 0
    /\ submits' = submits - 1
    /\ status' = "failed"
    /\ UNCHANGED <<input, edits, wanted, fetching, list, hint, blurTimers, panel>>

-----------------------------------------------------------------------------
(* The trending panel.                                                     *)

\* The interval asks again, whether or not the last answer has come.
FetchTrending ==
    /\ loads < MaxLoads
    /\ loads' = loads + 1
    /\ UNCHANGED <<input, edits, wanted, fetching, list, hint, blurTimers, form,
                   trending>>

\* Whatever answer comes last is shown; a failure empties the panel.
TrendingAnswer ==
    /\ loads > 0
    /\ loads' = loads - 1
    /\ trending' \in Trends \cup {{}}
    /\ UNCHANGED <<input, edits, wanted, fetching, list, hint, blurTimers, form>>

-----------------------------------------------------------------------------

Next ==
    \/ Edit
    \/ ClickTrending
    \/ FireDebounce
    \/ Answer
    \/ Press
    \/ EnterOnItem
    \/ ArrowDown
    \/ ArrowUp
    \/ Escape
    \/ Blur
    \/ FireBlur
    \/ ClickSearch
    \/ EnterOnText
    \/ SearchRecorded
    \/ SearchFailed
    \/ FetchTrending
    \/ TrendingAnswer

Spec == Init /\ [][Next]_vars

-----------------------------------------------------------------------------
(* Properties.                                                             *)

\* Every variable keeps to the values the page can give it.
TypeOK ==
    /\ input \in Texts \cup {Blank}
    /\ edits \in 0 .. MaxEdits
    /\ wanted \in Texts \cup {Blank}
    /\ debounceTimer \in Texts \cup {Blank}
    /\ requestSequence \in Nat
    /\ requests \subseteq [sequence : 1 .. requestSequence, prefix : Texts]
    /\ currentSuggestions \in Seq(Texts)
    /\ answered \in Texts \cup {Blank}
    /\ activeIndex \in Int
    /\ hint \in Hints
    /\ blurTimers \in 0 .. MaxBlurs
    /\ submits \in 0 .. MaxSubmits
    /\ status \in Statuses
    /\ loads \in 0 .. MaxLoads
    /\ trending \subseteq Texts

Pending == debounceTimer # Blank \/ requests # {}

\* With every timer and answer in, a list that is shown answers the last text
\* that was typed, in whatever order the answers came; only a box emptied
\* while its request was under way may show a list.
SettledListAnswersLastEdit ==
    ~Pending /\ currentSuggestions # <<>> /\ wanted # Blank => answered = wanted

\* What the arrow keys chose is an item of the list that is shown, also when
\* an answer replaces the list between two key presses: Enter picks no item
\* that is not there, and with no list it submits the text.
ActiveItemExists == activeIndex \in -1 .. Len(currentSuggestions) - 1

\* The hint never denies a list that is shown, whatever was cleared, rendered
\* late or dropped, and never says "Searching..." with nothing under way.
HintAgrees ==
    /\ currentSuggestions # <<>> => hint \in {"found", "searching"}
    /\ ~Pending => hint # "searching"

=============================================================================
