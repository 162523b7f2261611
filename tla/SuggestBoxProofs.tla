-------------------------- MODULE SuggestBoxProofs --------------------------
(***************************************************************************)
(* Proofs about SuggestBox, for every set of texts, every answer of the    *)
(* server, and any number of edits and requests.                           *)
(*                                                                         *)
(* SettledListAnswersLastEdit speaks of settled states only.  What makes   *)
(* it inductive is what holds on the way there: the timer and, when none   *)
(* runs, the request with the latest sequence number ask for the text that *)
(* was typed last; and once that request has ended, the list answers it.   *)
(***************************************************************************)
EXTENDS SuggestBox, TLAPS

\* The timer asks for the last text.
TimerIsWanted == debounceTimer # Blank => debounceTimer = wanted

\* With no timer running the latest request under way asks for it.
LatestIsWanted ==
    debounceTimer = Blank /\ wanted # Blank =>
        \A r \in requests : LatestRequest(r) => r.prefix = wanted

\* With the latest request ended, a list that is shown answers it.
ShownIsWanted ==
    /\ debounceTimer = Blank
    /\ wanted # Blank
    /\ \A r \in requests : ~LatestRequest(r)
    /\ currentSuggestions # <<>>
    => answered = wanted

\* TypeOK in three parts, by the actions that change them.
FetchTypes ==
    /\ input \in Texts \cup {Blank}
    /\ edits \in 0 .. MaxEdits
    /\ wanted \in Texts \cup {Blank}
    /\ debounceTimer \in Texts \cup {Blank}
    /\ requestSequence \in Nat
    /\ requests \subseteq [sequence : 1 .. requestSequence, prefix : Texts]

ListTypes ==
    /\ currentSuggestions \in Seq(Texts)
    /\ answered \in Texts \cup {Blank}
    /\ activeIndex \in Int
    /\ hint \in Hints

PageTypes ==
    /\ blurTimers \in 0 .. MaxBlurs
    /\ submits \in 0 .. MaxSubmits
    /\ status \in Statuses
    /\ loads \in 0 .. MaxLoads
    /\ trending \subseteq Texts

LEMMA TypeParts == TypeOK <=> FetchTypes /\ ListTypes /\ PageTypes
  BY DEF TypeOK, FetchTypes, ListTypes, PageTypes

USE DEF fetching, list, form, panel

\* What every edit, answer and selection is.
LEMMA EditCases ==
    ASSUME PageTypes, Edit \/ ClickTrending
    PROVE  \E text \in Texts \cup {Blank} : ScheduleFetch(text)
  BY DEF PageTypes, Edit, ClickTrending

LEMMA AnswerCases ==
    ASSUME FetchTypes, Answer
    PROVE  \E r \in requests :
              \/ RespondError(r)
              \/ \E suggestions \in Seq(Texts) :
                    /\ suggestions \in Results[r.prefix]
                    /\ Respond(r, suggestions)
<1>1. \A r \in requests : r.prefix \in Texts
  BY DEF FetchTypes
<1>2. \A t \in Texts : Results[t] \subseteq Seq(Texts)
  BY ResultsAssumption
<1> QED
  BY <1>1, <1>2 DEF Answer

LEMMA SelectCases ==
    ASSUME ActiveItemExists, ListTypes, Press \/ EnterOnItem
    PROVE  \E i \in 0 .. Len(currentSuggestions) - 1 : SelectSuggestion(i)
<1>1. CASE Press
  BY <1>1 DEF Press
<1>2. CASE EnterOnItem
  <2>1. activeIndex \in 0 .. Len(currentSuggestions) - 1
    BY <1>2 DEF EnterOnItem, ActiveItemExists, ListTypes
  <2> QED
    BY <1>2, <2>1 DEF EnterOnItem
<1> QED
  BY <1>1, <1>2

\* The actions that leave the box, its timer and its requests alone.
OffTheBox ==
    \/ ArrowDown \/ ArrowUp \/ Escape \/ Blur \/ FireBlur \/ ClickSearch
    \/ EnterOnText \/ SearchRecorded \/ SearchFailed \/ FetchTrending
    \/ TrendingAnswer

LEMMA OffTheBoxFrame ==
    ASSUME OffTheBox \/ UNCHANGED vars
    PROVE  UNCHANGED <<input, edits, wanted, fetching>>
  BY DEF OffTheBox, ArrowDown, ArrowUp, Escape, Blur, FireBlur, ClickSearch,
         EnterOnText, SubmitSearch, SearchRecorded, SearchFailed, FetchTrending,
         TrendingAnswer, vars

LEMMA NextCases ==
    ASSUME [Next]_vars
    PROVE  \/ Edit \/ ClickTrending
           \/ FireDebounce
           \/ Answer
           \/ Press \/ EnterOnItem
           \/ OffTheBox \/ UNCHANGED vars
  BY DEF Next, OffTheBox

LEMMA FetchTypesStep ==
    ASSUME FetchTypes, ListTypes, PageTypes, ActiveItemExists, [Next]_vars
    PROVE  FetchTypes'
<1>1. CASE Edit \/ ClickTrending
  <2>1. PICK text \in Texts \cup {Blank} : ScheduleFetch(text)
    BY <1>1, EditCases
  <2> QED
    BY <2>1, BoundsAssumption DEF ScheduleFetch, FetchTypes
<1>2. CASE FireDebounce
  <2>1. debounceTimer \in Texts /\ requestSequence \in Nat
    BY <1>2 DEF FireDebounce, FetchTypes
  <2>2. \A r \in requests' :
           r \in [sequence : 1 .. requestSequence + 1, prefix : Texts]
    <3>1. [sequence |-> requestSequence + 1, prefix |-> debounceTimer]
             \in [sequence : 1 .. requestSequence + 1, prefix : Texts]
      BY <2>1
    <3>2. \A r \in requests :
             r \in [sequence : 1 .. requestSequence + 1, prefix : Texts]
      BY <2>1 DEF FetchTypes
    <3> QED
      BY <1>2, <3>1, <3>2 DEF FireDebounce
  <2>3. requestSequence' = requestSequence + 1
    BY <1>2 DEF FireDebounce
  <2> QED
    BY <1>2, <2>1, <2>2, <2>3 DEF FireDebounce, FetchTypes
<1>3. CASE Answer
  <2>1. /\ UNCHANGED <<input, edits, wanted, debounceTimer, requestSequence>>
        /\ requests' \subseteq requests
    BY <1>3 DEF Answer, Respond, RespondError
  <2> QED
    BY <2>1 DEF FetchTypes
<1>4. CASE Press \/ EnterOnItem
  <2>1. PICK i \in 0 .. Len(currentSuggestions) - 1 : SelectSuggestion(i)
    BY <1>4, SelectCases
  <2>2. currentSuggestions[i + 1] \in Texts
    BY DEF ListTypes
  <2> QED
    BY <2>1, <2>2 DEF SelectSuggestion, FetchTypes
<1>5. CASE OffTheBox \/ UNCHANGED vars
  BY <1>5, OffTheBoxFrame DEF FetchTypes
<1> QED
  BY <1>1, <1>2, <1>3, <1>4, <1>5, NextCases

-----------------------------------------------------------------------------
(* The list, what is chosen in it, and the hint.                           *)

LEMMA EmptyList ==
    ASSUME ClearSuggestions
    PROVE  /\ currentSuggestions' = <<>> /\ answered' = Blank
           /\ activeIndex' = -1 /\ activeIndex' \in Int
           /\ currentSuggestions' \in Seq(Texts)
           /\ ActiveItemExists'
<1>1. currentSuggestions' = <<>> /\ answered' = Blank /\ activeIndex' = -1
  BY DEF ClearSuggestions
<1>2. Len(<<>>) = 0 /\ -1 \in Int /\ <<>> \in Seq(Texts)
  OBVIOUS
<1>3. ActiveItemExists'
  BY <1>1, <1>2 DEF ActiveItemExists
<1> QED
  BY <1>1, <1>2, <1>3

LEMMA RenderedList ==
    ASSUME NEW text \in Texts, NEW suggestions \in Seq(Texts),
           RenderSuggestions(text, suggestions)
    PROVE  /\ currentSuggestions' = suggestions
           /\ suggestions # <<>> => answered' = text
           /\ answered' \in Texts \cup {Blank}
           /\ activeIndex' = -1 /\ activeIndex' \in Int
           /\ ActiveItemExists'
<1>1. currentSuggestions' = suggestions /\ activeIndex' = -1
  BY DEF RenderSuggestions
<1>2. Len(suggestions) \in Nat /\ -1 \in Int
  OBVIOUS
<1>3. ActiveItemExists'
  BY <1>1, <1>2 DEF ActiveItemExists
<1>4. answered' \in Texts \cup {Blank} /\ (suggestions # <<>> => answered' = text)
  BY DEF RenderSuggestions
<1> QED
  BY <1>1, <1>2, <1>3, <1>4

LEMMA ListStep ==
    ASSUME FetchTypes, ListTypes, PageTypes, ActiveItemExists, [Next]_vars
    PROVE  ListTypes' /\ ActiveItemExists'
<1>0. ASSUME ClearSuggestions, hint' \in Hints
      PROVE  ListTypes' /\ ActiveItemExists'
  BY <1>0, EmptyList DEF ListTypes
<1>00. ASSUME UNCHANGED list, hint' \in Hints
       PROVE  ListTypes' /\ ActiveItemExists'
  BY <1>00 DEF ListTypes, ActiveItemExists
<1>h. hint \in Hints
  BY DEF ListTypes
<1>1. CASE Edit \/ ClickTrending
  <2>1. PICK text \in Texts \cup {Blank} : ScheduleFetch(text)
    BY <1>1, EditCases
  <2>2. hint' \in Hints /\ (ClearSuggestions \/ UNCHANGED list)
    BY <2>1 DEF ScheduleFetch, Hints
  <2> QED
    BY <2>2, <1>0, <1>00
<1>2. CASE FireDebounce
  <2>1. UNCHANGED list /\ hint' = hint
    BY <1>2 DEF FireDebounce
  <2> QED
    BY <2>1, <1>h, <1>00
<1>3. CASE Answer
  <2>1. PICK r \in requests :
              \/ RespondError(r)
              \/ \E suggestions \in Seq(Texts) :
                    /\ suggestions \in Results[r.prefix]
                    /\ Respond(r, suggestions)
    BY <1>3, AnswerCases
  <2>2. CASE RespondError(r)
    <3>1. ClearSuggestions /\ hint' \in Hints
      BY <2>2 DEF RespondError, Hints
    <3> QED
      BY <3>1, <1>0
  <2>3. ASSUME NEW suggestions \in Seq(Texts), Respond(r, suggestions)
        PROVE  ListTypes' /\ ActiveItemExists'
    <3>1. hint' \in Hints
      BY <2>3 DEF Respond, HintOfList, Hints
    <3>2. r.prefix \in Texts
      BY DEF FetchTypes
    <3>3. CASE RenderSuggestions(r.prefix, suggestions)
      BY <3>1, <3>2, <3>3, RenderedList DEF ListTypes
    <3>4. CASE UNCHANGED list
      BY <3>1, <3>4, <1>00
    <3> QED
      BY <2>3, <3>3, <3>4 DEF Respond
  <2> QED
    BY <2>1, <2>2, <2>3
<1>4. CASE Press \/ EnterOnItem
  <2>1. PICK i \in 0 .. Len(currentSuggestions) - 1 : SelectSuggestion(i)
    BY <1>4, SelectCases
  <2>2. ClearSuggestions /\ hint' \in Hints
    BY <2>1 DEF SelectSuggestion, Hints
  <2> QED
    BY <2>2, <1>0
<1>5. CASE ArrowDown \/ ArrowUp
  <2>1. Len(currentSuggestions) \in Nat \ {0}
    BY <1>5 DEF ArrowDown, ArrowUp, ListTypes
  <2>2. activeIndex' \in 0 .. Len(currentSuggestions) - 1
    BY <1>5, <2>1 DEF ArrowDown, ArrowUp, ActiveItemExists, ListTypes
  <2>3. UNCHANGED <<currentSuggestions, answered, hint>>
    BY <1>5 DEF ArrowDown, ArrowUp
  <2>4. ActiveItemExists'
    BY <2>1, <2>2, <2>3 DEF ActiveItemExists
  <2> QED
    BY <2>2, <2>3, <2>4 DEF ListTypes
<1>6. CASE Escape \/ FireBlur \/ SearchRecorded
  <2>1. ClearSuggestions /\ hint' \in Hints
    BY <1>6, <1>h DEF Escape, FireBlur, SearchRecorded, Hints
  <2> QED
    BY <2>1, <1>0
<1>7. CASE \/ Blur \/ ClickSearch \/ EnterOnText \/ SearchFailed
           \/ FetchTrending \/ TrendingAnswer \/ UNCHANGED vars
  <2>1. UNCHANGED list /\ hint' = hint
    BY <1>7 DEF Blur, ClickSearch, EnterOnText, SubmitSearch, SearchFailed,
                FetchTrending, TrendingAnswer, vars
  <2> QED
    BY <2>1, <1>h, <1>00
<1> QED
  BY <1>1, <1>2, <1>3, <1>4, <1>5, <1>6, <1>7, NextCases DEF OffTheBox

LEMMA HintStep ==
    ASSUME FetchTypes, ListTypes, PageTypes, ActiveItemExists, HintAgrees,
           [Next]_vars
    PROVE  HintAgrees'
<1>0. ASSUME ClearSuggestions, hint' # "searching"
      PROVE  HintAgrees'
  BY <1>0 DEF ClearSuggestions, HintAgrees
<1>1. CASE Edit \/ ClickTrending
  <2>1. PICK text \in Texts \cup {Blank} : ScheduleFetch(text)
    BY <1>1, EditCases
  <2>2. CASE text = Blank
    <3>1. ClearSuggestions /\ hint' = "start"
      BY <2>1, <2>2 DEF ScheduleFetch
    <3> QED
      BY <3>1, <1>0
  <2>3. CASE text # Blank
    BY <2>1, <2>3 DEF ScheduleFetch, HintAgrees, Pending
  <2> QED
    BY <2>2, <2>3
<1>2. CASE FireDebounce
  <2>1. requests' # {} /\ UNCHANGED <<currentSuggestions, hint>>
    BY <1>2 DEF FireDebounce
  <2> QED
    BY <2>1 DEF HintAgrees, Pending
<1>3. CASE Answer
  <2>1. PICK r \in requests :
              \/ RespondError(r)
              \/ \E suggestions \in Seq(Texts) :
                    /\ suggestions \in Results[r.prefix]
                    /\ Respond(r, suggestions)
    BY <1>3, AnswerCases
  <2>2. CASE RespondError(r)
    <3>1. ClearSuggestions /\ hint' = "error"
      BY <2>2 DEF RespondError
    <3> QED
      BY <3>1, <1>0
  <2>3. ASSUME NEW suggestions \in Seq(Texts), Respond(r, suggestions)
        PROVE  HintAgrees'
    <3>1. hint' = IF currentSuggestions' = <<>> THEN "none" ELSE "found"
      BY <2>3 DEF Respond, HintOfList
    <3> QED
      BY <3>1 DEF HintAgrees
  <2> QED
    BY <2>1, <2>2, <2>3
<1>4. CASE Press \/ EnterOnItem
  <2>1. PICK i \in 0 .. Len(currentSuggestions) - 1 : SelectSuggestion(i)
    BY <1>4, SelectCases
  <2>2. ClearSuggestions /\ hint' = "selected"
    BY <2>1 DEF SelectSuggestion
  <2> QED
    BY <2>2, <1>0
<1>5. CASE Escape
  <2>1. ClearSuggestions /\ hint' = "start"
    BY <1>5 DEF Escape
  <2> QED
    BY <2>1, <1>0
<1>6. CASE FireBlur \/ SearchRecorded
  <2>1. /\ currentSuggestions' = <<>>
        /\ UNCHANGED <<hint, debounceTimer, requests>>
    BY <1>6 DEF FireBlur, SearchRecorded, ClearSuggestions
  <2> QED
    BY <2>1 DEF HintAgrees, Pending
<1>7. CASE \/ ArrowDown \/ ArrowUp \/ Blur \/ ClickSearch \/ EnterOnText
           \/ SearchFailed \/ FetchTrending \/ TrendingAnswer \/ UNCHANGED vars
  <2>1. UNCHANGED <<currentSuggestions, hint, debounceTimer, requests>>
    BY <1>7 DEF ArrowDown, ArrowUp, Blur, ClickSearch, EnterOnText, SubmitSearch,
                SearchFailed, FetchTrending, TrendingAnswer, vars
  <2> QED
    BY <2>1 DEF HintAgrees, Pending
<1> QED
  BY <1>1, <1>2, <1>3, <1>4, <1>5, <1>6, <1>7, NextCases DEF OffTheBox

-----------------------------------------------------------------------------
(* The rest of the page.                                                   *)

LEMMA PageTypesStep ==
    ASSUME PageTypes, [Next]_vars
    PROVE  PageTypes'
<1>b. MaxBlurs \in Nat /\ MaxSubmits \in Nat /\ MaxLoads \in Nat
  BY BoundsAssumption
<1>1. CASE Blur \/ FireBlur
  <2>1. /\ \/ blurTimers < MaxBlurs /\ blurTimers' = blurTimers + 1
           \/ blurTimers > 0 /\ blurTimers' = blurTimers - 1
        /\ UNCHANGED <<form, panel>>
    BY <1>1 DEF Blur, FireBlur
  <2> QED
    BY <1>b, <2>1 DEF PageTypes
<1>2. CASE ClickSearch \/ EnterOnText
  <2>1. /\ submits' = submits \/ (submits < MaxSubmits /\ submits' = submits + 1)
        /\ UNCHANGED <<blurTimers, panel>>
    BY <1>2 DEF ClickSearch, EnterOnText, SubmitSearch
  <2>2. status' \in Statuses
    BY <1>2 DEF ClickSearch, EnterOnText, SubmitSearch, Statuses
  <2> QED
    BY <1>b, <2>1, <2>2 DEF PageTypes
<1>3. CASE SearchRecorded \/ SearchFailed
  <2>1. /\ submits > 0 /\ submits' = submits - 1
        /\ UNCHANGED <<blurTimers, panel>>
    BY <1>3 DEF SearchRecorded, SearchFailed
  <2>2. status' \in Statuses
    BY <1>3 DEF SearchRecorded, SearchFailed, Statuses
  <2> QED
    BY <1>b, <2>1, <2>2 DEF PageTypes
<1>4. CASE FetchTrending
  <2>1. /\ loads < MaxLoads /\ loads' = loads + 1
        /\ UNCHANGED <<blurTimers, form, trending>>
    BY <1>4 DEF FetchTrending
  <2> QED
    BY <1>b, <2>1 DEF PageTypes
<1>5. CASE TrendingAnswer
  <2>1. /\ loads > 0 /\ loads' = loads - 1
        /\ UNCHANGED <<blurTimers, form>>
    BY <1>5 DEF TrendingAnswer
  <2>2. trending' \subseteq Texts
    BY <1>5, TrendsAssumption DEF TrendingAnswer
  <2> QED
    BY <1>b, <2>1, <2>2 DEF PageTypes
<1>6. ASSUME UNCHANGED <<blurTimers, form, panel>>
      PROVE  PageTypes'
  BY <1>6 DEF PageTypes
<1>7. CASE \/ FireDebounce \/ Answer \/ Press \/ EnterOnItem \/ ArrowDown
           \/ ArrowUp \/ Escape \/ Edit \/ ClickTrending \/ UNCHANGED vars
  <2>1. UNCHANGED <<blurTimers, form, panel>>
    BY <1>7 DEF FireDebounce, Answer, Respond, RespondError, Press, EnterOnItem,
                SelectSuggestion, ArrowDown, ArrowUp, Escape, Edit,
                ClickTrending, ScheduleFetch, vars
  <2> QED
    BY <2>1, <1>6
<1> QED
  BY <1>1, <1>2, <1>3, <1>4, <1>5, <1>7, NextCases DEF OffTheBox

-----------------------------------------------------------------------------
(* The last edit, the latest request, and the list.                        *)

Answers == TimerIsWanted /\ LatestIsWanted /\ ShownIsWanted

LEMMA AnswersStep ==
    ASSUME FetchTypes, ListTypes, PageTypes, ActiveItemExists, Answers,
           [Next]_vars
    PROVE  Answers'
<1> USE DEF Answers
<1>0. ASSUME UNCHANGED <<wanted, fetching>>,
             currentSuggestions' = <<>> \/ UNCHANGED <<currentSuggestions, answered>>
      PROVE  Answers'
  BY <1>0 DEF TimerIsWanted, LatestIsWanted, ShownIsWanted, LatestRequest
<1>1. CASE Edit \/ ClickTrending
  <2>1. PICK text \in Texts \cup {Blank} : ScheduleFetch(text)
    BY <1>1, EditCases
  <2>2. wanted' = text /\ debounceTimer' = text
    BY <2>1 DEF ScheduleFetch
  <2> QED
    BY <2>2 DEF TimerIsWanted, LatestIsWanted, ShownIsWanted
<1>2. CASE FireDebounce
  <2> DEFINE new == [sequence |-> requestSequence + 1, prefix |-> debounceTimer]
  <2>1. /\ debounceTimer' = Blank /\ wanted' = wanted
        /\ requestSequence' = requestSequence + 1
        /\ requests' = requests \cup {new}
        /\ debounceTimer # Blank
    BY <1>2 DEF FireDebounce
  <2>2. new.prefix = wanted /\ new.sequence = requestSequence + 1
    BY <2>1 DEF TimerIsWanted
  <2>3. \A r \in requests : r.sequence # requestSequence + 1
    <3>1. requestSequence \in Nat /\ \A r \in requests : r.sequence \in 1 .. requestSequence
      BY DEF FetchTypes
    <3> QED
      BY <3>1
  <2> HIDE DEF new
  <2>4. TimerIsWanted'
    BY <2>1 DEF TimerIsWanted
  <2>5. LatestIsWanted'
    BY <2>1, <2>2, <2>3 DEF LatestIsWanted, LatestRequest
  <2>6. ShownIsWanted'
    BY <2>1, <2>2 DEF ShownIsWanted, LatestRequest
  <2> QED
    BY <2>4, <2>5, <2>6
<1>3. CASE Answer
  <2>1. PICK r \in requests :
              \/ RespondError(r)
              \/ \E suggestions \in Seq(Texts) :
                    /\ suggestions \in Results[r.prefix]
                    /\ Respond(r, suggestions)
    BY <1>3, AnswerCases
  <2>2. /\ UNCHANGED <<wanted, debounceTimer, requestSequence>>
        /\ requests' = requests \ {r}
    BY <2>1 DEF Respond, RespondError
  <2>3. TimerIsWanted' /\ LatestIsWanted'
    BY <2>2 DEF TimerIsWanted, LatestIsWanted, LatestRequest
  <2>4. CASE RespondError(r)
    <3>1. currentSuggestions' = <<>>
      BY <2>4 DEF RespondError, ClearSuggestions
    <3> QED
      BY <2>3, <3>1 DEF ShownIsWanted
  <2>5. ASSUME NEW suggestions \in Seq(Texts), Respond(r, suggestions)
        PROVE  ShownIsWanted'
    <3>1. CASE LatestRequest(r) /\ RenderSuggestions(r.prefix, suggestions)
      <4>1. currentSuggestions' # <<>> => answered' = r.prefix
        BY <3>1 DEF RenderSuggestions
      <4>2. debounceTimer = Blank /\ wanted # Blank => r.prefix = wanted
        BY <3>1 DEF LatestIsWanted
      <4> QED
        BY <2>2, <4>1, <4>2 DEF ShownIsWanted
    <3>2. CASE ~LatestRequest(r) /\ UNCHANGED list
      <4>1. (\A x \in requests' : ~LatestRequest(x)') => \A x \in requests : ~LatestRequest(x)
        BY <2>2, <3>2 DEF LatestRequest
      <4> QED
        BY <2>2, <3>2, <4>1 DEF ShownIsWanted
    <3> QED
      BY <2>5, <3>1, <3>2 DEF Respond
  <2> QED
    BY <2>1, <2>3, <2>4, <2>5
<1>4. CASE Press \/ EnterOnItem
  <2>1. PICK i \in 0 .. Len(currentSuggestions) - 1 : SelectSuggestion(i)
    BY <1>4, SelectCases
  <2>2. UNCHANGED <<wanted, fetching>> /\ currentSuggestions' = <<>>
    BY <2>1 DEF SelectSuggestion, ClearSuggestions
  <2> QED
    BY <2>2, <1>0
<1>5. CASE OffTheBox \/ UNCHANGED vars
  <2>1. UNCHANGED <<wanted, fetching>>
    BY <1>5, OffTheBoxFrame
  <2>2. currentSuggestions' = <<>> \/ UNCHANGED <<currentSuggestions, answered>>
    BY <1>5 DEF OffTheBox, ArrowDown, ArrowUp, Escape, Blur, FireBlur,
        ClickSearch, EnterOnText, SubmitSearch, SearchRecorded, SearchFailed,
        FetchTrending, TrendingAnswer, ClearSuggestions, vars
  <2> QED
    BY <2>1, <2>2, <1>0
<1> QED
  BY <1>1, <1>2, <1>3, <1>4, <1>5, NextCases

-----------------------------------------------------------------------------
(* The theorems.                                                           *)

IInv ==
    /\ FetchTypes /\ ListTypes /\ PageTypes
    /\ ActiveItemExists
    /\ HintAgrees
    /\ Answers

LEMMA InitIInv == Init => IInv
<1> SUFFICES ASSUME Init PROVE IInv
  OBVIOUS
<1>1. FetchTypes
  <2>1. /\ input = Blank /\ edits = 0 /\ wanted = Blank /\ debounceTimer = Blank
        /\ requestSequence = 0 /\ requests = {}
    BY DEF Init
  <2> QED
    BY <2>1, BoundsAssumption DEF FetchTypes
<1>2. ListTypes /\ ActiveItemExists
  <2>1. currentSuggestions = <<>> /\ answered = Blank /\ activeIndex = -1
    BY DEF Init
  <2>2. hint \in Hints
    BY DEF Init, Hints
  <2>3. Len(<<>>) = 0 /\ -1 \in Int /\ <<>> \in Seq(Texts)
    OBVIOUS
  <2> QED
    BY <2>1, <2>2, <2>3 DEF ListTypes, ActiveItemExists
<1>3. PageTypes
  <2>1. blurTimers = 0 /\ submits = 0 /\ loads = 1 /\ trending = {}
    BY DEF Init
  <2>2. status \in Statuses
    BY DEF Init, Statuses
  <2> QED
    BY <2>1, <2>2, BoundsAssumption DEF PageTypes
<1>4. HintAgrees
  BY DEF Init, HintAgrees
<1>5. Answers
  BY DEF Init, Answers, TimerIsWanted, LatestIsWanted, ShownIsWanted
<1> QED
  BY <1>1, <1>2, <1>3, <1>4, <1>5 DEF IInv

LEMMA NextIInv == IInv /\ [Next]_vars => IInv'
  BY FetchTypesStep, ListStep, PageTypesStep, HintStep, AnswersStep DEF IInv

LEMMA BoxInvariant == Spec => []IInv
  BY InitIInv, NextIInv, PTL DEF Spec

\* Every variable of the page keeps to its values.
THEOREM BoxTypeCorrect == Spec => []TypeOK
<1>1. IInv => TypeOK
  BY TypeParts DEF IInv
<1> QED
  BY <1>1, BoxInvariant, PTL

\* In whatever order the answers come, the list that stays is the one for the
\* text that was typed last.
THEOREM LastEditAnswered == Spec => []SettledListAnswersLastEdit
<1>1. IInv => SettledListAnswersLastEdit
  BY DEF IInv, Answers, ShownIsWanted, SettledListAnswersLastEdit, Pending
<1> QED
  BY <1>1, BoxInvariant, PTL

\* What the arrow keys chose is in the list that is shown.
THEOREM ActiveItemCorrect == Spec => []ActiveItemExists
<1>1. IInv => ActiveItemExists
  BY DEF IInv
<1> QED
  BY <1>1, BoxInvariant, PTL

\* The hint agrees with the list and with what is under way.
THEOREM HintCorrect == Spec => []HintAgrees
<1>1. IInv => HintAgrees
  BY DEF IInv
<1> QED
  BY <1>1, BoxInvariant, PTL

=============================================================================
