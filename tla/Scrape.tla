-------------------------------- MODULE Scrape --------------------------------
(***************************************************************************)
(* fetch_offers (src/scraper.py): the searches of one tier, one after the   *)
(* other.  Each is paged by the cards that came back; every new card in     *)
(* scope costs a description request unless an earlier search of the run    *)
(* fetched it.  Refusals slow the requests down, are tried again on a       *)
(* ladder, and after a few texts refused in a row the run stops asking.     *)
(*                                                                         *)
(* Each HTTP response is an action.    A card is its link, a search the     *)
(* list of cards the host keeps for it.                                     *)
(***************************************************************************)
EXTENDS Naturals, Sequences

CONSTANTS
    Searches,      \* the searches, in order: each the sequence of links the host has for it
    Hidden,        \* links out of the allowed countries
    PageSize,      \* most cards in a response
    MaxPages,      \* max_pages_per_query
    SearchRetries, \* _SEARCH_MAX_RETRIES
    PageRetries,   \* _THROTTLED_PAGE_RETRIES
    TextRetries,   \* _DESC_MAX_RETRIES
    BreakAt,       \* _CONSECUTIVE_RATE_LIMITS_BEFORE_BREAK
    MaxFactor      \* _PACE_DELAY_CAP / _PACE_LOW

Links == UNION {{Searches[q][i] : i \in 1..Len(Searches[q])} : q \in 1..Len(Searches)}

ScrapeAssumption ==
    /\ Searches \in Seq(Seq(Links)) /\ Searches # <<>>
    /\ {PageSize, MaxPages, SearchRetries, PageRetries, TextRetries, BreakAt, MaxFactor} \subseteq Nat \ {0}

VARIABLES
    at,     \* "search", "cards", "text", "done" or "raised"
    walk,   \* the search at hand: its number, page, offset, links seen, cards of the page still to do
    try,    \* the ladder: attempt, 429 or 999 seen, any refusal seen, tries of a throttled page
    texts,  \* the run's cache: texts[l], "none" before the first request
    breaker,\* refused texts in a row, and whether that stopped the run
    factor, \* of the pace
    offers, \* links of the offers of the run
    asked,  \* history: asked[l], ladders spent on the text of l
    why     \* how the last search ended

vars == <<at, walk, try, texts, breaker, factor, offers, asked, why>>

-----------------------------------------------------------------------------
NoTry == [n |-> 0, saw429 |-> FALSE, refused |-> FALSE, again |-> 0]
Begin(q) == [q |-> q, page |-> 0, start |-> 0, links |-> {}, todo |-> <<>>]
List == Searches[walk.q]

Init ==
    /\ at = "search" /\ walk = Begin(1) /\ try = NoTry
    /\ texts = [l \in Links |-> "none"]
    /\ breaker = [row |-> 0, tripped |-> FALSE]
    /\ factor = 1
    /\ offers = {} /\ asked = [l \in Links |-> 0] /\ why = "none"

-----------------------------------------------------------------------------
(* Faults of the kind this paging has had.                                  *)

ByPageSize(cards) == walk.start + PageSize
TwiceAsSlow(f) == 2 * f

\* _note_response
Slower(f) == IF 2 * f > MaxFactor THEN MaxFactor ELSE 2 * f
Relaxed(f) == IF f > 1 THEN f \div 2 ELSE 1
Paced(status, saw429) ==
    IF status = "throttled" THEN Slower(factor)
    ELSE IF ~saw429 /\ status # "upstream" THEN Relaxed(factor) ELSE factor

\* The search is over: the next one, unless the breaker stopped the run (then none asks anything).
Over(reason) ==
    /\ why' = reason /\ try' = NoTry
    /\ IF walk.q = Len(Searches) THEN at' = "done" /\ walk' = walk
       ELSE at' = "search" /\ walk' = Begin(walk.q + 1)

-----------------------------------------------------------------------------
(* The pages.                                                               *)

Page(n) == SubSeq(List, walk.start + 1, walk.start + n)
NextStart(cards) == walk.start + Len(cards)
Exhausted(cards) == \A i \in 1..Len(cards) : cards[i] \in walk.links

\* A refusal or a network error, tried again on the ladder.
SearchRefused(status) ==
    /\ at = "search" /\ ~breaker.tripped /\ walk.page < MaxPages
    /\ status \in {"throttled", "upstream", "network"}
    /\ factor' = IF status = "network" THEN factor ELSE Paced(status, try.saw429)
    /\ IF try.n = SearchRetries - 1 THEN at' = "raised" /\ UNCHANGED try
       ELSE try' = [try EXCEPT !.n = @ + 1, !.saw429 = @ \/ status = "throttled"] /\ UNCHANGED at
    /\ UNCHANGED <<walk, texts, breaker, offers, asked, why>>

\* 400: past the first page the end of the results; any other status ends the run.
SearchFailed(status) ==
    /\ at = "search" /\ ~breaker.tripped /\ walk.page < MaxPages
    /\ IF status = "end" /\ walk.page > 0 THEN Over("end_of_results")
       ELSE at' = "raised" /\ UNCHANGED <<walk, try, why>>
    /\ UNCHANGED <<texts, breaker, factor, offers, asked>>

\* A page with nothing new ends the search; after a 429 it is asked for again first.
SearchAnswered(cards) ==
    LET throttled == try.saw429 \/ try.again > 0 IN
    /\ at = "search" /\ ~breaker.tripped /\ walk.page < MaxPages
    /\ factor' = Paced("ok", try.saw429)
    /\ \/ /\ ~Exhausted(cards)
          /\ walk' = [walk EXCEPT !.page = @ + 1, !.start = NextStart(cards), !.todo = cards]
          /\ at' = "cards" /\ try' = NoTry /\ UNCHANGED why
       \/ /\ Exhausted(cards) /\ throttled /\ try.again < PageRetries
          /\ try' = [NoTry EXCEPT !.again = try.again + 1]
          /\ UNCHANGED <<at, walk, why>>
       \/ Exhausted(cards) /\ throttled /\ try.again = PageRetries /\ Over("throttled_empty")
       \/ Exhausted(cards) /\ ~throttled /\ Over(IF cards = <<>> THEN "empty_page" ELSE "duplicate_page")
    /\ UNCHANGED <<texts, breaker, offers, asked>>

\* The page cap, or the breaker before the next page.
SearchCapped ==
    /\ at = "search"
    /\ breaker.tripped \/ walk.page = MaxPages
    /\ Over(IF breaker.tripped THEN "rate_limited" ELSE "cap_hit")
    /\ UNCHANGED <<texts, breaker, factor, offers, asked>>

-----------------------------------------------------------------------------
(* The cards of a page and their texts.                                     *)

Card == Head(walk.todo)
Rest == [walk EXCEPT !.todo = Tail(@), !.links = @ \cup {Card}]

\* A card seen before or out of scope, one whose text the run has, and one the tripped breaker defers.
CardWithoutRequest ==
    /\ at = "cards" /\ walk.todo # <<>>
    /\ \/ Card \in walk.links \cup Hidden /\ UNCHANGED <<offers, texts>>
       \/ /\ Card \notin walk.links \cup Hidden /\ texts[Card] # "none"
          /\ offers' = offers \cup {Card} /\ UNCHANGED texts
       \/ /\ Card \notin walk.links \cup Hidden /\ texts[Card] = "none" /\ breaker.tripped
          /\ offers' = offers \cup {Card} /\ texts' = [texts EXCEPT ![Card] = "rate_limited"]
    /\ walk' = Rest
    /\ UNCHANGED <<at, try, breaker, factor, asked, why>>

CardRequested ==
    /\ at = "cards" /\ walk.todo # <<>>
    /\ Card \notin walk.links \cup Hidden /\ texts[Card] = "none" /\ ~breaker.tripped
    /\ at' = "text" /\ try' = NoTry
    /\ asked' = [asked EXCEPT ![Card] = @ + 1]
    /\ UNCHANGED <<walk, texts, breaker, factor, offers, why>>

PageDone ==
    /\ at = "cards" /\ walk.todo = <<>>
    /\ at' = "search"
    /\ UNCHANGED <<walk, try, texts, breaker, factor, offers, asked, why>>

Cached(status) == status
Trips(row) == row >= BreakAt

\* _fetch_description returned: the text is cached, the breaker counts, the offer exists either way.
Text(status) ==
    LET row == IF status = "rate_limited" THEN breaker.row + 1 ELSE 0 IN
    /\ texts' = [texts EXCEPT ![Card] = Cached(status)]
    /\ breaker' = [row |-> row, tripped |-> breaker.tripped \/ Trips(row)]
    /\ offers' = offers \cup {Card}
    /\ walk' = Rest /\ at' = "cards" /\ try' = NoTry

TextAnswered(status) ==
    /\ at = "text"
    /\ factor' = Paced("ok", try.saw429)
    /\ Text(status)
    /\ UNCHANGED <<asked, why>>

TextRefused(status) ==
    LET refused == try.refused \/ status # "network" IN
    /\ at = "text"
    /\ factor' = IF status = "network" THEN factor ELSE Paced(status, try.saw429)
    /\ IF try.n = TextRetries - 1 THEN Text(IF refused THEN "rate_limited" ELSE "failed")
       ELSE /\ try' = [try EXCEPT !.n = @ + 1, !.saw429 = @ \/ status = "throttled", !.refused = refused]
            /\ UNCHANGED <<at, walk, texts, breaker, offers>>
    /\ UNCHANGED <<asked, why>>

Next ==
    \/ \E status \in {"throttled", "upstream", "network"} : SearchRefused(status) \/ TextRefused(status)
    \/ \E status \in {"end", "blocked"} : SearchFailed(status)
    \/ \E n \in 0..PageSize : walk.start + n <= Len(List) /\ SearchAnswered(Page(n))
    \/ at = "search" /\ walk.start > 0 /\ SearchAnswered(SubSeq(List, walk.start, walk.start))
    \/ SearchCapped \/ CardWithoutRequest \/ CardRequested \/ PageDone
    \/ \E status \in {"ok", "partial"} : TextAnswered(status)

Spec == Init /\ [][Next]_vars

-----------------------------------------------------------------------------
(* Properties.                                                              *)

TypeOK ==
    /\ at \in {"search", "cards", "text", "done", "raised"}
    /\ walk.q \in 1..Len(Searches) /\ walk.page \in 0..MaxPages /\ walk.start \in 0..Len(List)
    /\ walk.links \subseteq Links /\ Len(walk.todo) <= PageSize
    /\ try \in [n : 0..SearchRetries + TextRetries, saw429 : BOOLEAN, refused : BOOLEAN, again : 0..PageRetries]
    /\ texts \in [Links -> {"none", "ok", "partial", "failed", "rate_limited"}]
    /\ breaker \in [row : 0..BreakAt, tripped : BOOLEAN]
    /\ factor \in 1..MaxFactor
    /\ offers \subseteq Links /\ asked \in [Links -> Nat]
    /\ why \in {"none", "end_of_results", "empty_page", "duplicate_page", "throttled_empty", "rate_limited",
                "cap_hit"}

\* The offset never runs ahead of the cards: every card before it was handled by this search, however many
\* cards a response holds (a stride larger than the page silently skipped most of every window).
NothingIsSkipped ==
    at = "search" => \A i \in 1..Len(List) : i <= walk.start => List[i] \in walk.links

\* One posting costs one ladder of description requests per run, whatever its outcome and however many
\* searches return it.
OneLadderPerText == \A l \in Links : asked[l] <= 1

\* The refused texts that may follow one another are few: the run never spends more ladders in a row, and
\* every card in scope that a search has handled is an offer, the ones it asked for no text of among
\* them, which the queue defers.
RefusalsStopTheRun ==
    /\ breaker.row <= BreakAt
    /\ \A l \in Links : asked[l] = 1 /\ at # "text" => l \in offers
    /\ walk.links \ Hidden \subseteq offers

=============================================================================
