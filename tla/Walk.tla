-------------------------------- MODULE Walk --------------------------------
(***************************************************************************)
(* One search slice of the collector (src/linkedin/walk.py, windows.py,    *)
(* search.py, collector.py): LinkedIn's result list, newest posting first, *)
(* is paged through by offset while it grows at its head and, as the time  *)
(* window slides, shrinks at its tail.  A walk may be refused, stopped,    *)
(* killed or closed out by the gate of Pace at any page; the slice keeps   *)
(* the offset it got to and the next walk resumes there.                   *)
(*                                                                         *)
(* Time is discrete and stamps are kept as ages.  Postings are numbered in *)
(* the order they appear, so posting i has the offset posted - i.          *)
(***************************************************************************)
EXTENDS Integers, FiniteSets

CONSTANTS
  Postings,       \* how many postings ever appear
  Initially,      \* how many there are when the slice is created
  PageSize,       \* cards of a full page
  ShortPages,     \* whether LinkedIn may also send shorter pages
  Burst,          \* postings that may appear while a list is being read
  MasksOutlast,   \* whether empty pages hide results in the walk after a refusal
  MaxPages,       \* max_pages_for(area)
  AreaCapped,     \* whether that is less than max_pages_per_slice
  RefusedPages,   \* refused_pages_to_defer
  KnownPages,     \* known_pages_to_stop
  Margin,         \* window_margin_hours
  FirstWindow,    \* FIRST_WALK_WINDOW_SECONDS
  MaxWindow,      \* MAX_WINDOW_SECONDS
  MinInterval, MaxInterval, Base,  \* bounds and base of the cadence
  EmptyStreak,    \* EMPTY_STREAK_FOR_DAILY
  Daily,          \* EMPTY_SLICE_INTERVAL_SECONDS
  RetrySoon       \* RETRY_SOON_SECONDS

ASSUME WalkAssumption ==
  /\ Postings \in Nat /\ Initially \in 0..Postings
  /\ PageSize \in Nat \ {0} /\ ShortPages \in BOOLEAN
  /\ Burst \in Nat /\ MasksOutlast \in BOOLEAN
  /\ MaxPages \in Nat \ {0} /\ AreaCapped \in BOOLEAN
  /\ RefusedPages \in Nat \ {0} /\ KnownPages \in Nat \ {0}
  /\ Margin \in Nat /\ FirstWindow \in Nat /\ MaxWindow \in Nat
  /\ MinInterval \in Nat \ {0} /\ MaxInterval \in Nat /\ Base \in MinInterval..MaxInterval
  /\ EmptyStreak \in Nat \ {0} /\ Daily \in Nat /\ RetrySoon \in Nat

\* window_margin_hours = 2 against MAX_WINDOW_SECONDS of a week.
ASSUME MarginAssumption == 2 * Margin <= MaxWindow

VARIABLES
  posted,   \* postings that have appeared
  age,      \* how long ago each of them did
  sighted,  \* the postings with a sighting
  slice,    \* the stored row of the slice
  walk,     \* the locals of a walk in progress
  list      \* observation: the list that is being read, how well it went, and
            \* what the page cap has cut off

vars == <<posted, age, sighted, slice, walk, list>>

Ids == 1..Postings
AgeCap == MaxWindow + 1

Lesser(a, b) == IF a < b THEN a ELSE b
Greater(a, b) == IF a < b THEN b ELSE a
Down(n) == IF n > 0 THEN n - 1 ELSE 0
Older(n) == Lesser(n + 1, AgeCap)

Finished == {"end_of_results", "known_page", "cap_hit", "area_cap"}
Unfinished == {"throttled_empty", "rate_limited", "error", "stopped"}

\* The locals of a walk before its first page.
WalkFrom(on, start, window) ==
  [on |-> on, start |-> start, window |-> window, age |-> 0, pages |-> 0, cards |-> FALSE,
   seen |-> {}, widest |-> 0, full |-> FALSE, streak |-> 0, refusals |-> 0,
   distrust |-> FALSE, ends |-> "no"]

NoWalk == WalkFrom(FALSE, 0, 0)

-----------------------------------------------------------------------------
(* Windows and cadence *)

\* How far back a walk that starts now looks.
WindowSeconds ==
  IF slice.walked THEN Lesser(slice.last + Margin, MaxWindow) ELSE FirstWindow

\* The cadence: a full cap halves the interval, any other finish doubles it back
\* to the base, a slice that stays empty is walked at most daily.
NextInterval(reason, empties) ==
  LET paced == CASE reason = "cap_hit"     -> Greater(slice.interval \div 2, MinInterval)
                 [] reason \in Unfinished  -> slice.interval
                 [] OTHER                  -> Lesser(2 * slice.interval, Base)
      rested == IF empties >= EmptyStreak THEN Greater(paced, Daily) ELSE paced
  IN Greater(MinInterval, Lesser(rested, MaxInterval))

\* A finished walk is due again from its start, an unfinished one from its end.
NextDue(reason, interval) ==
  CASE reason = "stopped"    -> 0
    [] reason \in Finished   -> IF interval > walk.age THEN interval - walk.age ELSE 0
    [] OTHER                 -> RetrySoon

-----------------------------------------------------------------------------
(* LinkedIn *)

\* The search has a lower time bound only, so the list ends at the window.
Listed == {i \in 1..posted : age[i] <= walk.window}

\* n results from an offset on.
Page(start, n) == {i \in Listed : posted - i \in start..(start + n - 1)}

\* Mutant: the next page is asked for one card too far.
PastTheCards(page) == walk.start + Cardinality(page) + 1

NextStart(page) == walk.start + Cardinality(page)

-----------------------------------------------------------------------------
Init ==
  /\ posted = Initially
  /\ age = [i \in Ids |-> 0]
  /\ sighted = {}
  /\ slice = [offset |-> 0, walked |-> FALSE, last |-> 0, due |-> 0, interval |-> Base,
              empties |-> 0]
  /\ walk = NoWalk
  /\ list = [age |-> 0, size |-> 0, spread |-> 0, cut |-> {}, cold |-> FALSE,
             strained |-> FALSE]

\* A posting appears at the head of the list.
Post ==
  /\ posted < Postings
  /\ slice.offset > 0 => posted - list.size < Burst
  /\ posted' = posted + 1
  /\ UNCHANGED <<age, sighted, slice, walk, list>>

\* The slice is due and the collector claims it: its row is read once.
Claim ==
  /\ ~walk.on
  /\ slice.due = 0
  /\ walk' = WalkFrom(TRUE, slice.offset, WindowSeconds)
  /\ UNCHANGED <<posted, age, sighted, slice, list>>

Walking == walk.on /\ walk.ends = "no"
Paging == Walking /\ walk.pages < MaxPages

\* Observation: an answer LinkedIn did not refuse, and whether the head of the
\* list was read with it.
Answered ==
  list' = IF walk.start = 0
          THEN [list EXCEPT !.age = 0, !.size = posted, !.cold = FALSE]
          ELSE [list EXCEPT !.cold = FALSE]

\* Full pages in a row of which every card was known.
KnownStreak(page) ==
  IF page \subseteq sighted /\ Cardinality(page) >= walk.widest
  THEN walk.streak + 1 ELSE 0

\* A page of new results: its sightings and the next offset are one commit.
ReadPage(n) ==
  LET page == Page(walk.start, n)
  IN /\ Paging
     /\ ~(page \subseteq walk.seen)
     /\ sighted' = sighted \cup page
     /\ slice' = [slice EXCEPT !.offset = NextStart(page)]
     /\ walk' = [walk EXCEPT
          !.start = NextStart(page), !.pages = @ + 1, !.cards = TRUE,
          !.seen = @ \cup page,
          !.widest = Greater(@, Cardinality(page)), !.full = Cardinality(page) >= walk.widest,
          !.streak = KnownStreak(page), !.refusals = 0, !.distrust = FALSE,
          !.ends = IF KnownStreak(page) >= KnownPages THEN "known_page" ELSE "no"]
     /\ Answered
     /\ UNCHANGED <<posted, age>>

\* Mutant: an empty page is believed whatever came before it.
TrustAnyEmpty == list.cold

\* LinkedIn hides results behind an empty page after it has refused one; right
\* after a refusal of this walk the code does not believe it.
HiddenAndBelieved == MasksOutlast /\ list.cold /\ ~walk.distrust

\* An empty page, or one this walk has wholly seen, is the end of the results.
ReadEnd(n) ==
  /\ Paging
  /\ \/ Page(walk.start, n) \subseteq walk.seen
     \/ HiddenAndBelieved
  /\ walk' = [walk EXCEPT !.pages = @ + 1, !.refusals = 0, !.distrust = FALSE,
                          !.ends = "end_of_results"]
  /\ Answered
  /\ UNCHANGED <<posted, age, sighted, slice>>

Lengths == IF ShortPages THEN 1..PageSize ELSE {PageSize}

\* A refusal, open or as an empty page right after one: the same page is asked
\* for again until there were too many in a row.
Refused(reason) ==
  /\ Paging
  /\ reason = "throttled_empty" => walk.distrust
  /\ walk' = [walk EXCEPT !.refusals = @ + 1, !.distrust = TRUE,
                          !.ends = IF walk.refusals + 1 >= RefusedPages THEN reason ELSE "no"]
  /\ list' = [list EXCEPT !.cold = TRUE]
  /\ UNCHANGED <<posted, age, sighted, slice>>

\* The walk ends before the page is read: a stop, a shut gate, a failed search.
Interrupt(reason) ==
  /\ Paging
  /\ walk' = [walk EXCEPT !.ends = reason]
  /\ UNCHANGED <<posted, age, sighted, slice, list>>

\* An unexpected failure rolls the page back; the offset stored last is kept.
Break ==
  /\ Walking
  /\ walk' = [walk EXCEPT !.ends = "error", !.cards = FALSE, !.start = slice.offset]
  /\ UNCHANGED <<posted, age, sighted, slice, list>>

\* Observation: what the walk in progress has not read of its list.
Unread == {i \in 1..list.size : age[i] <= walk.window} \ sighted

\* All the pages a walk may ask for were asked for.
LastPage ==
  /\ Walking
  /\ walk.pages >= MaxPages
  /\ walk' = [walk EXCEPT !.ends = IF ~walk.full THEN "end_of_results"
                                   ELSE IF AreaCapped THEN "area_cap" ELSE "cap_hit"]
  /\ list' = IF walk.full THEN [list EXCEPT !.cut = @ \cup Unread] ELSE list
  /\ UNCHANGED <<posted, age, sighted, slice>>

\* Mutant: the walk is stamped with its end instead of its start.
StampedAtEnd == 0

\* The last walk is stamped with its start.
StampedAtStart == walk.age

Stamps(reason) == reason \in Finished

\* What consecutive_empty becomes: finished walks without a card in a row.
EmptiesAfter ==
  IF walk.cards THEN 0
  ELSE IF walk.ends \in Finished THEN Lesser(slice.empties + 1, EmptyStreak)
  ELSE slice.empties

\* Observation: how long before the walk that ends the head had been read.
Spread == IF list.age > walk.age THEN list.age - walk.age ELSE 0
SpreadStrains == list.strained \/ Spread > Margin

\* Mutant: an interrupted list is started over.
StartedOver == 0

\* Where the next walk starts: after a finished one, at the head.
ResumeStart == IF walk.ends \in Finished THEN 0 ELSE walk.start

Finish ==
  LET interval == NextInterval(walk.ends, EmptiesAfter)
      over == Stamps(walk.ends)
  IN /\ walk.on /\ walk.ends # "no"
     /\ slice' = [offset   |-> ResumeStart,
                  walked   |-> slice.walked \/ over,
                  last     |-> IF over THEN StampedAtStart ELSE slice.last,
                  due      |-> NextDue(walk.ends, interval),
                  interval |-> interval,
                  empties  |-> EmptiesAfter]
     /\ walk' = NoWalk
     /\ list' = IF walk.ends \in Finished
                THEN [list EXCEPT !.spread = Spread, !.strained = SpreadStrains]
                ELSE list
     /\ UNCHANGED <<posted, age, sighted>>

\* The collector dies, or its connection does: what is committed stays.
Crash ==
  /\ walk.on
  /\ walk' = NoWalk
  /\ UNCHANGED <<posted, age, sighted, slice, list>>

\* Observation: time strains the windows when a walk, with the pause before the
\* last one, outlasts the margin, or the slice is left beyond a window's reach.
Strains ==
  \/ walk.on /\ list.spread + walk.age + 1 > Margin
  \/ slice.walked /\ slice.last + 1 + Margin > MaxWindow
  \/ ~slice.walked /\ slice.last + 1 > FirstWindow

Tick ==
  /\ age' = [i \in Ids |-> IF i <= posted THEN Older(age[i]) ELSE 0]
  /\ slice' = [slice EXCEPT !.last = Older(@), !.due = Down(@)]
  /\ walk' = IF walk.on THEN [walk EXCEPT !.age = Older(@)] ELSE walk
  /\ list' = [list EXCEPT !.age = Older(@), !.strained = @ \/ Strains]
  /\ UNCHANGED <<posted, sighted>>

Next ==
  \/ Tick \/ Post \/ Claim \/ Break \/ LastPage \/ Finish \/ Crash
  \/ \E n \in Lengths : ReadPage(n) \/ ReadEnd(n)
  \/ \E reason \in {"rate_limited", "throttled_empty"} : Refused(reason)
  \/ \E reason \in {"stopped", "rate_limited", "error"} : Interrupt(reason)

Spec == Init /\ [][Next]_vars

-----------------------------------------------------------------------------
(* Properties *)

Slices ==
  [offset: Nat, walked: BOOLEAN, last: 0..AgeCap, due: Nat, interval: MinInterval..MaxInterval,
   empties: 0..EmptyStreak]

Walks ==
  [on: BOOLEAN, start: Nat, window: Nat, age: 0..AgeCap, pages: 0..MaxPages, cards: BOOLEAN,
   seen: SUBSET Ids, widest: Nat, full: BOOLEAN, streak: 0..KnownPages,
   refusals: 0..RefusedPages, distrust: BOOLEAN, ends: Finished \cup Unfinished \cup {"no"}]

TypeOK ==
  /\ posted \in 0..Postings
  /\ age \in [Ids -> 0..AgeCap]
  /\ sighted \subseteq 1..posted
  /\ slice \in Slices
  /\ walk \in Walks
  /\ list \in [age: 0..AgeCap, size: 0..posted, spread: 0..AgeCap, cut: SUBSET (1..posted),
               cold: BOOLEAN, strained: BOOLEAN]

\* The stored offset never runs ahead of the sightings, whatever kills the walk
\* and however the list has grown since: a posting that was in the list when
\* its head was read and stands before the offset has been sighted.
OffsetFollowsSightings ==
  \A i \in 1..list.size : posted - i < slice.offset => i \in sighted

\* The inductive strengthening: a newer posting is never older, so the page read
\* from an offset has no holes, and a walk stands where the slice says it does.
NewestFirst ==
  /\ age \in [Ids -> Nat]
  /\ \A i, j \in Ids : i < j => age[j] <= age[i]
  /\ \A i \in Ids : i > posted => age[i] = 0

WalkIsStored ==
  /\ posted \in 0..Postings /\ list.size \in 0..posted
  /\ slice.offset \in Nat /\ slice.last \in Nat
  /\ walk.start \in Nat /\ walk.window \in Nat
  /\ walk.on => walk.start = slice.offset

IInv == NewestFirst /\ WalkIsStored /\ OffsetFollowsSightings

\* A walk that says it came to the end of its list has left nothing of that
\* list unread: neither refusals disguised as empty pages nor a resume in the
\* middle of a list that has grown end it early.  One that says it came to
\* results it knew has left unread only what a page cap had cut off before it,
\* as long as time has not strained the windows.
HonestEnd ==
  [][Finish => /\ walk.ends = "end_of_results" => Unread = {}
               /\ walk.ends = "known_page" /\ ~list.strained => Unread \subseteq list.cut]_vars

Missed == {i \in 1..posted : slice.walked /\ age[i] > slice.last + Margin /\ i \notin sighted}

\* Every posting is sighted before it is out of reach of the next window, but
\* for what a page cap cut off, as long as no walk was interrupted, or took,
\* longer than the margin.
NoGap == ~list.strained => Missed \subseteq list.cut

\* "so a restart or a pause leaves no gap" (window_seconds)
PausesLeaveNoGap == Missed = {}

\* What was read is not read again: the offset only falls when a walk finishes.
OffsetIsKept ==
  [][slice'.offset < slice.offset => Finish /\ walk.ends \in Finished]_vars

-----------------------------------------------------------------------------
\* The collector is restarted and claims what is due, the schedule's gate opens
\* again, LinkedIn does not refuse every page for ever, and a crash does not for
\* ever hit the moment between the end of a walk and the commit that says so.
\* Walks may be interrupted at their pages for ever.
Fairness ==
  /\ WF_vars(Tick) /\ WF_vars(Claim) /\ WF_vars(Finish)
  /\ SF_vars(LastPage)
  /\ SF_vars(Finish /\ walk.ends \in Finished)
  /\ SF_vars(\E n \in Lengths : ReadPage(n) \/ ReadEnd(n))

FairSpec == Spec /\ Fairness

\* However often its walks are interrupted, the slice is walked to its end again
\* and again: every walk goes on from the page the last one came to.
WalksFinish == []<><<Finish /\ walk.ends \in Finished>>_vars
=============================================================================
