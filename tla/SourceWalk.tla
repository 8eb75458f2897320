----------------------------- MODULE SourceWalk -----------------------------
(***************************************************************************)
(* One slice of a daily source (freehire.me, Himalayas) and the walks that *)
(* page through it: the JSON client's bounded retries and 429 waits, the   *)
(* page loop with its stop rules, and the bookkeeping that lets an         *)
(* unfinished walk resume (src/src/sources/base.py, freehire.py,           *)
(* himalayas.py and collect_source_once of service.py).  The source lists  *)
(* newest postings first; postings appear and are withdrawn while a walk   *)
(* is under way, and a run can be killed between two pages.                *)
(***************************************************************************)
EXTENDS Integers, Sequences, FiniteSets

CONSTANTS
  PageSize,   \* hits on a full page
  KnownPages, \* full pages of known hits in a row that end a walk
  MaxPages,   \* pages one run reads at most (Himalayas' max_pages)
  MaxOffset,  \* the deepest hit the interface serves (freehire's cap)
  DayLength,  \* units of time in a day
  FirstPull,  \* time the first walk looks back
  Slack,      \* time a window reaches back past the whole days since the last complete walk
  Retries,    \* attempts after the first one for a broken answer
  Throttles,  \* 429 answers waited out per page
  RunBudget,  \* units of 429 waiting one run may spend
  Skipped,    \* postings item_to_card turns away: counted as hits, never stored
  Initially,  \* postings listed before the first walk
  MaxPosts, MaxTime, Burst, MaxPause, MaxUpsets \* bounds: postings, time, news and time while a
                                                \* walk is unfinished, lost runs and withdrawals

SourceWalkAssumption ==
  /\ {PageSize, KnownPages, MaxPages, DayLength, FirstPull, MaxPosts} \subseteq Nat \ {0}
  /\ {MaxOffset, Slack, Retries, Throttles, RunBudget, Initially, MaxTime} \subseteq Nat
  /\ {Burst, MaxPause, MaxUpsets} \subseteq Nat
  /\ FirstPull > MaxTime /\ Initially <= MaxPosts
  /\ Slack >= DayLength \* a window is longer than the time since the last complete walk

\* What a complete walk relies on: one page of known cards does not end a walk, no more postings
\* appear while a walk is unfinished than a page holds, and a walk is not unfinished for longer than
\* the next window, which counts whole days, surely has to spare: one day for freehire's two.
FewNews == KnownPages >= 2 /\ Burst <= PageSize
ShortPauses == MaxPause + DayLength <= Slack

VARIABLES
  posts,    \* when each posting appeared, oldest posting first
  gone,     \* postings the source no longer lists
  stored,   \* postings with a sighting
  clock,    \* the time
  slice,    \* the slices row: last complete walk, offset to resume at, stop reason
  walk,     \* the run in progress
  top,      \* the postings there were, and the time, when the walk last began at the top
  covered,  \* the postings there were when the last complete walk began at the top
  excused,  \* postings withdrawn, or missed for a reason (see Withdraw, Missed)
  news,     \* postings that appeared since the slice was last completely walked
  upsets    \* runs lost and postings withdrawn so far

vars == <<posts, gone, stored, clock, slice, walk, top, covered, excused, news, upsets>>

Never == -1
Unfinished == {"rate_limited", "error"}

Ids == 1..Len(posts)
NoWalk == [on |-> FALSE, started |-> 0, window |-> 0, offset |-> 0, pages |-> 0,
           streak |-> 0, attempts |-> 0, throttles |-> 0, budget |-> 0]

Init ==
  /\ posts = [p \in 1..Initially |-> 0]
  /\ gone = {} /\ stored = {} /\ clock = 0
  /\ slice = [last |-> Never, resume |-> 0, stop |-> "new"]
  /\ walk = NoWalk
  /\ top = [listed |-> 0, at |-> 0] /\ covered = 0
  /\ excused = {} /\ news = 0 /\ upsets = 0

-----------------------------------------------------------------------------
(* What the source lists and the window a walk asks for.                   *)

Listed(window) == {p \in Ids \ gone : posts[p] >= clock - window}
Rank(p, listed) == Cardinality({q \in listed : q >= p})
PageAt(offset) ==
  LET listed == Listed(walk.window)
  IN {p \in listed : Rank(p, listed) \in offset + 1 .. offset + PageSize}

WholeDays(time) == time - (time % DayLength)

\* posted_window_days; at least Slack, for a walk is never in the future.
Window == IF slice.last = Never THEN FirstPull ELSE WholeDays(clock - slice.last) + Slack

\* A run begins where the last walk of the slice stopped.
Begin ==
  /\ ~walk.on
  /\ walk' = [NoWalk EXCEPT !.on = TRUE, !.started = clock, !.window = Window,
                            !.offset = slice.resume, !.budget = RunBudget]
  /\ top' = IF slice.resume = 0 THEN [listed |-> Len(posts), at |-> clock] ELSE top
  /\ UNCHANGED <<posts, gone, stored, clock, slice, covered, excused, news, upsets>>

-----------------------------------------------------------------------------
(* The end of a walk: finish_source_walk.                                  *)

\* Mutant: an unfinished walk counts as a walk of the slice.
StampedAnyway(stop, next) ==
  [last |-> walk.started, resume |-> IF stop \in Unfinished THEN next ELSE 0, stop |-> stop]

Recorded(stop, next) ==
  [last   |-> IF stop \in Unfinished THEN slice.last ELSE walk.started,
   resume |-> IF stop \in Unfinished THEN next ELSE 0,
   stop   |-> stop]

Finish(stop, next) ==
  /\ slice' = Recorded(stop, next)
  /\ walk' = NoWalk
  /\ covered' = IF stop \in Unfinished THEN covered ELSE top.listed
  /\ news' = IF stop \in Unfinished THEN news ELSE 0

\* Postings the store has not met behind the place of a walk that goes no further.
Missed == {p \in (Ids \ gone) \ stored : Rank(p, Ids \ gone) > walk.offset}

-----------------------------------------------------------------------------
(* One answer of the client.  A page that is read is committed before the  *)
(* next request.                                                           *)

Asking == walk.on /\ walk.pages < MaxPages /\ walk.offset + PageSize <= MaxOffset

Streak(page) ==
  LET cards == page \ Skipped
  IN IF cards # {} /\ cards \subseteq stored /\ Cardinality(page) >= PageSize
     THEN walk.streak + 1 ELSE 0

Answered ==
  /\ Asking
  /\ LET page == PageAt(walk.offset)
         next == walk.offset + Cardinality(page)
         streak == Streak(page)
     IN /\ stored' = stored \union (page \ Skipped)
        /\ \/ Cardinality(page) < PageSize /\ Finish("end_of_results", next)
           \/ Cardinality(page) >= PageSize /\ streak >= KnownPages /\ Finish("known_page", next)
           \/ /\ Cardinality(page) >= PageSize /\ streak < KnownPages
              /\ walk' = [walk EXCEPT !.offset = next, !.pages = @ + 1, !.streak = streak,
                                      !.attempts = 0, !.throttles = 0]
              /\ UNCHANGED <<slice, covered, news>>
  /\ UNCHANGED <<posts, gone, clock, top, excused, upsets>>

\* The bound of the run (Himalayas) or of the interface (freehire) ends the walk:
\* a normal end, though the rest of the list was not read.
Capped ==
  /\ walk.on /\ ~Asking
  /\ Finish("cap_hit", walk.offset)
  /\ excused' = excused \union Missed
  /\ UNCHANGED <<posts, gone, stored, clock, top, upsets>>

\* A network error, a 5xx or a 200 that is not JSON: asked again after a wait,
\* and an error once the waits are used up.
Broken ==
  /\ Asking
  /\ \/ /\ walk.attempts < Retries
        /\ walk' = [walk EXCEPT !.attempts = @ + 1]
        /\ UNCHANGED <<slice, covered, news>>
     \/ walk.attempts >= Retries /\ Finish("error", walk.offset)
  /\ UNCHANGED <<posts, gone, stored, clock, top, excused, upsets>>

\* A 429: waited out and asked again, unless the page had its share of them or
\* the wait does not fit into the run.
Throttled ==
  /\ Asking
  /\ \E wait \in 1..RunBudget + 1 :
       \/ /\ walk.throttles < Throttles /\ wait <= walk.budget
          /\ walk' = [walk EXCEPT !.throttles = @ + 1, !.budget = @ - wait]
          /\ UNCHANGED <<slice, covered, news>>
       \/ /\ walk.throttles >= Throttles \/ wait > walk.budget
          /\ Finish("rate_limited", walk.offset)
  /\ UNCHANGED <<posts, gone, stored, clock, top, excused, upsets>>

\* Any other status, or a body of the wrong shape, ends the walk at once.
Turned ==
  /\ Asking
  /\ Finish("error", walk.offset)
  /\ UNCHANGED <<posts, gone, stored, clock, top, excused, upsets>>

\* A walk that loses its place after it read pages: they are known now, and the next walk may take
\* them for the known end of the list, so it can miss what was behind them.
LosesPlace ==
  /\ excused' = IF walk.pages > 0 THEN excused \union Missed ELSE excused
  /\ upsets < MaxUpsets
  /\ upsets' = upsets + 1

\* freehire ignored a filter: walk_slice raises, and collect_source_once records
\* an error at the offset the run started from.
Ignored ==
  /\ Asking
  /\ Finish("error", slice.resume)
  /\ LosesPlace
  /\ UNCHANGED <<posts, gone, stored, clock, top>>

\* The unit's time limit, a reboot or a lost database connection: the pages
\* stay committed and the slice is as it was before the run.
Die ==
  /\ walk.on
  /\ walk' = NoWalk
  /\ LosesPlace
  /\ UNCHANGED <<posts, gone, stored, clock, slice, top, covered, news>>

-----------------------------------------------------------------------------
(* The source.                                                             *)

UnderWay == walk.on \/ slice.stop \in Unfinished

Post ==
  /\ Len(posts) < MaxPosts
  /\ UnderWay => news < Burst
  /\ posts' = Append(posts, clock)
  /\ news' = IF UnderWay THEN news + 1 ELSE 0
  /\ UNCHANGED <<gone, stored, clock, slice, walk, top, covered, excused, upsets>>

\* A posting above the walk's place disappears, and the next one slides past it.
Withdraw ==
  /\ upsets < MaxUpsets
  /\ \E p \in Ids \ gone :
       LET offset == IF walk.on THEN walk.offset ELSE slice.resume
           listed == Ids \ gone
       IN /\ gone' = gone \union {p}
          /\ excused' = excused \union {p} \union
               (IF Rank(p, listed) <= offset
                THEN {q \in listed : Rank(q, listed) = offset + 1} ELSE {})
  /\ upsets' = upsets + 1
  /\ UNCHANGED <<posts, stored, clock, slice, walk, top, covered, news>>

\* A run is over within its unit's half hour, so the time moves on once at most during it.  The walk
\* it is part of may stay unfinished for longer.
Tick ==
  /\ clock < MaxTime
  /\ walk.on => walk.started = clock
  /\ walk.on \/ slice.resume > 0 => clock < top.at + MaxPause
  /\ clock' = clock + 1
  /\ UNCHANGED <<posts, gone, stored, slice, walk, top, covered, excused, news, upsets>>

Next ==
  \/ Begin \/ Answered \/ Capped \/ Broken \/ Throttled \/ Turned \/ Ignored \/ Die
  \/ Post \/ Withdraw \/ Tick

Spec == Init /\ [][Next]_vars

-----------------------------------------------------------------------------
TypeOK ==
  /\ posts \in Seq(0..MaxTime) /\ Len(posts) <= MaxPosts
  /\ {gone, stored, excused} \subseteq SUBSET Ids
  /\ top \in [listed : 0..MaxPosts, at : 0..MaxTime] /\ covered \in 0..MaxPosts
  /\ clock \in 0..MaxTime
  /\ slice.last \in Never..MaxTime
  /\ slice.resume \in 0..MaxOffset
  /\ slice.stop \in Unfinished \union {"new", "end_of_results", "known_page", "cap_hit"}
  /\ walk \in [on : BOOLEAN, started : 0..MaxTime,
               window : 0..FirstPull + Slack + MaxTime,
               offset : 0..MaxOffset, pages : 0..MaxPages, streak : 0..KnownPages,
               attempts : 0..Retries, throttles : 0..Throttles, budget : 0..RunBudget]
  /\ news \in 0..Burst /\ upsets \in 0..MaxUpsets

\* Every posting there was when a complete walk began at the top of the list is in the store,
\* however many runs and days the walk was spread over, whatever was posted meanwhile and however
\* the client's waits ended; unless it was withdrawn or pushed past the walk's place by a withdrawal,
\* or a run that was lost or capped had yet to reach it (walk_slice, finish_source_walk).
CompleteMeansStored == 1..covered \ Skipped \subseteq stored \union excused

\* A posting that is not in the store, one that appeared while the last walk was unfinished
\* included, is in the window of the next walk: the stamp of a slice is the start of
\* the last run of the walk, and the window reaches back from there by what is left of Slack when the
\* days since are rounded down (service.py:37, base.py:204, freehire.py:127).
WindowHasTheRest ==
  slice.last # Never =>
    \A p \in Ids \ (stored \union excused \union Skipped) : posts[p] >= slice.last - (Slack - DayLength)
=============================================================================
