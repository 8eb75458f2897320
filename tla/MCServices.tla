----------------------------- MODULE MCServices -----------------------------
(***************************************************************************)
(* A small instance of each part of Services.                              *)
(***************************************************************************)
EXTENDS Services

CONSTANTS o1, o2, r1, r2, x1, x2

\* Two cards of one posting, one of LinkedIn (its text is fetched) and one of a
\* source that sends the text.
TwoCards ==
  [Cards |-> {"li", "fh"}, SourceOf |-> [li |-> "linkedin", fh |-> "freehire"],
   Paged |-> {"linkedin"}, AgeOut |-> 0, RefusalExpiry |-> 0, MaxAge |-> 1,
   UnreadableAttempts |-> 2, BatchSize |-> 2]

OneBatch ==
  [Stop |-> 2, Batches |-> 1, Retries |-> 2, Transient |-> 2, Malformed |-> 2, MinCalls |-> 2,
   Percent |-> 50, MaxNow |-> 2, MaxUpsets |-> 1]

TwoJobs ==
  [Jobs |-> {"j1", "j2"}, OnLinkedIn |-> {"j1"}, MaxAttempts |-> 2, BatchSize |-> 1, MaxUpsets |-> 1]

TwoOffers ==
  [Offers |-> {o1, o2}, MaxAge |-> 2, RateLimitMaxAge |-> 1, MaxAttempts |-> 2, Faults |-> TRUE]

TwoCalls ==
  [Batches |-> 2, BatchChunks |-> 2, Share |-> 5, GroqCeiling |-> 2, MaxRetries |-> 3, MaxCalls |-> 2]

TwoRuns == [Runs |-> {r1, r2}, Records |-> {x1, x2}]

\* A card that two searches return, one that a page boundary splits, one hidden.
TwoSearches ==
  [Searches |-> <<<<"a", "b", "c">>, <<"b", "d", "a">>>>, Hidden |-> {"d"}, PageSize |-> 2,
   MaxPages |-> 3, SearchRetries |-> 2, PageRetries |-> 2, TextRetries |-> 2, BreakAt |-> 2,
   MaxFactor |-> 4]

\* Budgets that leave a text whole, or half of themselves for its passages.
Budgets == {4, 6, 7}
ShortTexts ==
  [MaxLength |-> 8, Window |-> 2, Intro |-> 1, Joiner |-> 1, Budgets |-> Budgets,
   Appendix |-> [b \in Budgets |-> b \div 2]]

\* Class lists that are valid for one tier, and two that are not: a class given
\* twice, and one that leaves titles out.
Plain == <<[title |-> "ai", location |-> "any"], [title |-> "other", location |-> "any"]>>
Lists == {Plain, Append(Plain, Plain[1]), <<Plain[1]>>}
TwoTiers ==
  [Tiers |-> {1, 2}, Orders |-> {[t \in {1, 2} |-> list] : list \in Lists}, Places |-> {"other"},
   OneIn |-> 2, AgeOutTiers |-> {2}, MinClass |-> 1, Room |-> 2]

\* Two units make a day; a walk may stay unfinished for what the window of three has to spare.
TwoDays ==
  [PageSize |-> 2, KnownPages |-> 2, MaxPages |-> 2, MaxOffset |-> 8, DayLength |-> 2,
   FirstPull |-> 4, Slack |-> 3, Retries |-> 1, Throttles |-> 1, RunBudget |-> 1, Skipped |-> {3},
   Initially |-> 3, MaxPosts |-> 4, MaxTime |-> 3, Burst |-> 1, MaxPause |-> 1, MaxUpsets |-> 1]

TwoSlices ==
  [Slices |-> {"s1", "s2"}, Day |-> 7, ResumeAt |-> {3, 4}, Slack |-> 2, MaxSlots |-> 15,
   MaxUpsets |-> 1]

Twins ==
  [Procs |-> {"main", "twin"}, Unit |-> "main", DownAfter |-> 1, Repeat |-> 2, MaxUpsets |-> 2]
=============================================================================
