----------------------------- MODULE MCProgress -----------------------------
(***************************************************************************)
(* One run for what must happen in the end: a behaviour is one of          *)
(* JobLife, DailyRun, Rotation, Upkeep and Watch, `part` says which, and   *)
(* they share the variables v1 to v13; those a part does not use stay at   *)
(* rest.                                                                   *)
(***************************************************************************)
EXTENDS Integers, Sequences, FiniteSets

CONSTANTS o1

VARIABLES part, v1, v2, v3, v4, v5, v6, v7, v8, v9, v10, v11, v12, v13

four == <<v1, v2, v3, v4>>
slices == <<four, v5, v6, v7>>
eight == <<slices, v8>>
five == <<v9, v10, v11, v12, v13>>
all == <<eight, five>>
vars == <<part, all>>

-----------------------------------------------------------------------------
\* Two cards of one posting, one of LinkedIn (its text is fetched) and one of a
\* source that sends the text.
Cards == {"li", "fh"}
J == INSTANCE JobLife WITH
  row <- v1, owner <- v2, at <- v3, bought <- v4,
  SourceOf <- [li |-> "linkedin", fh |-> "freehire"],
  Paged <- {"linkedin"}, AgeOut <- 0, RefusalExpiry <- 0, MaxAge <- 1,
  UnreadableAttempts <- 2, BatchSize <- 2

D == INSTANCE DailyRun WITH
  queue <- v1, seen <- v2, at <- v3, fate <- v4, clock <- v5, attempt <- v6, told <- v7, worn <- v8,
  Offers <- {o1}, MaxAge <- 2, RateLimitMaxAge <- 1, MaxAttempts <- 3, Faults <- TRUE

\* All three slices configured; the third dropped; the third moved to the second tier.
Slices == {"a", "b", "d"}
Tier == [a |-> 1, b |-> 2, d |-> 1]
R == INSTANCE Rotation WITH
  rows <- v1, line <- v2, walked <- v3, walk <- v4, deaths <- v5, deploys <- v6, ahead <- v7,
  Tiers <- {1, 2}, MaxDeaths <- 1, MaxDeploys <- 1,
  Configs <- {[tier |-> Tier, on |-> Slices], [tier |-> Tier, on |-> {"a", "b"}],
              [tier |-> [Tier EXCEPT !["d"] = 2], on |-> Slices]}

Jobs == {"j1"}
U == INSTANCE Upkeep WITH
  store <- v1, stamped <- v2, old <- v3, fails <- v4, neon <- v5, batch <- v6, pass <- v7, upsets <- v8,
  OnLinkedIn <- {"j1"}, MaxAttempts <- 2, BatchSize <- 1, MaxUpsets <- 2

H == INSTANCE Watch WITH
  store <- v1, at <- v2, conn <- v3, lock <- v4, age <- v5, ledger <- v6, file <- v7, watch <- v8,
  looked <- v9, told <- v10, toldOf <- v11, quiet <- v12, upsets <- v13,
  Procs <- {"main", "twin"}, Unit <- "main", DownAfter <- 1, Repeat <- 2, MaxUpsets <- 2

ASSUME ProgressAssumption ==
  /\ J!JobLifeAssumption /\ D!DailyRunAssumption
  /\ R!RotationAssumption /\ U!UpkeepAssumption /\ H!WatchAssumption

-----------------------------------------------------------------------------
RestOfFive == v9 = "rest" /\ v10 = "rest" /\ v11 = "rest" /\ v12 = "rest" /\ v13 = "rest"

Init ==
  \/ part = "jobs" /\ J!Init /\ v5 = "rest" /\ v6 = "rest" /\ v7 = "rest" /\ v8 = "rest" /\ RestOfFive
  \/ part = "daily" /\ D!Init /\ RestOfFive
  \/ part = "slices" /\ R!Init /\ v8 = "rest" /\ RestOfFive
  \/ part = "upkeep" /\ U!Init /\ RestOfFive
  \/ part = "watch" /\ H!Init

Next ==
  /\ UNCHANGED part
  /\ \/ part = "jobs" /\ J!Next /\ UNCHANGED <<v5, v6, v7, v8, five>>
     \/ part = "daily" /\ D!Next /\ UNCHANGED five
     \/ part = "slices" /\ R!Next /\ UNCHANGED <<v8, five>>
     \/ part = "upkeep" /\ U!Next /\ UNCHANGED five
     \/ part = "watch" /\ H!Next

\* The fairness of each part, as its module states it.
Fairness ==
  /\ WF_four(part = "jobs" /\ J!Expire) /\ WF_four(part = "jobs" /\ J!Rule) /\ WF_four(part = "jobs" /\ J!NewDay)
  /\ \A step \in {"cheap", "check", "score", "describe"} : WF_four(part = "jobs" /\ J!Ends(step))
  /\ WF_eight(part = "daily" /\ D!Start) /\ WF_eight(part = "daily" /\ D!Handler)
  /\ WF_slices(part = "slices" /\ R!Claim) /\ WF_slices(part = "slices" /\ R!Finish)
  /\ WF_eight(part = "upkeep" /\ (U!SendBatch \/ U!StampBatch))
  /\ SF_eight(part = "upkeep" /\ U!StartPass)
  /\ \A j \in Jobs : SF_eight(part = "upkeep" /\ U!Packaging(j)) /\ WF_eight(part = "upkeep" /\ U!RetryDue(j))
  /\ WF_all(part = "watch" /\ H!Tick) /\ WF_all(part = "watch" /\ (H!Look \/ H!LookWithoutStore))
  /\ WF_all(part = "watch" /\ H!Commit)

FairSpec == Init /\ [][Next]_vars /\ Fairness

-----------------------------------------------------------------------------
\* No job waits for ever: whatever the hosts and the models answer, it is scored, filtered, expired
\* or merged (JobLife: processor/describe.py, llm_stages.py).
EveryJobEnds == \A j \in Cards : []<>(part = "jobs" => ~J!Waits(j))

\* Every attempt of a daily run ends (DailyRun); every due slice is walked in the end, walks that
\* die included, and a backlog of one tier does not starve another (Rotation); every alerted job is
\* packaged, given up or too old, whatever fails on the way (Upkeep); and a silent service is
\* reported, its return too (Watch).  (P ~> Q is []<>Q here, since what is not Q is P: TLC then
\* needs no tableau.)
NothingIsForgotten ==
  /\ []<>(part = "daily" => v3 = "idle")
  /\ [](part = "slices" => R!TypeOK /\ R!TiersTakeTurns)
  /\ \A s \in Slices : []<>(part = "slices" => ~R!Waits(s))
  /\ \A j \in Jobs : []<>(part = "upkeep" => (U!ToPackage(j) => U!Settled(j)))
  /\ []<>(part = "watch" => H!Reported)
  /\ <>[](part = "watch" /\ H!Healthy) => <>[](part = "watch" => H!NoAlert)
=============================================================================
