-------------------------------- MODULE Picks --------------------------------
(***************************************************************************)
(* The order of the description queue (src/processor/describe.py, with      *)
(* src/processor/fetch_order.py).  The head tier, the one whose last fetch  *)
(* attempt is oldest, decides by its own counter whether the next fetch is  *)
(* a floor pick (urgent jobs first, then the head's oldest AI title) or a   *)
(* value pick (the best class of the whole queue).                          *)
(*                                                                         *)
(* One action per call of describe_next, and one per thing that changes the *)
(* queue around it.  Ages are bands; the time of a fetch is its place in    *)
(* the order of fetches.  A class is known by its title kind and location.  *)
(***************************************************************************)
EXTENDS Naturals, Sequences, FiniteSets, SequencesExt

CONSTANTS
    Tiers,        \* tiers of the store
    Orders,       \* class lists the config may hold: [Tiers -> Seq(Class)]
    Places,       \* location kinds of the jobs that arrive
    OneIn,        \* quota_one_in
    AgeOutTiers,  \* age_out.tiers
    MinClass,     \* age_out.min_class
    Room          \* most jobs waiting (bound)

\* What a class of a list is known by: a title kind and a location, or any location.
Titles == {"ai", "other"}
Locations == {"country_only", "other"}
Class == [title : Titles, location : Locations \cup {"any"}]

PicksAssumption ==
    /\ Tiers \subseteq Nat /\ IsFiniteSet(Tiers) /\ OneIn \in Nat \ {0}
    /\ Orders \subseteq [Tiers -> Seq(Class)] /\ Places \subseteq Locations
    /\ AgeOutTiers \subseteq Tiers /\ Room \in Nat \ {0}

VARIABLES
    mode,   \* "starting", "running", or "refused" if the config is not valid
    order,  \* the class lists of the config
    line,   \* the waiting jobs, oldest first_seen_at first
    older,  \* the pairs of tiers of which the first's last fetch attempt, if any, came first
    picks,  \* picks[t], of t's floor share, modulo OneIn
    owed,   \* history: fetches since an urgent job was last given one
    since   \* history: since[t], fetches since one for a job of t, or t's turn

vars == <<mode, order, line, older, picks, owed, since>>

-----------------------------------------------------------------------------
(* The class lists.                                                         *)

Unclassified == 100
Unranked == 99

\* _tier_order: one key set, and every combination of the keys exactly once.
Accepted(list) ==
    \E places \in {Locations, {"any"}} :
        /\ {list[i] : i \in 1..Len(list)} = [title : Titles, location : places]
        /\ Len(list) = Cardinality([title : Titles, location : places])

\* TierOrder.classify: the first rank of the list that fits the job's card, from 0.
Fits(c, job) == c.title = job.title /\ c.location \in {"any", job.location}
Classify(list, job) ==
    (CHOOSE i \in 1..Len(list) : Fits(list[i], job)
                                 /\ \A k \in 1..(i - 1) : ~Fits(list[k], job)) - 1

\* DEFAULT_VALUE_RANK by class name, the same for every tier.
ValueRank(c) ==
    CASE c = [title |-> "ai", location |-> "country_only"] -> 0
      [] c = [title |-> "ai", location |-> "any"] -> 1
      [] c = [title |-> "ai", location |-> "other"] -> 2
      [] c = [title |-> "other", location |-> "country_only"] -> 3
      [] c = [title |-> "other", location |-> "any"] -> 4
      [] OTHER -> 5
Rank(job) == IF job.class < Len(order[job.tier])
             THEN ValueRank(order[job.tier][job.class + 1]) ELSE Unranked

-----------------------------------------------------------------------------
(* The queries of a pick: places in the line.                               *)

Oldest(S) == CHOOSE i \in S : \A j \in S : i =< j
Ready == {i \in 1..Len(line) : ~line[i].held}
AtTier(S, t) == {i \in S : line[i].tier = t}

\* Ties, of tiers that were never fetched for, go to the lowest.
Older(t, u) == <<t, u>> \in older
Before(t, u) == Older(t, u) \/ (~Older(u, t) /\ t =< u)
HeadTier == LET waiting == {line[i].tier : i \in Ready}
            IN CHOOSE t \in waiting : \A u \in waiting : Before(t, u)

\* age_out_where: the jobs the age-out expires; an unclassified one is not among them.
Covered(job) == job.tier \in AgeOutTiers /\ job.class \in MinClass..Unranked
Urgent == {i \in Ready : line[i].age >= 1 /\ ~Covered(line[i])}
Important(t) ==
    {i \in AtTier(Ready, t) : line[i].class < Len(order[t])
                              /\ order[t][line[i].class + 1].title = "ai"}
ByValue == LET ready == Ready
               best == Min({Rank(line[i]) : i \in ready})
           IN Oldest({i \in ready : Rank(line[i]) = best})

FloorTurn(head) == picks[head] % OneIn = 0
Pick(head) == LET urgent == Urgent important == Important(head)
              IN IF ~FloorTurn(head) THEN ByValue
                 ELSE IF urgent # {} THEN Oldest(urgent)
                 ELSE IF important # {} THEN Oldest(important)
                 ELSE ByValue

-----------------------------------------------------------------------------
(* Faults of the kind the comments of the pick warn of.                     *)

CountJobs(job, head) == job

\* The tiers whose turn a fetch was: a floor pick is the head's too.
Stamped(job, head, floor) == {job} \cup (IF floor THEN {head} ELSE {})
\* The counter it counts in.
Counted(job, head) == head
\* The turns after it: the tiers it was a turn of come last, the head after the job's.
Turns(served, job, head) ==
    {pair \in Tiers \X Tiers :
        \/ pair[1] \notin served /\ (pair[2] \in served \/ pair \in older)
        \/ pair = <<job, head>> /\ {job, head} \subseteq served /\ job # head}

-----------------------------------------------------------------------------
Job(t, title, place, class) ==
    [tier |-> t, title |-> title, location |-> place, class |-> class, held |-> FALSE, age |-> 0]

\* A job from before the class order has no class.
Init ==
    /\ mode = "starting" /\ order \in Orders /\ older = {}
    /\ line \in {<<>>} \cup {<<Job(t, "ai", "other", Unclassified)>> : t \in Tiers}
    /\ picks = [t \in Tiers |-> 0]
    /\ owed = 0 /\ since = [t \in Tiers |-> 0]

\* load_fetch_order: a wrong list stops the service.
Load ==
    /\ mode = "starting"
    /\ mode' = IF \A t \in Tiers : Accepted(order[t]) THEN "running" ELSE "refused"
    /\ UNCHANGED <<order, line, older, picks, owed, since>>

Running == mode = "running"

\* The histories, for the queue a step leaves.
WaitsIn(t, queue) == \E i \in 1..Len(queue) : queue[i].tier = t /\ ~queue[i].held
UrgentIn(queue) ==
    \E i \in 1..Len(queue) : queue[i].age >= 1 /\ ~queue[i].held /\ ~Covered(queue[i])
Histories(fetched, served, queue) ==
    /\ owed' = IF ~UrgentIn(queue) \/ fetched = "urgent" THEN 0
               ELSE IF fetched = "none" THEN owed ELSE owed + 1
    /\ since' = [t \in Tiers |->
                    IF ~WaitsIn(t, queue) \/ t \in served THEN 0
                    ELSE IF fetched = "none" THEN since[t] ELSE since[t] + 1]
Queue(queue) ==
    line' = queue /\ UNCHANGED <<mode, order, older, picks>> /\ Histories("none", {}, queue)

\* check_one gives the tier and the class.
Arrive ==
    /\ Running /\ Len(line) < Room
    /\ \E t \in Tiers, title \in Titles, place \in Places :
          Queue(Append(line,
              Job(t, title, place, Classify(order[t], [title |-> title, location |-> place]))))

\* classify_waiting.
ClassifyWaiting ==
    /\ Running /\ \E i \in Ready : line[i].class = Unclassified
    /\ Queue([i \in 1..Len(line) |->
          IF i \in Ready /\ line[i].class = Unclassified
          THEN [line[i] EXCEPT !.class = Classify(order[line[i].tier], line[i])] ELSE line[i]])

\* Time passes: older jobs are past a band before younger ones.
Ripen ==
    /\ Running
    /\ \E i \in 1..Len(line) :
          /\ line[i].age < 2 /\ (i > 1 => line[i - 1].age > line[i].age)
          /\ Queue([line EXCEPT ![i].age = @ + 1])

\* next_attempt_at of a refused job passes.
Release ==
    /\ Running
    /\ \E i \in 1..Len(line) : line[i].held /\ Queue([line EXCEPT ![i].held = FALSE])

\* expire_stale: the age-out, of the jobs it covers; the others stay in their order.
Stale(i) == Covered(line[i]) /\ line[i].age = 2
InOrder(places) == {f \in [1..Cardinality(places) -> places] : \A m, n \in DOMAIN f : m < n => f[m] < f[n]}
AgeOut ==
    /\ Running
    /\ \E i \in 1..Len(line) : Stale(i)
    /\ \E kept \in InOrder({i \in 1..Len(line) : ~Stale(i)}) : Queue([n \in DOMAIN kept |-> line[kept[n]]])

\* describe_next.  A job with no LinkedIn page leaves the queue, and nobody's turn is over.  A throttled
\* job stays as it is, a refused or unreadable one waits for its next attempt, any other leaves the
\* queue.  The schedule gate may defer the fetch: nothing changes.
WithoutPage(i) == Queue(RemoveAt(line, i))
Fetch(i, head) ==
    \E outcome \in {"throttled", "held", "left"} :
      LET job == line[i].tier
          served == Stamped(job, head, FloorTurn(head))
          queue == CASE outcome = "throttled" -> line
                     [] outcome = "held" -> [line EXCEPT ![i].held = TRUE]
                     [] OTHER -> RemoveAt(line, i)
      IN /\ line' = queue
         /\ older' = Turns(served, job, head)
         /\ picks' = [picks EXCEPT ![Counted(job, head)] = (@ + 1) % OneIn]
         /\ Histories(IF FloorTurn(head) /\ i \in Urgent THEN "urgent" ELSE "other", served, queue)
         /\ UNCHANGED <<mode, order>>
DescribeNext ==
    /\ Running /\ Ready # {}
    /\ \E head \in {HeadTier} : \E i \in {Pick(head)} : WithoutPage(i) \/ Fetch(i, head)

Next == Load \/ Arrive \/ ClassifyWaiting \/ Ripen \/ Release \/ AgeOut \/ DescribeNext
Spec == Init /\ [][Next]_vars

-----------------------------------------------------------------------------
(* What the order promises.                                                 *)

TypeOK ==
    /\ mode \in {"starting", "running", "refused"} /\ order \in Orders
    /\ Len(line) =< Room
    /\ ToSet(line) \subseteq [tier : Tiers, title : Titles, location : Locations, class : Nat,
                              held : BOOLEAN, age : 0..2]
    /\ older \subseteq Tiers \X Tiers
    /\ picks \in [Tiers -> 0..(OneIn - 1)] /\ owed \in Nat /\ since \in [Tiers -> Nat]

\* The 60-hour rule is a guaranteed share of the fetches: while jobs past it wait, whatever
\* tiers and classes arrive, one of them is fetched at least once in a floor period of every tier.
UrgentIsShared == owed =< (OneIn - 1) * Cardinality(Tiers)

\* No tier with a job waiting is left out of the rotation: whatever the value order prefers and
\* however the host answers, its turn comes within one floor period of each of the others and its own.
NoTierIsForgotten == \A t \in Tiers : since[t] < OneIn * Cardinality(Tiers)

\* A list the service starts with gives every card one class, and has no class no card can have.
\* (The lists stay as they are once read, so it is enough to look when no job waits.)
EveryClassIsUsed ==
    Running /\ line = <<>> => \A t \in Tiers :
        {Classify(order[t], job) : job \in [title : Titles, location : Locations]}
            = 0..(Len(order[t]) - 1)

PickSafe == UrgentIsShared /\ NoTierIsForgotten /\ EveryClassIsUsed
=============================================================================
