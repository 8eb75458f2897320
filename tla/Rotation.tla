------------------------------- MODULE Rotation -------------------------------
(***************************************************************************)
(* Whose turn it is to be walked (src/linkedin/walk.py, claim_due_slice),   *)
(* with the catalogue of slices (src/linkedin/catalog.py) and the           *)
(* collector's tick around a walk (src/linkedin/collector.py).              *)
(*                                                                         *)
(* Due times count only through their order: a slice joins the line when    *)
(* it falls due.  What a walk does to its slice is in Walk; here it ends    *)
(* with its slice due again later, or dies and records nothing.             *)
(***************************************************************************)
EXTENDS Naturals, Sequences, FiniteSets, SequencesExt

CONSTANTS
    Slices,    \* (role, area) pairs
    Tiers,     \* tiers of the configs
    Configs,   \* what build_slices may produce: records of tier and on, the slices configured
    MaxDeaths, \* walks that end with nothing recorded (bound)
    MaxDeploys \* starts with another configuration (bound)

RotationAssumption ==
    /\ IsFiniteSet(Slices) /\ Tiers \subseteq Nat /\ MaxDeaths \in Nat /\ MaxDeploys \in Nat
    /\ Configs \subseteq [tier : [Slices -> Tiers], on : SUBSET Slices]

VARIABLES
    rows,    \* the slices table: the tier of each row, and the active ones; known, the rows there are
    line,    \* the rows whose due_at has passed, by due_at
    walked,  \* the rows with a row in slice_walks, latest walk last
    walk,    \* the walk under way: its slice, and the tiers that waited when it was claimed
    deaths, deploys,
    ahead    \* history: ahead[t][u], walks of tier u claimed since t began to wait

vars == <<rows, line, walked, walk, deaths, deploys, ahead>>

-----------------------------------------------------------------------------
NoWalk == [slice |-> "none", waiting |-> {}]
Idle == walk = NoWalk
Due(where, table) == {s \in ToSet(where) : s \in table.on}
Waiting(where, table) == {table.tier[s] : s \in Due(where, table)}

\* The place of a tier's last walk, of any row it has, active or not; 0 for none.
LastWalk(t) ==
    LET mine == {n \in 1..Len(walked) : rows.tier[walked[n]] = t}
    IN IF mine = {} THEN 0 ELSE CHOOSE n \in mine : \A m \in mine : m =< n
Place(s, where) == CHOOSE n \in 1..Len(where) : where[n] = s

\* ORDER BY served.at NULLS FIRST, due_at, tier: due_at decides between tiers never walked.
First(s, r) ==
    \/ LastWalk(rows.tier[s]) < LastWalk(rows.tier[r])
    \/ LastWalk(rows.tier[s]) = LastWalk(rows.tier[r]) /\ Place(s, line) =< Place(r, line)

Fresh == [t \in Tiers |-> [u \in Tiers |-> 0]]
Kept(counts, where, table) ==
    [t \in Tiers |-> IF t \in Waiting(where, table) THEN counts[t] ELSE Fresh[t]]

\* The rows a first sync adds are all due at its now.
Init ==
    /\ \E c \in Configs :
          /\ rows = [tier |-> c.tier, on |-> c.on, known |-> c.on]
          /\ line \in {q \in [1..Cardinality(c.on) -> c.on] : ToSet(q) = c.on}
    /\ walked = <<>> /\ walk = NoWalk
    /\ deaths = 0 /\ deploys = 0 /\ ahead = Fresh

-----------------------------------------------------------------------------
\* due_at of a row passes.
FallDue(s) ==
    /\ s \in rows.known /\ s \notin ToSet(line) /\ s # walk.slice
    /\ line' = Append(line, s)
    /\ UNCHANGED <<rows, walked, walk, deaths, deploys, ahead>>

\* claim_due_slice.
Claim ==
    /\ Idle
    /\ \E s \in Due(line, rows) :
          /\ \A r \in Due(line, rows) : First(s, r)
          /\ walk' = [slice |-> s, waiting |-> Waiting(line, rows) \ {rows.tier[s]}]
    /\ UNCHANGED <<rows, line, walked, deaths, deploys, ahead>>

\* finish_walk, after any end of the walk, its unexpected failure included.
Recorded(s) ==
    Append(IF s \in ToSet(walked) THEN RemoveAt(walked, Place(s, walked)) ELSE walked, s)
Finish ==
    /\ ~Idle
    /\ walked' = Recorded(walk.slice)
    /\ line' = RemoveAt(line, Place(walk.slice, line))
    /\ walk' = NoWalk
    /\ LET u == rows.tier[walk.slice]
           counted == [t \in Tiers |-> IF t \in walk.waiting
                          THEN [ahead[t] EXCEPT ![u] = IF @ < 2 THEN @ + 1 ELSE @] ELSE ahead[t]]
       IN ahead' = Kept([counted EXCEPT ![u] = Fresh[u]], line', rows)
    /\ UNCHANGED <<rows, deaths, deploys>>

\* The connection is gone, or the service killed: the row is as it was.
Die ==
    /\ ~Idle /\ deaths < MaxDeaths
    /\ walk' = NoWalk /\ deaths' = deaths + 1
    /\ UNCHANGED <<rows, line, walked, deploys, ahead>>

\* sync_and_clamp at a start: a new row is due now, a row no longer configured stays, inactive;
\* the clamp moves one whose interval was too long to an earlier due time.
Deploy ==
    /\ Idle /\ deploys < MaxDeploys
    /\ \E c \in Configs, k \in 0..Len(line), s \in Slices :
          LET new == c.on \ rows.known
              synced == line \o SetToSeq(new)
          IN /\ rows' = [tier |-> [r \in Slices |-> IF r \in c.on THEN c.tier[r] ELSE rows.tier[r]],
                         on |-> c.on, known |-> rows.known \cup new]
             /\ line' = IF s \in c.on \ new /\ s \notin ToSet(line)
                        THEN InsertAt(synced, k + 1, s) ELSE synced
    /\ deploys' = deploys + 1 /\ ahead' = Fresh
    /\ UNCHANGED <<walked, walk, deaths>>

Next == (\E s \in Slices : FallDue(s)) \/ Claim \/ Finish \/ Die \/ Deploy

\* The service loop claims whenever it can, and a walk ends.
Fairness == WF_vars(Claim) /\ WF_vars(Finish)
Spec == Init /\ [][Next]_vars
FairSpec == Spec /\ Fairness

-----------------------------------------------------------------------------
TypeOK ==
    /\ rows.tier \in [Slices -> Tiers] /\ rows.on \subseteq rows.known /\ rows.known \subseteq Slices
    /\ ToSet(line) \cup ToSet(walked) \subseteq rows.known
    /\ Len(line) = Cardinality(ToSet(line)) /\ Len(walked) = Cardinality(ToSet(walked))
    /\ walk.slice \in rows.known \cup {"none"} /\ walk.waiting \subseteq Tiers
    /\ deaths \in 0..MaxDeaths /\ deploys \in 0..MaxDeploys /\ ahead \in [Tiers -> [Tiers -> 0..2]]

\* A backlog in one tier cannot starve the others: while a tier has a slice due, no other tier
\* has two walks claimed ahead of it.
TiersTakeTurns == \A t, u \in Tiers : t # u => ahead[t][u] =< 1

\* Every slice that stays configured and is due is walked in the end, walks that die included.
Waits(s) == s \in Due(line, rows)
EverySliceIsWalked == \A s \in Slices : Waits(s) ~> ~Waits(s)
=============================================================================
