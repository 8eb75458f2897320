------------------------------- MODULE JobLife -------------------------------
(***************************************************************************)
(* The life of a job in the store, from the first sighting to a score or a *)
(* reason why not (src/src/processor, src/src/jobstore).  Every source     *)
(* that reports a posting makes a job of its own; the processor merges the *)
(* jobs of one posting, gives the survivor a tier, fetches its text, asks  *)
(* for a remote verdict and for a score.                                   *)
(*                                                                         *)
(* A job is named by the card that made it.  Each action is one commit   *)
(* of the code; `at` is the stage of the processor's tick that runs next.  *)
(* Ages are counted in days, up to the first day past every limit; the     *)
(* minutes and hours of a retry delay are the flag `due`, which some later *)
(* moment sets.                                                            *)
(***************************************************************************)
EXTENDS Integers, Sequences, FiniteSets, FiniteSetsExt

CONSTANTS
    Cards,              \* the cards the sources report of one posting, and the jobs they make
    SourceOf,           \* SourceOf[c]: the source of a card
    Paged,              \* the sources whose text must be fetched (LinkedIn)
    AgeOut,             \* age_out.hours, in days of the model
    RefusalExpiry,      \* refusal_expiry_days
    MaxAge,             \* posting_max_age_days
    UnreadableAttempts, \* UNREADABLE_ATTEMPTS
    BatchSize           \* remote_check_batch_size and scoring_batch_size

JobLifeAssumption ==
    /\ DOMAIN SourceOf = Cards
    /\ {AgeOut, RefusalExpiry} \subseteq Nat
    /\ {MaxAge, UnreadableAttempts, BatchSize} \subseteq Nat \ {0}

VARIABLES
    row,      \* row[s]: the job card s made
    owner,    \* owner[s]: the job the sighting of card s points to (sightings.job_id)
    at,       \* the next stage of the processor's tick
    bought    \* history: cards whose job was given a verdict by a model

vars == <<row, owner, at, bought>>

-----------------------------------------------------------------------------
None == "none"
Never == -1
Unfinished == {"seen", "described"}
Settled == {"filtered_out", "scored", "delivered"}
Places == {"kept", "aging", "hint"}
    \* the country with a class the age-out spares, the country with one it covers, no country
Steps == <<"expire", "cheap", "rules", "check", "score", "describe">>

Unseen == [stage |-> "unseen", aged |-> FALSE, tiered |-> FALSE, place |-> "hint", text |-> "pending",
           verdict |-> None, scored |-> FALSE, attempts |-> 0, due |-> TRUE, age |-> 0, refused |-> Never]
    \* age: days since first_seen_at; refused: days since first_refused_at

Alive(j) == row[j].stage \notin {"unseen", "merged"}
Sightings(j) == {s \in Cards : owner[s] = j}

\* record_sighting of an unknown (source, source_job_id): the only writer of a new row.
NewRow(place, text) == [Unseen EXCEPT !.stage = "seen", !.place = place, !.text = text]

Sight(s, place, text) ==
    /\ row[s].stage = "unseen"
    /\ SourceOf[s] \in Paged => text = "pending"
    /\ row' = [row EXCEPT ![s] = NewRow(place, text)]
    /\ owner' = [owner EXCEPT ![s] = s]
    /\ UNCHANGED <<at, bought>>

-----------------------------------------------------------------------------
(* Faults of the kind a merge, an expiry or a retry could have.             *)

OldestSurvives(a, b) == row[a].age > row[b].age \/ (row[a].age = row[b].age /\ row[a].text = "ok") \/ row[a] = row[b]
StaleSeenOnly(r, tooOld) == r.stage = "seen" /\ (tooOld \/ r.age > MaxAge)
GoneIsMarked(r) == [r EXCEPT !.text = "failed"]

-----------------------------------------------------------------------------
(* Writers of a row, one per statement of the code.                         *)

\* set_stage.  Of a finished job only the columns that a merge or the delivery still reads are kept.
Staged(r, stage) ==
    IF stage \in Unfinished THEN [r EXCEPT !.stage = stage, !.aged = FALSE]
    ELSE [Unseen EXCEPT !.stage = stage, !.place = r.place, !.text = r.text, !.verdict = r.verdict,
                        !.scored = r.scored, !.age = IF stage = "expired" THEN r.age ELSE 0]
\* defer.  The attempts of a job that has its text only lengthen its delay, and are not counted.
Deferred(r) ==
    [r EXCEPT !.due = FALSE, !.attempts = IF r.stage = "seen" THEN Min({@ + 1, UnreadableAttempts}) ELSE @]
\* The language check that follows every usable description.
Finished(r, passes) == Staged(r, IF passes THEN "described" ELSE "filtered_out")

Waiting(r) == r.stage = "seen" /\ r.tiered /\ r.text \in {"pending", "rate_limited"}

AgedOut(r) == Waiting(r) /\ r.place = "aging" /\ r.age > AgeOut
Stale(r, tooOld) ==
    \/ r.stage = "seen" /\ r.text = "rate_limited" /\ r.refused > RefusalExpiry
    \/ r.stage \in Unfinished /\ (tooOld \/ r.age > MaxAge)

\* The four statements of expire_stale, in order: the first that matches a job names its reason.
Expired(r, tooOld) ==
    CASE Stale(r, tooOld) -> Staged(r, "expired")
      [] ~Stale(r, tooOld) /\ AgedOut(r) -> [r EXCEPT !.stage = "expired", !.aged = TRUE]
      [] OTHER -> r

NextStep == [i \in 1..Len(Steps) |-> Steps[(i % Len(Steps)) + 1]]
After(step) == NextStep[CHOOSE i \in 1..Len(Steps) : Steps[i] = step]

\* `old`: jobs whose own posting date, which the source states, is over the limit.
ExpireStale(old) ==
    /\ at = "expire"
    /\ row' = [j \in Cards |-> Expired(row[j], j \in old)]
    /\ at' = "cheap"
    /\ UNCHANGED <<owner, bought>>

-----------------------------------------------------------------------------
(* Cheap checks: merge a clear twin, tier the job, check the language.      *)

NeedsCheck(j) == row[j].stage = "seen" /\ (~row[j].tiered \/ row[j].text = "ok")

Country(r) == IF r.place = "aging" THEN "kept" ELSE r.place
\* All sources report one posting; they differ in what they say of its place.
SourcesOf(j) == {SourceOf[s] : s \in Sightings(j)}
SamePosting(a, b) ==
    /\ a # b /\ Alive(a) /\ Alive(b)
    /\ row[a].place # "hint" /\ Country(row[a]) = Country(row[b])
    /\ SourcesOf(a) \cap SourcesOf(b) = {}
\* A job first seen within posting_max_age_days, which is WINDOW_DAYS.  The expiry of a tick leaves no unfinished
\* one older; of the other finished jobs no age is kept, and any of them may be near.
Recent(r) == r.stage \in Unfinished \/ (r.stage = "expired" /\ r.age <= MaxAge)

Candidates(j, near) == {k \in near : SamePosting(j, k)}
Twin(j, near) ==
    IF Cardinality(Candidates(j, near)) = 1 THEN CHOOSE k \in Candidates(j, near) : TRUE ELSE j

StageRank(stage) ==
    CASE stage = "delivered" -> 6 [] stage = "scored" -> 5 [] stage = "filtered_out" -> 4
      [] stage = "described" -> 3 [] stage = "seen" -> 2 [] OTHER -> 1

\* pick_survivor: the more progressed, then the earlier, then the one with a text; the id decides last.
Outranks(a, b) ==
    LET x == row[a]  y == row[b] IN
    \/ StageRank(x.stage) > StageRank(y.stage)
    \/ /\ x.stage = y.stage
       /\ \/ x.age > y.age
          \/ x.age = y.age /\ (x.text = "ok" \/ y.text # "ok")
Survivors(a, b) == {k \in {a, b} : Outranks(k, IF k = a THEN b ELSE a)}

Adopted(keep, drop) ==
    IF keep.text = "ok" \/ drop.text # "ok" THEN keep
    ELSE [keep EXCEPT !.text = "ok", !.refused = Never]
Carried(keep, drop) ==
    [keep EXCEPT !.verdict = IF @ = None THEN drop.verdict ELSE @, !.scored = @ \/ drop.scored]
\* merge_jobs: one row folded into the other.
Folded(keep, drop) ==
    LET k == Carried(Adopted(keep, drop), drop) IN
    [k EXCEPT !.age = Max({@, drop.age})]

\* The sightings of the dropped job follow the survivor; the row of the dropped one is deleted.
Moved(keep, drop) == [s \in Cards |-> IF owner[s] = drop THEN keep ELSE owner[s]]

\* The tier (no tier is out of scope) and the title, then the language of a text that is already there.
Tiered(r, dropped, passes) ==
    IF dropped THEN Staged(r, "filtered_out")
    ELSE IF r.text = "ok" THEN Finished([r EXCEPT !.tiered = TRUE], passes)
    ELSE [r EXCEPT !.tiered = TRUE]

\* check_one: one commit per job.  A job merged away ends here; one that survived a merge goes on.
CheckOne(j, near, seenBefore, dropped, passes) ==
    /\ at = "cheap"
    /\ NeedsCheck(j)
    /\ {k \in Cards : Recent(row[k])} \subseteq near
    /\ LET twin == Twin(j, near) IN
       \/ /\ seenBefore
          /\ row' = [row EXCEPT ![j] = Staged(@, "filtered_out")] /\ UNCHANGED owner
       \/ /\ ~seenBefore /\ twin = j
          /\ row' = [row EXCEPT ![j] = Tiered(@, dropped, passes)] /\ UNCHANGED owner
       \/ /\ ~seenBefore /\ twin # j
          /\ \E keep \in Survivors(j, twin) : LET drop == IF keep = j THEN twin ELSE j
                                                  one == Folded(row[keep], row[drop]) IN
                /\ row' = [row EXCEPT ![drop] = Staged(Unseen, "merged"),
                                      ![keep] = IF keep = j THEN Tiered(one, dropped, passes) ELSE one]
                /\ owner' = Moved(keep, drop)
    /\ UNCHANGED <<at, bought>>

\* The batch of the tick ends (it is bounded, so jobs may be left for the next).
Ends(step) ==
    /\ at = step
    /\ at' = After(step)
    /\ UNCHANGED <<row, owner, bought>>

-----------------------------------------------------------------------------
(* The two stages that ask language models.                                 *)

DueNow(j) == row[j].stage = "described" /\ row[j].due
ToVerify(j) == DueNow(j) /\ row[j].verdict = None
ToScore(j) == DueNow(j) /\ row[j].verdict \notin {None, "rejected"} /\ ~row[j].scored

\* due_batch: a full batch, or whatever waits once the oldest has waited long enough.
Batches(w) ==
    {b \in SUBSET w : b # {} /\ (Cardinality(b) = BatchSize \/ (b = w /\ Cardinality(w) < BatchSize))}

WithVerdict(r, verdict) ==
    LET v == [r EXCEPT !.verdict = verdict] IN IF verdict = "rejected" THEN Staged(v, "filtered_out") ELSE v

\* apply_deterministic_rules: one transaction over every waiting job; None leaves it to a model.
Rules(ruled) ==
    /\ at = "rules"
    /\ row' = [j \in Cards |-> IF ToVerify(j) /\ ruled[j] # None THEN WithVerdict(row[j], ruled[j]) ELSE row[j]]
    /\ at' = "check"
    /\ UNCHANGED <<owner, bought>>

\* run_remote_batches: a job whose answer failed is deferred, the others get their verdict.
RemoteBatch(batch, answer) ==
    /\ at = "check"
    /\ row' = [j \in Cards |-> IF j \notin batch THEN row[j]
                                 ELSE IF answer[j] = None THEN Deferred(row[j])
                                 ELSE WithVerdict(row[j], answer[j])]
    /\ bought' = bought \cup {s \in Cards : owner[s] \in batch /\ answer[owner[s]] # None}
    /\ UNCHANGED <<owner, at>>

\* run_combined_batches: verdict and score in one call (merged_call.enabled, read at each start,
\* picks one of the two).
CombinedBatch(batch, answer) ==
    /\ at = "check"
    /\ row' = [j \in Cards |->
          IF j \notin batch THEN row[j]
          ELSE IF answer[j] = None THEN Deferred(row[j])
          ELSE [Staged(row[j], IF answer[j] = "rejected" THEN "filtered_out" ELSE "scored")
                    EXCEPT !.verdict = answer[j], !.scored = TRUE]]
    /\ bought' = bought \cup {s \in Cards : owner[s] \in batch /\ answer[owner[s]] # None}
    /\ UNCHANGED <<owner, at>>

ScoringBatch(batch, reached) ==
    /\ at = "score"
    /\ row' = [j \in Cards |-> IF j \notin batch THEN row[j]
                                 ELSE IF j \notin reached THEN Deferred(row[j])
                                 ELSE [Staged(row[j], "scored") EXCEPT !.scored = TRUE]]
    /\ UNCHANGED <<owner, at, bought>>

-----------------------------------------------------------------------------
(* Descriptions.                                                            *)

Refused(r) == [r EXCEPT !.text = "rate_limited", !.refused = IF @ = Never THEN 0 ELSE @]
Gone(r) == [Staged(r, "expired") EXCEPT !.text = "failed"]
Unreadable(r) ==
    IF r.attempts + 1 >= UnreadableAttempts THEN Gone([r EXCEPT !.attempts = UnreadableAttempts]) ELSE Deferred(r)
Described(r, passes) == Finished([r EXCEPT !.text = "ok", !.refused = Never, !.attempts = 0], passes)

\* describe_next: a job picked, fetched through the pace and written.
DescribeNext(j, result, passes) ==
    /\ at = "describe"
    /\ Waiting(row[j]) /\ row[j].due
    /\ row' = [row EXCEPT ![j] =
          CASE SourcesOf(j) \cap Paged = {} -> Staged(@, "expired")
            [] OTHER -> CASE result = "ok" -> Described(@, passes)
                          [] result = "throttled" -> Refused(@)
                          [] result = "refused" -> Deferred(Refused(@))
                          [] result = "gone" -> Gone(@)
                          [] result = "failed" -> Unreadable(@)]
    /\ UNCHANGED <<owner, at, bought>>

-----------------------------------------------------------------------------
(* The rest of the system, and time.                                        *)

\* delivery/daily.py: a scored job is delivered.
Deliver(j) ==
    /\ row[j].stage = "scored"
    /\ row' = [row EXCEPT ![j] = Staged(@, "delivered")]
    /\ UNCHANGED <<owner, at, bought>>

\* python -m src.processor.age_out --undo
Undo ==
    /\ \E j \in Cards : row[j].aged
    /\ row' = [j \in Cards |-> IF row[j].aged THEN Staged(row[j], "seen") ELSE row[j]]
    /\ UNCHANGED <<owner, at, bought>>

DelayOver(j) ==
    /\ ~row[j].due /\ (row[j].stage \in Unfinished \/ row[j].aged)
    /\ row' = [row EXCEPT ![j].due = TRUE]
    /\ UNCHANGED <<owner, at, bought>>

\* The processor dies between two commits; the next start begins a tick.
Restart ==
    /\ at # "expire"
    /\ at' = "expire"
    /\ UNCHANGED <<row, owner, bought>>

\* A day passes; ages past every limit are all the same, and those of a job that nothing compares any
\* more stand still.
Older(n, limit) == IF n = Never THEN Never ELSE Min({n + 1, limit + 1})
Aged(r) ==
    IF r.stage \in Settled \cup {"unseen", "merged"} THEN r
    ELSE [r EXCEPT !.age = Older(@, MaxAge),
                   !.refused = IF r.stage \in Unfinished \/ r.aged THEN Older(@, RefusalExpiry) ELSE @]
NewDay ==
    /\ row' = [j \in Cards |-> Aged(row[j])]
    /\ UNCHANGED <<owner, at, bought>>

Init ==
    /\ row = [s \in Cards |-> Unseen]
    /\ owner = [s \in Cards |-> s]
    /\ at = "expire"
    /\ bought = {}

Answers == {None, "confirmed", "rejected"}
Check == at = "check" /\ \E b \in Batches({j \in Cards : ToVerify(j)}) : \E a \in [b -> Answers] :
             RemoteBatch(b, [j \in Cards |-> IF j \in b THEN a[j] ELSE None])
CheckMerged == at = "check" /\ \E b \in Batches({j \in Cards : ToVerify(j)}) : \E a \in [b -> Answers] :
             CombinedBatch(b, [j \in Cards |-> IF j \in b THEN a[j] ELSE None])
Score == at = "score" /\ \E b \in Batches({j \in Cards : ToScore(j)}) : \E reached \in SUBSET b : ScoringBatch(b, reached)
Describe == \E j \in Cards, passes \in BOOLEAN, result \in {"ok", "throttled", "refused", "gone", "failed"} :
             DescribeNext(j, result, passes)
Expire == at = "expire" /\ \E old \in SUBSET {j \in Cards : row[j].stage \in Unfinished} : ExpireStale(old)
Cheap == \E j \in Cards, near \in SUBSET Cards, seenBefore, dropped, passes \in BOOLEAN :
    CheckOne(j, near, seenBefore, dropped, passes)
Rule == at = "rules" /\ \E ruled \in [{j \in Cards : ToVerify(j)} -> Answers] :
             Rules([j \in Cards |-> IF ToVerify(j) THEN ruled[j] ELSE None])
Skip == \E step \in {"cheap", "check", "score", "describe"} : Ends(step)

Processor == Expire \/ Cheap \/ Rule \/ Check \/ CheckMerged \/ Score \/ Describe \/ Skip

Next ==
    \/ \E s \in Cards, place \in Places, text \in {"pending", "ok"} : Sight(s, place, text)
    \/ Processor
    \/ \E j \in Cards : Deliver(j) \/ DelayOver(j)
    \/ Undo \/ Restart \/ NewDay

Spec == Init /\ [][Next]_vars

\* systemd keeps the processor running and every stage of a tick is bounded; days pass.
FairSpec ==
    /\ Spec
    /\ WF_vars(Expire) /\ WF_vars(Rule) /\ WF_vars(NewDay)
    /\ \A step \in {"cheap", "check", "score", "describe"} : WF_vars(Ends(step))

-----------------------------------------------------------------------------
(* Properties.                                                              *)

Stages == Unfinished \cup Settled \cup {"unseen", "expired", "merged"}
Rows == [stage : Stages, aged : BOOLEAN, tiered : BOOLEAN, place : Places,
         text : {"pending", "rate_limited", "ok", "failed"},
         verdict : {None, "confirmed", "rejected"}, scored : BOOLEAN,
         attempts : 0..UnreadableAttempts, due : BOOLEAN,
         age : 0..(MaxAge + 1), refused : Never..(RefusalExpiry + 1)]
TypeOK ==
    /\ row \in [Cards -> Rows]
    /\ owner \in [Cards -> Cards] /\ bought \subseteq Cards
    /\ at \in {Steps[i] : i \in 1..Len(Steps)}

\* A job is always where some stage, or nobody any more, will look for it: an unfinished job waits for a
\* check, for its text or for a model, and a scored one has a text, a verdict that is not a rejection and a
\* score.  The stages select their jobs by independent conditions (waiting_rows, _WAITING, run_cheap_checks)
\* and merges and failures change several columns at once, so a combination that none selects loses a job.
Attended == \A j \in Cards : LET r == row[j] IN
    /\ r.stage = "seen" => ~r.tiered \/ r.text \in {"pending", "rate_limited", "ok"}
    /\ r.stage = "described" => r.tiered /\ r.text = "ok" /\ r.verdict # "rejected" /\ ~r.scored
    /\ r.stage \in {"scored", "delivered"} => r.text = "ok" /\ r.verdict \notin {None, "rejected"} /\ r.scored
    /\ r.verdict = "rejected" => r.stage = "filtered_out"

\* A verdict a model was paid for stays with the posting through merges, so no later batch asks for it again
\* (merge.py: "must not be bought again").
PaidIsKept == \A s \in bought : row[owner[s]].verdict # None

\* Every sighting belongs to a job that exists, and a merged posting answers to all its sources: the deletion
\* that ends a merge takes no sighting with it (sightings.job_id cascades).
SightingsAreHeld == \A s \in Cards : row[s].stage # "unseen" => Alive(owner[s])

\* A merge, a retry, a restart or an undo never moves a posting back: the job a sighting belongs to only
\* progresses, except that expiry ends an unfinished one.
Progress == \A s \in Cards : row[s].stage # "unseen" =>
    LET was == row[owner[s]].stage  is == row'[owner'[s]].stage IN
    StageRank(is) >= StageRank(was) \/ (was \in Unfinished /\ is = "expired")
ProgressIsKept == [][Progress]_vars

\* No job waits for ever: whatever the hosts and the models answer, it is scored, filtered, expired or merged.
Waits(j) == row[j].stage \in Unfinished
EveryJobEnds == \A j \in Cards : Waits(j) ~> ~Waits(j)
=============================================================================
