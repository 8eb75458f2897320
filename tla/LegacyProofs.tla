---------------------------- MODULE LegacyProofs ----------------------------
(***************************************************************************)
(* The legacy pipeline: the daily run (DailyRun), the log it keeps of      *)
(* itself (RunLog), its verification (Verify), its scraper (Scrape) and what *)
(* a model is shown of a posting (Excerpt), one section each, for any values *)
(* of their constants.  The parts meet in no theorem; each instance has      *)
(* variables of its own, or shares the name of one, which says nothing of    *)
(* the other.                                                               *)
(***************************************************************************)
EXTENDS DailyRun, FiniteSetTheorems, SequenceTheorems, WellFoundedInduction, TLAPS

-----------------------------------------------------------------------------
(* The run: whatever is raised and whenever it dies, no offer is lost.  Only *)
(* RateLimitMaxAge <= MaxAge is needed (2 and 3 days in retry_queue.py).    *)

\* What an offer can be at each statement of the handler.
FatesOf == [p \in Places |->
  CASE p \in {"idle", "fetch"} -> {"out"}
    [] p = "clear" -> {"out", "expired"}
    [] p = "verify" -> {"out", "expired", "pending", "ready", "verify"}
    [] p \in {"write_rejected", "score"} -> {"out", "expired", "pending", "ready", "rejected"}
    [] p = "persist" -> {"out", "expired", "pending", "rejected", "scored", "unscored"}
    [] OTHER -> {"out", "given_up", "pending", "rejected", "scored", "unscored"}]
FatesFit == \A o \in Offers : fate[o] \in FatesOf[at]

\* What the run gives up had its days.
WornOut == \A o \in Offers :
  /\ queue[o].lacks = "text" /\ RateLimitExpired(queue[o].age) => o \in worn
  /\ fate[o] \in {"expired", "given_up"} => o \in worn

\* Until the file is rewritten, `previous` has the age of every entry that is not dropped on load.
ClocksAgree == at \in {"verify", "write_rejected", "score", "persist"} => \A o \in Offers :
  /\ Queued(o) /\ ~ScoringExpired(o) => clock[o] = queue[o].age
  /\ fate[o] = "pending" /\ clock[o] # Never => queue[o].lacks = "text"

\* A run takes up nothing that was handled.
TakenAreUnseen == at \notin {"publish", "mark"} => \A o \in Offers : fate[o] # "out" => o \notin seen

\* Once the file is rewritten it has what the run leaves open, and no more.
Sorted == at \in {"give_up", "publish", "mark"} =>
  \A o \in Offers : Queued(o) <=> fate[o] \in {"pending", "unscored"}

\* What is about to be marked was told, what was given up is marked.
TellingComes ==
  /\ at \in {"score", "persist", "give_up", "publish", "mark"} => With("rejected") \subseteq told
  /\ at = "mark" => With("scored") \subseteq told
  /\ at \in {"publish", "mark"} => With("given_up") \subseteq seen

IInv ==
  /\ TypeOK /\ FatesFit /\ WornOut /\ ClocksAgree /\ TakenAreUnseen /\ Sorted /\ TellingComes
  /\ SeenIsHandled /\ SeenIsNotQueued

-----------------------------------------------------------------------------
\* FatesOf, place by place.
LEMMA Stages ==
  /\ FatesOf["idle"] = {"out"} /\ FatesOf["fetch"] = {"out"} /\ FatesOf["clear"] = {"out", "expired"}
  /\ FatesOf["verify"] = {"out", "expired", "pending", "ready", "verify"}
  /\ FatesOf["write_rejected"] = {"out", "expired", "pending", "ready", "rejected"}
  /\ FatesOf["score"] = {"out", "expired", "pending", "ready", "rejected"}
  /\ FatesOf["persist"] = {"out", "expired", "pending", "rejected", "scored", "unscored"}
  /\ FatesOf["give_up"] = {"out", "given_up", "pending", "rejected", "scored", "unscored"}
  /\ FatesOf["publish"] = {"out", "given_up", "pending", "rejected", "scored", "unscored"}
  /\ FatesOf["mark"] = {"out", "given_up", "pending", "rejected", "scored", "unscored"}
BY DEF FatesOf, Places

\* The types, offer by offer.
LEMMA Shapes ==
  ASSUME TypeOK, NEW o \in Offers
  PROVE  /\ queue[o] \in [lacks : {"nothing", "score", "text"}, age : Nat]
         /\ queue[o].lacks \in {"nothing", "score", "text"} /\ queue[o].age \in Nat
         /\ fate[o] \in Fates /\ clock[o] \in Nat \cup {Never}
BY DEF TypeOK

LEMMA InitHolds == ASSUME DailyRunAssumption PROVE Init => IInv
BY Stages DEF DailyRunAssumption, Init, IInv, TypeOK, FatesFit, WornOut, ClocksAgree, TakenAreUnseen, Sorted,
  TellingComes, SeenIsHandled, SeenIsNotQueued, Out, NoClock, Never, Absent, Places, Fates, Queued, With

-----------------------------------------------------------------------------
(* A run starts, starts over or dies: nothing is in between any more.       *)

LEMMA StartsKeep ==
  ASSUME DailyRunAssumption, IInv, Start \/ Raise \/ Die
  PROVE  IInv'
<1>1. /\ at' \in {"idle", "fetch"} /\ attempt' \in 0..MaxAttempts
      /\ \A o \in Offers : fate'[o] = "out" /\ clock'[o] \in Nat \cup {Never}
      /\ fate' \in [Offers -> Fates] /\ clock' \in [Offers -> Nat \cup {Never}]
      /\ UNCHANGED <<queue, seen, told, worn>>
  <2>1. CASE Start
    BY <2>1, Stages, Shapes DEF Start, IInv, TypeOK, FatesFit, DailyRunAssumption
  <2>2. CASE Raise
    BY <2>2 DEF Raise, NextAttempt, IInv, TypeOK, DailyRunAssumption, Out, NoClock, Never, Fates
  <2>3. CASE Die
    BY <2>3 DEF Die, IInv, TypeOK, DailyRunAssumption, Out, NoClock, Never, Fates
  <2> QED
    BY <2>1, <2>2, <2>3
<1>2. TypeOK'
  BY <1>1 DEF IInv, TypeOK, Places
<1>3. FatesFit' /\ TakenAreUnseen' /\ WornOut' /\ ClocksAgree' /\ Sorted'
  BY <1>1, Stages DEF IInv, FatesFit, TakenAreUnseen, WornOut, ClocksAgree, Sorted
<1>4. TellingComes' /\ SeenIsHandled' /\ SeenIsNotQueued'
  BY <1>1 DEF IInv, TellingComes, SeenIsHandled, SeenIsNotQueued, Queued
<1> QED
  BY <1>2, <1>3, <1>4 DEF IInv

-----------------------------------------------------------------------------
(* Midnight moves an entry and its place in `previous` together.            *)

LEMMA NewDayKeeps ==
  ASSUME DailyRunAssumption, IInv, NewDay
  PROVE  IInv'
<1>1. UNCHANGED <<seen, at, fate, attempt, told>> /\ worn \subseteq worn' /\ worn' \subseteq worn \cup Offers
  BY DEF NewDay
<1>2. ASSUME NEW o \in Offers
      PROVE  /\ queue'[o] \in [lacks : {"nothing", "score", "text"}, age : Nat]
             /\ queue'[o].lacks = queue[o].lacks
             /\ Queued(o) => queue'[o].age = OneMore(queue[o].age)
             /\ clock'[o] = IF clock[o] = Never THEN Never ELSE OneMore(clock[o])
  <2>1. /\ queue'[o] = IF Queued(o) THEN [queue[o] EXCEPT !.age = OneMore(queue[o].age)] ELSE Absent
        /\ clock'[o] = IF clock[o] = Never THEN Never ELSE OneMore(clock[o])
    BY DEF NewDay
  <2>2. OneMore(queue[o].age) \in Nat
    BY Shapes DEF IInv, OneMore, DailyRunAssumption
  <2> QED
    BY <2>1, <2>2, Shapes DEF IInv, Queued, Absent
<1>3. TypeOK'
  <2>1. \A o \in Offers : clock'[o] \in Nat \cup {Never}
    BY <1>2, Shapes DEF IInv, OneMore, Never, DailyRunAssumption
  <2>2. queue' \in [Offers -> [lacks : {"nothing", "score", "text"}, age : Nat]]
    BY <1>2 DEF NewDay
  <2>3. clock' \in [Offers -> Nat \cup {Never}]
    BY <2>1 DEF NewDay
  <2> QED
    BY <1>1, <2>2, <2>3 DEF IInv, TypeOK
<1>4. ASSUME NEW o \in Offers, queue'[o].lacks = "text", RateLimitExpired(queue'[o].age)
      PROVE  o \in worn'
  <2>1. queue[o].lacks = "text" /\ queue'[o].age = OneMore(queue[o].age)
    BY <1>2, <1>4 DEF Queued
  <2>2. CASE queue[o].age > MaxAge
    BY <2>1, <2>2, <1>1, <1>4, Shapes DEF IInv, WornOut, OneMore
  <2>3. CASE ~(queue[o].age > MaxAge)
    BY <2>1, <2>3, <1>4, Shapes DEF IInv, OneMore, NewDay
  <2> QED
    BY <2>2, <2>3
<1>5. WornOut'
  BY <1>1, <1>4 DEF IInv, WornOut
<1>6. ClocksAgree'
  <2> SUFFICES ASSUME at \in {"verify", "write_rejected", "score", "persist"}, NEW o \in Offers
               PROVE  /\ Queued(o)' /\ ~ScoringExpired(o)' => clock'[o] = queue'[o].age
                      /\ fate'[o] = "pending" /\ clock'[o] # Never => queue'[o].lacks = "text"
    BY <1>1 DEF ClocksAgree
  <2>1. Queued(o)' /\ ~ScoringExpired(o)' => Queued(o) /\ ~ScoringExpired(o)
    BY <1>2, Shapes DEF IInv, Queued, ScoringExpired, OneMore, DailyRunAssumption
  <2>2. Queued(o) => queue[o].age # Never
    BY Shapes DEF IInv, Never
  <2> QED
    BY <1>1, <1>2, <2>1, <2>2 DEF IInv, ClocksAgree
<1>7. FatesFit' /\ TakenAreUnseen' /\ TellingComes'
  BY <1>1 DEF IInv, FatesFit, TakenAreUnseen, TellingComes, With
<1>8. Sorted' /\ SeenIsNotQueued' /\ SeenIsHandled'
  BY <1>1, <1>2 DEF IInv, Sorted, Queued, SeenIsNotQueued, SeenIsHandled, TypeOK
<1> QED
  BY <1>3, <1>5, <1>6, <1>7, <1>8 DEF IInv

-----------------------------------------------------------------------------
(* The handler, statement by statement.                                     *)

\* The queue and the scrape: nothing handled is taken up, what expired is worn, and `previous` agrees.
LEMMA FetchKeeps ==
  ASSUME DailyRunAssumption, IInv, Scrape
  PROVE  IInv'
<1>1. PICK fetched, texts \in SUBSET Offers :
        \E throttled \in SUBSET fetched, foreign \in SUBSET texts : Fetch(fetched, throttled, texts, foreign)
  BY DEF Scrape
<1>2. PICK throttled \in SUBSET fetched, foreign \in SUBSET texts : Fetch(fetched, throttled, texts, foreign)
  BY <1>1
<1> DEFINE new == fetched \ seen
           fresh == {o \in new : ~(o \in throttled /\ o \in Live /\ queue[o].lacks = "score")}
           carried == Live \ fresh
           waiting == {o \in carried : queue[o].lacks = "text"}
<1>3. /\ at = "fetch" /\ texts \subseteq waiting /\ clock' = Previous
      /\ at' = (IF new = {} /\ Live = {} THEN "clear" ELSE "verify")
      /\ UNCHANGED <<queue, seen, attempt, told, worn>>
  BY <1>2 DEF Fetch
<1>4. ASSUME NEW o \in Offers
      PROVE  fate'[o] = CASE o \in fresh \cap throttled -> "pending"
                          [] o \in fresh \ throttled -> "verify"
                          [] o \in texts \ foreign -> "verify"
                          [] o \in waiting \ texts -> "pending"
                          [] o \in carried \ waiting -> "ready"
                          [] o \in ExpiredTexts \ fresh -> "expired"
                          [] OTHER -> "out"
  BY <1>2 DEF Fetch
<1>5. ASSUME NEW o \in Offers
      PROVE  /\ fate'[o] \in {"out", "expired", "pending", "ready", "verify"}
             /\ fate'[o] = "expired" => o \in ExpiredTexts
             /\ fate'[o] # "out" => o \in fresh \/ o \in Live \/ o \in ExpiredTexts
             /\ fate'[o] = "pending" => o \in fresh \cap throttled \/ o \in waiting
  BY <1>4, <1>3 DEF ExpiredTexts
<1>6. /\ \A o \in Offers : clock'[o] = IF o \in Live \cup ExpiredTexts THEN queue[o].age ELSE Never
      /\ clock' \in [Offers -> Nat \cup {Never}]
  BY <1>3, Shapes DEF IInv, Previous
<1>7. TypeOK'
  <2>1. at' \in Places
    BY <1>3 DEF Places
  <2>2. fate' \in [Offers -> Fates]
    <3>1. \A o \in Offers : fate'[o] \in Fates
      BY <1>5 DEF Fates
    <3>2. fate' = [o \in Offers |-> fate'[o]]
      BY <1>2 DEF Fetch
    <3> QED
      BY <3>1, <3>2
  <2> QED
    BY <1>3, <1>6, <2>1, <2>2 DEF IInv, TypeOK
<1>8. FatesFit'
  <2>1. CASE new = {} /\ Live = {}
    <3>1. ASSUME NEW o \in Offers PROVE fate'[o] \in {"out", "expired"}
      <4>1. o \notin fresh /\ o \notin carried /\ o \notin waiting /\ o \notin texts
        BY <1>3, <2>1
      <4> QED
        BY <1>4, <4>1
    <3> QED
      BY <3>1, <2>1, <1>3, Stages DEF FatesFit
  <2>2. CASE ~(new = {} /\ Live = {})
    BY <2>2, <1>3, <1>5, Stages DEF FatesFit
  <2> QED
    BY <2>1, <2>2
<1>9. WornOut'
  BY <1>3, <1>5 DEF IInv, WornOut, ExpiredTexts, Fates
<1>10. ClocksAgree'
  <2> SUFFICES ASSUME NEW o \in Offers
               PROVE  /\ Queued(o) /\ ~ScoringExpired(o) => clock'[o] = queue[o].age
                      /\ fate'[o] = "pending" /\ clock'[o] # Never => queue[o].lacks = "text"
    BY <1>3 DEF ClocksAgree, Queued, ScoringExpired
  <2>1. Queued(o) /\ ~ScoringExpired(o) => o \in Live \cup ExpiredTexts
    BY Shapes DEF IInv, Queued, ScoringExpired, Live, ExpiredTexts, RateLimitExpired, DailyRunAssumption
  <2>2. clock'[o] # Never => o \in Live \/ queue[o].lacks = "text"
    BY <1>6 DEF ExpiredTexts
  <2>3. o \in Live => queue[o].lacks \in {"score", "text"}
    BY Shapes DEF IInv, Live, Queued
  <2> QED
    BY <1>5, <1>6, <2>1, <2>2, <2>3
<1>11. TakenAreUnseen'
  <2>1. \A o \in Live \cup ExpiredTexts : Queued(o)
    BY DEF Live, ExpiredTexts, Queued
  <2>2. \A o \in fresh : o \notin seen
    OBVIOUS
  <2> QED
    BY <1>3, <1>5, <2>1, <2>2 DEF IInv, SeenIsNotQueued, TakenAreUnseen
<1>12. Sorted' /\ TellingComes' /\ SeenIsHandled' /\ SeenIsNotQueued'
  BY <1>3 DEF IInv, Sorted, TellingComes, SeenIsHandled, SeenIsNotQueued, Queued
<1> QED
  BY <1>7, <1>8, <1>9, <1>10, <1>11, <1>12 DEF IInv

\* No new offers: what expired is given up and the file is gone.
LEMMA ClearKeeps ==
  ASSUME DailyRunAssumption, IInv, Clear
  PROVE  IInv'
<1>1. /\ at = "clear" /\ at' = "give_up" /\ UNCHANGED <<seen, clock, attempt, told, worn>>
      /\ \A o \in Offers : /\ queue'[o] = Absent /\ fate[o] \in {"out", "expired"}
                           /\ fate'[o] = IF fate[o] = "expired" THEN "given_up" ELSE "out"
  BY Stages DEF Clear, IInv, FatesFit
<1>2. TypeOK'
  <2>1. queue' \in [Offers -> [lacks : {"nothing", "score", "text"}, age : Nat]]
    BY DEF Clear, Absent
  <2>2. fate' \in [Offers -> Fates]
    BY Shapes DEF Clear, IInv, Fates
  <2> QED
    BY <1>1, <2>1, <2>2 DEF IInv, TypeOK, Places
<1>3. FatesFit' /\ WornOut' /\ ClocksAgree' /\ TakenAreUnseen'
  BY <1>1, Stages DEF IInv, FatesFit, WornOut, ClocksAgree, TakenAreUnseen, Absent
<1>4. Sorted' /\ TellingComes'
  <2>1. \A o \in Offers : queue'[o].lacks = "nothing" /\ fate'[o] \in {"out", "given_up"}
    BY <1>1 DEF Absent
  <2> QED
    BY <1>1, <2>1 DEF Sorted, TellingComes, Queued, With
<1>5. SeenIsHandled' /\ SeenIsNotQueued'
  BY <1>1 DEF IInv, SeenIsHandled, SeenIsNotQueued, Queued, Absent, TypeOK
<1> QED
  BY <1>2, <1>3, <1>4, <1>5 DEF IInv

\* Verification and scoring decide the offers before them and write nothing.
LEMMA DecidingKeeps ==
  ASSUME DailyRunAssumption, IInv, Verification \/ Scoring
  PROVE  IInv'
<1>1. /\ \/ at = "verify" /\ at' = "write_rejected"
         \/ at = "score" /\ at' = "persist"
      /\ UNCHANGED <<queue, seen, clock, attempt, told, worn>>
  BY DEF Verification, VerifyOffers, Scoring, ScoreOffers
<1>2. ASSUME NEW o \in Offers
      PROVE  /\ fate'[o] = fate[o] \/ fate[o] \in {"verify", "ready"}
             /\ at = "verify" => fate'[o] = IF fate[o] = "verify" THEN fate'[o] ELSE fate[o]
             /\ at = "verify" /\ fate[o] = "verify" => fate'[o] \in {"rejected", "ready"}
             /\ at = "score" => fate'[o] = IF fate[o] = "ready" THEN fate'[o] ELSE fate[o]
             /\ at = "score" /\ fate[o] = "ready" => fate'[o] \in {"scored", "unscored"}
  <2>1. CASE Verification
    BY <2>1 DEF Verification, VerifyOffers, With
  <2>2. CASE Scoring
    BY <2>2 DEF Scoring, ScoreOffers, With
  <2> QED
    BY <2>1, <2>2
<1>3. FatesFit'
  BY <1>1, <1>2, Stages DEF IInv, FatesFit
<1>4. fate' = [o \in Offers |-> fate'[o]]
  BY DEF Verification, VerifyOffers, Scoring, ScoreOffers
<1>5. TypeOK'
  <2>1. \A o \in Offers : fate'[o] \in Fates
    BY <1>1, <1>2, Shapes DEF IInv, Fates
  <2> QED
    BY <1>1, <1>4, <2>1 DEF IInv, TypeOK, Places
<1>6. \A o \in Offers : /\ fate'[o] \in {"out", "expired", "given_up", "pending"} => fate'[o] = fate[o]
                        /\ at = "score" /\ fate'[o] = "rejected" => fate[o] = "rejected"
                        /\ fate'[o] # "out" => fate[o] # "out"
  BY <1>1, <1>2
<1>7. WornOut' /\ ClocksAgree' /\ TakenAreUnseen'
  BY <1>1, <1>6 DEF IInv, WornOut, ClocksAgree, TakenAreUnseen, Queued, ScoringExpired
<1>8. Sorted' /\ TellingComes' /\ SeenIsHandled' /\ SeenIsNotQueued'
  BY <1>1, <1>6 DEF IInv, Sorted, TellingComes, SeenIsHandled, SeenIsNotQueued, Queued, With
<1> QED
  BY <1>3, <1>5, <1>7, <1>8 DEF IInv

\* The rejected ones are told before anything is scored.
LEMMA WriteRejectedKeeps ==
  ASSUME DailyRunAssumption, IInv, WriteRejected
  PROVE  IInv'
<1>1. /\ at = "write_rejected" /\ at' = (IF With("ready") = {} THEN "persist" ELSE "score")
      /\ told' = told \cup With("rejected") /\ UNCHANGED <<queue, seen, fate, clock, attempt, worn>>
  BY DEF WriteRejected
<1>2. TypeOK'
  BY <1>1 DEF IInv, TypeOK, Places, With
<1>3. FatesFit'
  <2>1. CASE With("ready") = {}
    <3>1. \A o \in Offers : fate[o] # "ready"
      BY <2>1 DEF With
    <3> QED
      BY <1>1, <2>1, <3>1, Stages DEF IInv, FatesFit
  <2>2. CASE With("ready") # {}
    BY <1>1, <2>2, Stages DEF IInv, FatesFit
  <2> QED
    BY <2>1, <2>2
<1>4. WornOut' /\ ClocksAgree' /\ TakenAreUnseen'
  BY <1>1 DEF IInv, WornOut, ClocksAgree, TakenAreUnseen, Queued, ScoringExpired
<1>5. Sorted' /\ TellingComes' /\ SeenIsHandled' /\ SeenIsNotQueued'
  BY <1>1 DEF IInv, Sorted, TellingComes, SeenIsHandled, SeenIsNotQueued, Queued, With
<1> QED
  BY <1>2, <1>3, <1>4, <1>5 DEF IInv

\* The new file, offer by offer.
LEMMA Rewritten ==
  ASSUME DailyRunAssumption, IInv, Persist, NEW o \in Offers
  PROVE  /\ fate[o] \in {"out", "expired", "pending", "rejected", "scored", "unscored"}
         /\ queue'[o] = Entry(o)
         /\ Entry(o) \in [lacks : {"nothing", "score", "text"}, age : Nat]
         /\ (Entry(o).lacks # "nothing") <=>
              (fate[o] = "unscored" \/ (fate[o] = "pending" /\ ~RateLimitExpired(clock[o])))
         /\ Entry(o).lacks # "nothing" => Entry(o).age = IF clock[o] = Never THEN 0 ELSE clock[o]
         /\ Entry(o).lacks = "text" => ~RateLimitExpired(clock[o])
         /\ (Entry(o) = Absent) <=> (Entry(o).lacks = "nothing")
         /\ fate'[o] = IF fate[o] = "expired" \/ (fate[o] = "pending" /\ RateLimitExpired(clock[o]))
                         THEN "given_up" ELSE fate[o]
<1>1. at = "persist" /\ fate[o] \in {"out", "expired", "pending", "rejected", "scored", "unscored"}
  BY Stages DEF Persist, IInv, FatesFit
<1>2. /\ queue'[o] = Entry(o)
      /\ fate'[o] = IF fate[o] = "expired" \/ (fate[o] = "pending" /\ Entry(o) = Absent)
                      THEN "given_up" ELSE fate[o]
  BY DEF Persist
<1>3. o \in Unfinished <=> fate[o] \in {"unscored", "pending"}
  BY DEF Unfinished, With
<1>4. Entry(o) = IF fate[o] \notin {"unscored", "pending"} \/ (fate[o] = "pending" /\ RateLimitExpired(clock[o]))
                   THEN Absent
                   ELSE [lacks |-> IF fate[o] = "pending" THEN "text" ELSE "score",
                         age |-> IF clock[o] = Never THEN 0 ELSE clock[o]]
  BY <1>3 DEF Entry
<1>5. (IF clock[o] = Never THEN 0 ELSE clock[o]) \in Nat
  BY Shapes DEF IInv, Never
<1>6. CASE fate[o] \notin {"unscored", "pending"} \/ (fate[o] = "pending" /\ RateLimitExpired(clock[o]))
  <2>1. Entry(o) = Absent
    BY <1>4, <1>6
  <2> QED
    BY <1>1, <1>2, <1>6, <2>1 DEF Absent
<1>7. CASE ~(fate[o] \notin {"unscored", "pending"} \/ (fate[o] = "pending" /\ RateLimitExpired(clock[o])))
  <2>1. Entry(o) = [lacks |-> IF fate[o] = "pending" THEN "text" ELSE "score",
                    age |-> IF clock[o] = Never THEN 0 ELSE clock[o]]
    BY <1>4, <1>7
  <2>2. Entry(o).lacks = IF fate[o] = "pending" THEN "text" ELSE "score"
    BY <2>1
  <2> QED
    BY <1>1, <1>2, <1>5, <1>7, <2>1, <2>2 DEF Absent
<1> QED
  BY <1>6, <1>7

\* _persist_unfinished: a text is given up only after its days, and only what is open enters the file.
LEMMA PersistKeeps ==
  ASSUME DailyRunAssumption, IInv, Persist
  PROVE  IInv'
<1>1. at = "persist" /\ at' = "give_up" /\ UNCHANGED <<seen, clock, attempt, told, worn>>
  BY DEF Persist
<1>2. TypeOK'
  <2>1. queue' \in [Offers -> [lacks : {"nothing", "score", "text"}, age : Nat]]
    BY Rewritten DEF Persist
  <2>2. fate' \in [Offers -> Fates]
    <3>1. \A o \in Offers : fate'[o] \in Fates
      BY Rewritten DEF Fates
    <3> QED
      BY <3>1 DEF Persist
  <2> QED
    BY <1>1, <2>1, <2>2 DEF IInv, TypeOK, Places
<1>3. FatesFit'
  BY <1>1, Rewritten, Stages DEF FatesFit
<1>4. WornOut'
  <2>1. ASSUME NEW o \in Offers, queue'[o].lacks = "text", RateLimitExpired(queue'[o].age)
        PROVE  FALSE
    BY <2>1, Rewritten, Shapes DEF IInv, RateLimitExpired, DailyRunAssumption, Never
  <2>2. ASSUME NEW o \in Offers, fate'[o] = "given_up", fate[o] = "pending"
        PROVE  o \in worn
    <3>1. RateLimitExpired(clock[o]) /\ clock[o] # Never
      BY <2>2, Rewritten DEF RateLimitExpired, DailyRunAssumption, Never
    <3>2. queue[o].lacks = "text" /\ clock[o] = queue[o].age
      BY <1>1, <2>2, <3>1 DEF IInv, ClocksAgree, Queued, ScoringExpired
    <3> QED
      BY <3>1, <3>2 DEF IInv, WornOut
  <2>3. \A o \in Offers : fate'[o] # "expired" /\ (fate'[o] = "given_up" => fate[o] \in {"expired", "pending"})
    BY Rewritten
  <2> QED
    BY <1>1, <2>1, <2>2, <2>3 DEF IInv, WornOut
<1>5. ClocksAgree'
  BY <1>1 DEF ClocksAgree
<1>6. TakenAreUnseen' /\ TellingComes'
  BY <1>1, Rewritten DEF IInv, TakenAreUnseen, TellingComes, With
<1>7. Sorted'
  BY <1>1, Rewritten DEF Sorted, Queued
<1>8. SeenIsHandled' /\ SeenIsNotQueued'
  BY <1>1, Rewritten DEF IInv, SeenIsHandled, SeenIsNotQueued, TakenAreUnseen, Queued, TypeOK
<1> QED
  BY <1>2, <1>3, <1>4, <1>5, <1>6, <1>7, <1>8 DEF IInv

\* The log grows only by what was given up, and by what was told.
LEMMA MarkingKeeps ==
  ASSUME DailyRunAssumption, IInv, MarkGivenUp \/ Publish \/ MarkSeen
  PROVE  IInv'
<1>1. CASE MarkGivenUp
  <2>1. /\ at = "give_up" /\ at' = "publish" /\ seen' = seen \cup With("given_up")
        /\ UNCHANGED <<queue, fate, clock, attempt, told, worn>>
    BY <1>1 DEF MarkGivenUp
  <2>2. TypeOK' /\ FatesFit'
    BY <2>1, Stages DEF IInv, TypeOK, FatesFit, Places, With
  <2>3. WornOut' /\ ClocksAgree' /\ TakenAreUnseen' /\ TellingComes'
    BY <2>1 DEF IInv, WornOut, ClocksAgree, TakenAreUnseen, TellingComes, With
  <2>4. Sorted' /\ SeenIsHandled' /\ SeenIsNotQueued'
    BY <2>1 DEF IInv, Sorted, SeenIsHandled, SeenIsNotQueued, WornOut, With, Queued
  <2> QED
    BY <2>2, <2>3, <2>4 DEF IInv
<1>2. CASE Publish
  <2>1. /\ at = "publish" /\ at' = "mark" /\ told' = told \cup With("scored")
        /\ UNCHANGED <<queue, seen, fate, clock, attempt, worn>>
    BY <1>2 DEF Publish
  <2>2. TypeOK' /\ FatesFit'
    BY <2>1, Stages DEF IInv, TypeOK, FatesFit, Places, With
  <2>3. WornOut' /\ ClocksAgree' /\ TakenAreUnseen' /\ TellingComes'
    BY <2>1 DEF IInv, WornOut, ClocksAgree, TakenAreUnseen, TellingComes, With
  <2>4. Sorted' /\ SeenIsHandled' /\ SeenIsNotQueued'
    BY <2>1 DEF IInv, Sorted, SeenIsHandled, SeenIsNotQueued, Queued
  <2> QED
    BY <2>2, <2>3, <2>4 DEF IInv
<1>3. CASE MarkSeen
  <2>1. /\ at = "mark" /\ at' = "idle" /\ attempt' = 0 /\ fate' = Out /\ clock' = NoClock
        /\ seen' = seen \cup Handled /\ UNCHANGED <<queue, told, worn>>
    BY <1>3 DEF MarkSeen
  <2>2. \A o \in Offers : fate'[o] = "out"
    BY <2>1 DEF Out
  <2>3. TypeOK'
    BY <2>1 DEF IInv, TypeOK, Places, Handled, With, Out, NoClock, Never, Fates, DailyRunAssumption
  <2>4. FatesFit' /\ WornOut' /\ ClocksAgree' /\ TakenAreUnseen' /\ TellingComes' /\ Sorted'
    BY <2>1, <2>2, Stages DEF IInv, FatesFit, WornOut, ClocksAgree, TakenAreUnseen, TellingComes, Sorted
  <2>5. SeenIsHandled' /\ SeenIsNotQueued'
    BY <2>1 DEF IInv, SeenIsHandled, SeenIsNotQueued, TellingComes, Sorted, Handled, With, Queued
  <2> QED
    BY <2>3, <2>4, <2>5 DEF IInv
<1> QED
  BY <1>1, <1>2, <1>3

-----------------------------------------------------------------------------
LEMMA NextKeeps == ASSUME DailyRunAssumption PROVE IInv /\ [Next]_vars => IInv'
<1> SUFFICES ASSUME IInv, [Next]_vars PROVE IInv'
  OBVIOUS
<1>1. CASE UNCHANGED vars
  <2>1. TypeOK' /\ FatesFit' /\ WornOut' /\ ClocksAgree'
    BY <1>1 DEF vars, IInv, TypeOK, FatesFit, WornOut, ClocksAgree, Queued, ScoringExpired
  <2>2. TakenAreUnseen' /\ Sorted' /\ TellingComes' /\ SeenIsHandled' /\ SeenIsNotQueued'
    BY <1>1 DEF vars, IInv, TakenAreUnseen, Sorted, TellingComes, SeenIsHandled, SeenIsNotQueued, Queued, With
  <2> QED
    BY <2>1, <2>2 DEF IInv
<1>2. CASE Next
  BY <1>2, StartsKeep, NewDayKeeps, FetchKeeps, ClearKeeps, DecidingKeeps, WriteRejectedKeeps, PersistKeeps,
     MarkingKeeps DEF Next, Handler
<1> QED
  BY <1>1, <1>2

\* IInv holds in every state: the types, and what each place of a run says of the two files.
THEOREM Invariance == ASSUME DailyRunAssumption PROVE Spec => []IInv
<1>1. Init => IInv
  BY InitHolds
<1>2. IInv /\ [Next]_vars => IInv'
  BY NextKeeps
<1> QED
  BY <1>1, <1>2, PTL DEF Spec

\* Whatever is raised and whenever a run dies, an offer enters the dedup log only when it was handled, and
\* no offer is both handled and waiting (main.py, retry_queue.py, dedup.py).
THEOREM HandledBeforeSeen == ASSUME DailyRunAssumption PROVE Spec => [](SeenIsHandled /\ SeenIsNotQueued)
<1>1. IInv => SeenIsHandled /\ SeenIsNotQueued
  BY DEF IInv
<1> QED
  BY <1>1, Invariance, PTL

\* The age of a deferral goes back only for an entry whose scoring days are over: the invariant makes
\* `previous` agree with the file when a run rewrites it.
LEMMA ClockStep ==
  ASSUME DailyRunAssumption, IInv, [Next]_vars
  PROVE  ClockRuns
<1> SUFFICES ASSUME NEW o \in Offers, Queued(o), Queued(o)', ~ScoringExpired(o)
             PROVE  queue'[o].age >= queue[o].age
  BY DEF ClockRuns
<1>1. CASE Persist
  <2>1. queue'[o].age = IF clock[o] = Never THEN 0 ELSE clock[o]
    BY <1>1, Rewritten DEF Queued
  <2>2. clock[o] = queue[o].age
    BY <1>1 DEF Persist, IInv, ClocksAgree
  <2> QED
    BY <2>1, <2>2, Shapes DEF IInv, Never
<1>2. CASE NewDay
  <2>1. queue'[o] = [queue[o] EXCEPT !.age = OneMore(queue[o].age)]
    BY <1>2 DEF NewDay
  <2> QED
    BY <2>1, Shapes DEF IInv, OneMore, DailyRunAssumption
<1>3. CASE Clear
  BY <1>3 DEF Clear, Queued, Absent
<1>4. CASE UNCHANGED queue
  BY <1>4, Shapes DEF IInv
<1>5. Persist \/ NewDay \/ Clear \/ UNCHANGED queue
  BY DEF Next, vars, Start, Handler, Scrape, Fetch, Verification, VerifyOffers, WriteRejected, Scoring,
    ScoreOffers, MarkGivenUp, Publish, MarkSeen, Raise, Die
<1> QED
  BY <1>1, <1>2, <1>3, <1>4, <1>5

\* The clock of a deferral runs from the first one (retry_queue.py: "counted from the FIRST deferral").
THEOREM TheFirstDeferralCounts == ASSUME DailyRunAssumption PROVE Spec => ClockIsKept
<1>1. IInv /\ [Next]_vars => [ClockRuns]_vars
  BY ClockStep
<1> QED
  BY <1>1, Invariance, PTL DEF Spec, ClockIsKept

\* A run that ends has put every offer it took in into the dedup log or left it in the queue.
THEOREM NothingFallsBetween == ASSUME DailyRunAssumption PROVE Spec => Accounted
<1>1. ASSUME IInv PROVE EachHasAPlace
  <2> SUFFICES ASSUME MarkSeen, NEW o \in Offers, fate[o] # "out" PROVE o \in seen' \/ Queued(o)
    BY DEF EachHasAPlace
  <2>1. at = "mark" /\ seen' = seen \cup Handled
    BY DEF MarkSeen
  <2>2. fate[o] \in {"given_up", "pending", "rejected", "scored", "unscored"}
    BY <1>1, <2>1, Stages DEF IInv, FatesFit
  <2> QED
    BY <1>1, <2>1, <2>2 DEF IInv, Sorted, TellingComes, Handled, With
<1>2. IInv /\ [Next]_vars => [EachHasAPlace]_vars
  BY <1>1
<1> QED
  BY <1>2, Invariance, PTL DEF Spec, Accounted

-----------------------------------------------------------------------------
(* The record of a run: it is complete when the database says so.           *)

CONSTANTS Runs, Records
VARIABLES file, db, session, ok, started, made, dropped, cut, torn

L == INSTANCE RunLog

\* A run that has not begun has left nothing.
Unbegun == \A r \in Runs : r \notin started => file[r] = L!Nothing /\ db[r] = L!Nothing /\ made[r] = {}

\* Until its session closes a run is closed nowhere; with the flag still set its records are in its file or in
\* the database, and no part of a line waits for the next record.
SessionIsOpen ==
  /\ session # L!None => session \in started
  /\ at \in {"drain", "run"} =>
       /\ session \in Runs /\ file[session].close = L!None /\ db[session].close = L!None
  /\ at = "drain" => made[session] = {}
  /\ at = "run" /\ ok => ~torn /\ made[session] \subseteq file[session].records \cup db[session].records
  /\ at # "run" => ~torn
  /\ at \in {"flush", "rewrite"} => session \in Runs
  /\ at = L!None => session = L!None

\* A file that says ok has, with the database, what the run meant to keep.
OkFiles == \A r \in Runs : file[r].close = "ok" => made[r] \subseteq file[r].records \cup db[r].records

LogInv ==
  /\ L!TypeOK /\ Unbegun /\ SessionIsOpen /\ OkFiles /\ L!OkMeansComplete /\ L!RecordsAreKept

LEMMA LogInit == ASSUME L!RunLogAssumption PROVE L!Init => LogInv
<1> SUFFICES ASSUME L!Init PROVE LogInv
  OBVIOUS
<1>1. L!Nothing \in L!Held /\ L!Nothing.records = {} /\ L!Nothing.close = L!None /\ L!None # "ok"
  BY DEF L!Nothing, L!Held, L!None
<1>2. /\ \A r \in Runs : file[r] = L!Nothing /\ db[r] = L!Nothing /\ made[r] = {}
      /\ session = L!None /\ ok = TRUE /\ at = L!None /\ started = {} /\ dropped = {} /\ cut = {} /\ torn = FALSE
  BY DEF L!Init
<1>3. L!TypeOK
  BY <1>1 DEF L!Init, L!TypeOK
<1>4. Unbegun /\ SessionIsOpen
  BY <1>2 DEF Unbegun, SessionIsOpen, L!None
<1>5. OkFiles /\ L!OkMeansComplete /\ L!RecordsAreKept
  BY <1>1, <1>2 DEF OkFiles, L!OkMeansComplete, L!RecordsAreKept
<1> QED
  BY <1>3, <1>4, <1>5 DEF LogInv

\* What a file and a row are, and what a flush makes of them.
LEMMA LogRows ==
  ASSUME LogInv, NEW r \in Runs
  PROVE  /\ file[r] \in L!Held /\ db[r] \in L!Held
         /\ L!Nothing \in L!Held /\ L!Nothing.records = {} /\ L!Nothing.close = L!None
         /\ L!Written(db[r], file[r]) \in L!Held
         /\ L!Written(db[r], file[r]).records = db[r].records \cup file[r].records
         /\ L!Written(db[r], file[r]).close \in {db[r].close, file[r].close}
<1>1. file[r] \in L!Held /\ db[r] \in L!Held
  BY DEF LogInv, L!TypeOK
<1> QED
  BY <1>1 DEF L!Held, L!Nothing, L!None, L!Written

\* Whatever a flush answers, what the file said is said by the row or still by the file.
LEMMA FlushKeeps ==
  ASSUME LogInv, NEW r \in Runs, NEW answer \in L!DbAnswers, L!Flush(r, answer),
         UNCHANGED made
  PROVE  /\ file' \in [Runs -> L!Held] /\ db' \in [Runs -> L!Held]
         /\ \A s \in Runs \ {r} : file'[s] = file[s] /\ db'[s] = db[s]
         /\ file'[r].records \cup db'[r].records = file[r].records \cup db[r].records
         /\ db[r].records \subseteq db'[r].records
         /\ file'[r].close = "ok" => made[r] \subseteq file'[r].records \cup db'[r].records
         /\ db'[r].close = "ok" => made[r] \subseteq db'[r].records
<1>1. file \in [Runs -> L!Held] /\ db \in [Runs -> L!Held]
  BY DEF LogInv, L!TypeOK
<1>2. /\ file'[r] = IF answer = "done" THEN L!Nothing ELSE file[r]
      /\ db'[r] = IF answer \in {"done", "unheard"} THEN L!Written(db[r], file[r]) ELSE db[r]
      /\ \A s \in Runs \ {r} : file'[s] = file[s] /\ db'[s] = db[s]
  BY <1>1 DEF L!Flush, L!AfterFlush, L!Applied
<1>3. file' \in [Runs -> L!Held] /\ db' \in [Runs -> L!Held]
  BY <1>1, LogRows DEF L!Flush, L!AfterFlush
<1>4. file'[r].close \in {file[r].close, L!None} /\ db'[r].close \in {db[r].close, file[r].close}
  BY <1>2, LogRows
<1>5. /\ file'[r].records \cup db'[r].records = file[r].records \cup db[r].records
      /\ db[r].records \subseteq db'[r].records
  BY <1>2, LogRows DEF L!DbAnswers
<1>6. file'[r].close = "ok" => made[r] \subseteq file'[r].records \cup db'[r].records
  BY <1>4, <1>5 DEF LogInv, OkFiles, L!None
<1>7. db'[r].close = "ok" => made[r] \subseteq db'[r].records
  <2>1. CASE answer \in {"done", "unheard"}
    BY <2>1, <1>2, LogRows DEF LogInv, OkFiles, L!OkMeansComplete
  <2>2. CASE answer \notin {"done", "unheard"}
    BY <2>2, <1>2 DEF LogInv, L!OkMeansComplete
  <2> QED
    BY <2>1, <2>2
<1> QED
  BY <1>2, <1>3, <1>5, <1>6, <1>7

\* A session opens with nothing of its own; a drain is of another run's file.
LEMMA LogStarts ==
  ASSUME L!RunLogAssumption, LogInv, NEW r \in Runs, NEW answer \in L!DbAnswers, L!Start(r) \/ L!Drain(r, answer)
  PROVE  LogInv'
<1>1. CASE L!Start(r)
  BY <1>1 DEF L!Start, LogInv, L!TypeOK, Unbegun, SessionIsOpen, OkFiles, L!OkMeansComplete, L!RecordsAreKept,
    L!RunLogAssumption, L!Nothing, L!None
<1>2. CASE L!Drain(r, answer)
  <2>1. /\ at \in {"drain", L!None} /\ r # session /\ L!Flush(r, answer) /\ ok' \in BOOLEAN
        /\ UNCHANGED <<session, at, started, made, dropped, cut, torn>>
    BY <1>2 DEF L!Drain, L!Warned, LogInv, L!TypeOK
  <2>2. /\ file' \in [Runs -> L!Held] /\ db' \in [Runs -> L!Held]
        /\ \A s \in Runs \ {r} : file'[s] = file[s] /\ db'[s] = db[s]
        /\ file'[r].records \cup db'[r].records = file[r].records \cup db[r].records
        /\ file'[r].close = "ok" => made[r] \subseteq file'[r].records \cup db'[r].records
        /\ db'[r].close = "ok" => made[r] \subseteq db'[r].records
    BY <2>1, FlushKeeps
  <2>3. L!TypeOK'
    BY <2>1, <2>2 DEF LogInv, L!TypeOK
  <2>4. r \in started
    BY <1>2 DEF L!Drain, LogInv, Unbegun
  <2>5. Unbegun' /\ SessionIsOpen'
    BY <2>1, <2>2, <2>4 DEF LogInv, Unbegun, SessionIsOpen, L!None
  <2>6. OkFiles' /\ L!OkMeansComplete' /\ L!RecordsAreKept'
    <3>1. ASSUME NEW s \in Runs, s # r
          PROVE  /\ file'[s].close = "ok" => made'[s] \subseteq file'[s].records \cup db'[s].records
                 /\ db'[s].close = "ok" => made'[s] \subseteq db'[s].records
      BY <2>1, <2>2, <3>1 DEF LogInv, OkFiles, L!OkMeansComplete
    <3>2. OkFiles' /\ L!OkMeansComplete'
      BY <2>1, <2>2, <3>1 DEF OkFiles, L!OkMeansComplete
    <3>3. \A s \in Runs : file'[s].records \cup db'[s].records = file[s].records \cup db[s].records
      BY <2>2
    <3>4. L!RecordsAreKept'
      BY <2>1, <3>3 DEF LogInv, L!RecordsAreKept
    <3> QED
      BY <3>2, <3>4
  <2> QED
    BY <2>3, <2>5, <2>6 DEF LogInv
<1> QED
  BY <1>1, <1>2

\* The opening adds no record and closes nothing.
LEMMA LogOpens ==
  ASSUME L!RunLogAssumption, LogInv, NEW append \in L!Appends, NEW answer \in L!DbAnswers, L!Open(append, answer)
  PROVE  LogInv'
<1>1. /\ at = "drain" /\ at' = "run" /\ UNCHANGED <<session, started, made, dropped, cut>> /\ ok' \in BOOLEAN
      /\ session \in Runs /\ session \in started /\ made[session] = {}
      /\ torn' \in BOOLEAN /\ (ok' => ~torn')
      /\ file[session].close = L!None /\ db[session].close = L!None
  <2>1. at = "drain" /\ at' = "run" /\ UNCHANGED <<session, started, made, dropped, cut>>
    BY DEF L!Open
  <2>2. ok' \in BOOLEAN /\ torn' \in BOOLEAN /\ (ok' => ~torn')
    BY <2>1 DEF L!Open, L!Warned, L!AfterAppend, LogInv, L!TypeOK, SessionIsOpen
  <2> QED
    BY <2>1, <2>2 DEF LogInv, SessionIsOpen, L!RunLogAssumption
<1>2. file \in [Runs -> L!Held] /\ db \in [Runs -> L!Held]
  BY DEF LogInv, L!TypeOK
<1> DEFINE f == [file[session] EXCEPT !.open = TRUE]
<1>3. f \in L!Held /\ f.records = file[session].records /\ f.close = L!None
  BY <1>1, <1>2 DEF L!Held
<1>4. /\ L!Written(db[session], f) \in L!Held /\ L!Written(db[session], f).close = L!None
      /\ L!Written(db[session], f).records = db[session].records \cup f.records
  BY <1>1, <1>2, <1>3 DEF L!Held, L!Written
<1>5. [db[session] EXCEPT !.open = TRUE] \in L!Held /\ [db[session] EXCEPT !.open = TRUE].close = L!None
  BY <1>1, <1>2 DEF L!Held
<1>6. /\ file' \in [Runs -> L!Held] /\ db' \in [Runs -> L!Held]
      /\ \A s \in Runs \ {session} : file'[s] = file[s] /\ db'[s] = db[s]
      /\ file'[session].close = L!None /\ db'[session].close = L!None
  <2>1. CASE append = "written"
    <3>1. db' = IF L!Applied(answer) THEN [db EXCEPT ![session] = L!Written(db[session], f)] ELSE db
      BY <2>1 DEF L!Open
    <3>2. file' = [file EXCEPT ![session] = IF answer = "done" THEN L!Nothing ELSE f]
      BY <2>1 DEF L!Open
    <3>3. L!Nothing \in L!Held /\ L!Nothing.close = L!None
      BY DEF L!Nothing, L!Held, L!None
    <3> HIDE DEF f
    <3> QED
      BY <3>1, <3>2, <3>3, <1>1, <1>2, <1>3, <1>4
  <2>2. CASE append # "written"
    BY <2>2, <1>1, <1>2, <1>5 DEF L!Open
  <2> QED
    BY <2>1, <2>2
<1>7. L!TypeOK'
  BY <1>1, <1>6 DEF LogInv, L!TypeOK
<1>8. Unbegun' /\ SessionIsOpen'
  BY <1>1, <1>6 DEF LogInv, Unbegun, SessionIsOpen, L!None
<1>9. OkFiles' /\ L!OkMeansComplete'
  BY <1>1, <1>6 DEF LogInv, OkFiles, L!OkMeansComplete, L!None
<1>10. L!RecordsAreKept'
  BY <1>1, <1>6 DEF LogInv, L!RecordsAreKept
<1> QED
  BY <1>7, <1>8, <1>9, <1>10 DEF LogInv

\* A record that the file does not take clears the flag.
LEMMA LogRecords ==
  ASSUME L!RunLogAssumption, LogInv, NEW x \in Records, NEW append \in L!Appends, L!Record(x, append)
  PROVE  LogInv'
<1>1. /\ at = "run" /\ session \in Runs /\ session \in started
      /\ file[session].close = L!None /\ db[session].close = L!None
      /\ made' = [made EXCEPT ![session] = made[session] \cup {x}]
      /\ UNCHANGED <<db, session, at, started, cut>> /\ ok' \in BOOLEAN /\ torn' \in BOOLEAN
      /\ (ok' => ok /\ ~torn /\ ~torn' /\ L!Stays(append))
  <2>1. /\ ok' \in BOOLEAN /\ torn' \in BOOLEAN
        /\ (ok' => ok /\ ~torn /\ ~torn' /\ L!Stays(append))
    BY DEF L!Record, L!Warned, L!Stays, L!AfterAppend, LogInv, L!TypeOK, SessionIsOpen
  <2>2. /\ at = "run" /\ made' = [made EXCEPT ![session] = made[session] \cup {x}]
        /\ UNCHANGED <<db, session, at, started, cut>>
    BY DEF L!Record
  <2> QED
    BY <2>1, <2>2 DEF LogInv, SessionIsOpen, L!RunLogAssumption
<1>2. /\ file \in [Runs -> L!Held] /\ db \in [Runs -> L!Held] /\ made \in [Runs -> SUBSET Records]
  BY DEF LogInv, L!TypeOK
<1>3. /\ file' = IF L!Stays(append) THEN [file EXCEPT ![session].records = file[session].records \cup {x}] ELSE file
      /\ dropped' = IF L!Stays(append) THEN dropped ELSE dropped \cup {<<session, x>>}
  BY DEF L!Record
<1>4. /\ file' \in [Runs -> L!Held] /\ \A s \in Runs \ {session} : file'[s] = file[s] /\ made'[s] = made[s]
      /\ file'[session].close = L!None
      /\ file'[session].records = IF L!Stays(append) THEN file[session].records \cup {x} ELSE file[session].records
      /\ made'[session] = made[session] \cup {x}
  BY <1>1, <1>2, <1>3 DEF L!Held
<1>5. L!TypeOK'
  <2>1. dropped' \subseteq Runs \X Records /\ made' \in [Runs -> SUBSET Records]
    BY <1>1, <1>2, <1>3 DEF LogInv, L!TypeOK
  <2> QED
    BY <1>1, <1>2, <1>4, <2>1 DEF LogInv, L!TypeOK
<1>6. Unbegun' /\ SessionIsOpen'
  BY <1>1, <1>4 DEF LogInv, Unbegun, SessionIsOpen, L!None
<1>7. OkFiles' /\ L!OkMeansComplete'
  BY <1>1, <1>4 DEF LogInv, OkFiles, L!OkMeansComplete, L!None
<1>8. L!RecordsAreKept'
  BY <1>1, <1>3, <1>4 DEF LogInv, L!RecordsAreKept
<1> QED
  BY <1>5, <1>6, <1>7, <1>8 DEF LogInv

\* What is flushed before the close leaves the run open.
LEMMA LogFlushesEarly ==
  ASSUME L!RunLogAssumption, LogInv, NEW answer \in L!DbAnswers, L!FlushEarly(answer)
  PROVE  LogInv'
<1>1. /\ at = "run" /\ session \in Runs /\ session \in started /\ L!Flush(session, answer)
      /\ UNCHANGED <<session, at, started, made, dropped, cut>> /\ ok' \in BOOLEAN /\ torn' \in BOOLEAN
      /\ (ok' => ok /\ ~torn) /\ (torn' => torn)
      /\ file[session].close = L!None /\ db[session].close = L!None
  BY DEF L!FlushEarly, L!Warned, LogInv, L!TypeOK, SessionIsOpen, L!RunLogAssumption
<1>2. /\ file' \in [Runs -> L!Held] /\ db' \in [Runs -> L!Held]
      /\ \A s \in Runs \ {session} : file'[s] = file[s] /\ db'[s] = db[s]
      /\ file'[session].records \cup db'[session].records = file[session].records \cup db[session].records
  BY <1>1, FlushKeeps
<1>3. file'[session].close = L!None /\ db'[session].close = L!None
  <2>1. file \in [Runs -> L!Held] /\ db \in [Runs -> L!Held]
    BY DEF LogInv, L!TypeOK
  <2>2. /\ file'[session] \in {L!Nothing, file[session]}
        /\ db'[session] \in {L!Written(db[session], file[session]), db[session]}
    BY <1>1, <2>1 DEF L!Flush, L!AfterFlush
  <2> QED
    BY <1>1, <2>2, LogRows
<1>4. L!TypeOK'
  BY <1>1, <1>2 DEF LogInv, L!TypeOK
<1>5. Unbegun' /\ SessionIsOpen'
  BY <1>1, <1>2, <1>3 DEF LogInv, Unbegun, SessionIsOpen, L!None
<1>6. OkFiles' /\ L!OkMeansComplete'
  BY <1>1, <1>2, <1>3 DEF LogInv, OkFiles, L!OkMeansComplete, L!None
<1>7. L!RecordsAreKept'
  <2>1. \A s \in Runs : file'[s].records \cup db'[s].records = file[s].records \cup db[s].records
    BY <1>2
  <2> QED
    BY <1>1, <2>1 DEF LogInv, L!RecordsAreKept
<1> QED
  BY <1>4, <1>5, <1>6, <1>7 DEF LogInv

\* The closing line says ok only with every record in the file or the database; a close that cannot be flushed loses the ok,
\* or the file loses what follows with it.
LEMMA LogCloses ==
  ASSUME L!RunLogAssumption, LogInv,
         \/ \E append \in L!Appends : L!AppendClose(append)
         \/ \E answer \in L!DbAnswers : L!FlushClose(answer)
         \/ \E kept \in SUBSET Records, opened \in BOOLEAN : L!Rewrite(kept, opened)
         \/ L!Kill
  PROVE  LogInv'
<1> USE DEF L!RunLogAssumption
<1>1. /\ file \in [Runs -> L!Held] /\ db \in [Runs -> L!Held]
  BY DEF LogInv, L!TypeOK
<1>2. ASSUME NEW append \in L!Appends, L!AppendClose(append) PROVE LogInv'
  <2>1. /\ at = "run" /\ session \in Runs /\ session \in started
        /\ UNCHANGED <<db, started, made, dropped, cut>> /\ torn' = FALSE
        /\ ok => made[session] \subseteq file[session].records \cup db[session].records
    BY <1>2 DEF L!AppendClose, LogInv, SessionIsOpen
  <2>2. /\ file' \in [Runs -> L!Held] /\ \A s \in Runs \ {session} : file'[s] = file[s]
        /\ file'[session].records = file[session].records
        /\ file'[session].close = "ok" => ok
    <3>1. CASE L!Stays(append)
      <4>1. file' = [file EXCEPT ![session].close = IF ok THEN "ok" ELSE "incomplete"]
        BY <1>2, <3>1 DEF L!AppendClose
      <4> QED
        BY <4>1, <2>1, <1>1 DEF L!Held
    <3>2. CASE ~L!Stays(append)
      <4>1. file' = file /\ file[session].close = L!None
        BY <1>2, <2>1, <3>2 DEF L!AppendClose, LogInv, SessionIsOpen
      <4> QED
        BY <4>1, <2>1, <1>1 DEF L!None
    <3> QED
      BY <3>1, <3>2
  <2>3. \/ at' = "flush" /\ UNCHANGED <<session, ok>>
        \/ at' = L!None /\ session' = L!None /\ ok' = TRUE
    BY <1>2 DEF L!AppendClose
  <2>4. L!TypeOK' /\ Unbegun' /\ SessionIsOpen'
    BY <2>1, <2>2, <2>3 DEF LogInv, L!TypeOK, Unbegun, SessionIsOpen, L!None
  <2>5. OkFiles' /\ L!OkMeansComplete' /\ L!RecordsAreKept'
    BY <2>1, <2>2 DEF LogInv, OkFiles, L!OkMeansComplete, L!RecordsAreKept
  <2> QED
    BY <2>4, <2>5 DEF LogInv
<1>3. ASSUME NEW answer \in L!DbAnswers, L!FlushClose(answer) PROVE LogInv'
  <2>1. /\ at = "flush" /\ session \in Runs /\ session \in started /\ L!Flush(session, answer)
        /\ UNCHANGED <<started, made, dropped, cut, torn>> /\ ok' \in BOOLEAN
        /\ \/ at' = L!None /\ session' = L!None
           \/ at' = "rewrite" /\ session' = session
    BY <1>3 DEF L!FlushClose, LogInv, SessionIsOpen, L!None
  <2>2. /\ file' \in [Runs -> L!Held] /\ db' \in [Runs -> L!Held]
        /\ \A s \in Runs \ {session} : file'[s] = file[s] /\ db'[s] = db[s]
        /\ file'[session].records \cup db'[session].records = file[session].records \cup db[session].records
        /\ file'[session].close = "ok" => made[session] \subseteq file'[session].records \cup db'[session].records
        /\ db'[session].close = "ok" => made[session] \subseteq db'[session].records
    BY <2>1, FlushKeeps
  <2>3. L!TypeOK' /\ Unbegun' /\ SessionIsOpen'
    BY <2>1, <2>2 DEF LogInv, L!TypeOK, Unbegun, SessionIsOpen, L!None
  <2>4. OkFiles' /\ L!OkMeansComplete'
    BY <2>1, <2>2 DEF LogInv, OkFiles, L!OkMeansComplete
  <2>5. \A s \in Runs : file'[s].records \cup db'[s].records = file[s].records \cup db[s].records
    BY <2>2
  <2>6. L!RecordsAreKept'
    BY <2>1, <2>5 DEF LogInv, L!RecordsAreKept
  <2> QED
    BY <2>3, <2>4, <2>6 DEF LogInv
<1>4. ASSUME NEW kept \in SUBSET Records, NEW opened \in BOOLEAN, L!Rewrite(kept, opened) PROVE LogInv'
  <2>1. /\ at = "rewrite" /\ session \in Runs /\ at' = L!None /\ session' = L!None /\ ok' = TRUE
        /\ UNCHANGED <<db, started, made, dropped, torn>> /\ session \in started
    BY <1>4 DEF L!Rewrite, LogInv, SessionIsOpen, L!None
  <2>2. /\ file' \in [Runs -> L!Held] /\ \A s \in Runs \ {session} : file'[s] = file[s]
        /\ cut \subseteq cut' /\ cut' \subseteq cut \cup {session}
        /\ file'[session].records = file[session].records \/ session \in cut'
        /\ file'[session] = file[session] \/ file'[session].close # "ok"
    <3>1. [file[session] EXCEPT !.close = "incomplete"] \in L!Held
      BY <1>1, <2>1 DEF L!Held
    <3>2. CASE file' = [file EXCEPT ![session].close = "incomplete"] /\ UNCHANGED cut
      BY <3>1, <3>2, <1>1, <2>1 DEF L!Held
    <3>3. CASE UNCHANGED <<file, cut>>
      BY <3>3, <1>1, <2>1
    <3>4. CASE /\ file' = [file EXCEPT ![session] = [open |-> file[session].open /\ opened, records |-> kept,
                                                    close |-> L!None]]
               /\ cut' = cut \cup {session}
      <4>1. [open |-> file[session].open /\ opened, records |-> kept, close |-> L!None] \in L!Held
        BY <1>1, <2>1 DEF L!Held
      <4> QED
        BY <3>4, <4>1, <1>1, <2>1 DEF L!None
    <3> QED
      BY <1>4, <3>2, <3>3, <3>4 DEF L!Rewrite
  <2>3. L!TypeOK' /\ Unbegun' /\ SessionIsOpen'
    BY <2>1, <2>2 DEF LogInv, L!TypeOK, Unbegun, SessionIsOpen, L!None
  <2>4. OkFiles' /\ L!OkMeansComplete' /\ L!RecordsAreKept'
    BY <2>1, <2>2 DEF LogInv, OkFiles, L!OkMeansComplete, L!RecordsAreKept
  <2> QED
    BY <2>3, <2>4 DEF LogInv
<1>5. CASE L!Kill
  BY <1>5 DEF L!Kill, LogInv, L!TypeOK, Unbegun, SessionIsOpen, OkFiles, L!OkMeansComplete, L!RecordsAreKept, L!None
<1> QED
  BY <1>2, <1>3, <1>4, <1>5

\* What the files and the rows of the runs keep.
LEMMA LogInvariance == ASSUME L!RunLogAssumption PROVE L!Spec => []LogInv
<1>1. L!Init => LogInv
  BY LogInit
<1>2. LogInv /\ [L!Next]_(L!vars) => LogInv'
  <2> SUFFICES ASSUME LogInv, [L!Next]_(L!vars) PROVE LogInv'
    OBVIOUS
  <2>1. CASE UNCHANGED L!vars
    BY <2>1 DEF L!vars, LogInv, L!TypeOK, Unbegun, SessionIsOpen, OkFiles, L!OkMeansComplete, L!RecordsAreKept
  <2>2. CASE L!Next
    <3>1. CASE \E r \in Runs : L!Start(r) \/ \E answer \in L!DbAnswers : L!Drain(r, answer)
      <4>1. "done" \in L!DbAnswers
        BY DEF L!DbAnswers
      <4> QED
        BY <3>1, <4>1, LogStarts
    <3>2. CASE \E append \in L!Appends, answer \in L!DbAnswers : L!Open(append, answer)
      BY <3>2, LogOpens
    <3>3. CASE \E append \in L!Appends, x \in Records : L!Record(x, append)
      BY <3>3, LogRecords
    <3>4. CASE \E answer \in L!DbAnswers : L!FlushEarly(answer)
      BY <3>4, LogFlushesEarly
    <3> QED
      BY <2>2, <3>1, <3>2, <3>3, <3>4, LogCloses DEF L!Next
  <2> QED
    BY <2>1, <2>2
<1> QED
  BY <1>1, <1>2, PTL DEF L!Spec

\* A run whose row says it is complete has every record in the database that it meant to keep, and a record that
\* was appended is lost by no drain, flush or kill (telemetry.py).
THEOREM CompleteMeansComplete ==
  ASSUME L!RunLogAssumption
  PROVE  L!Spec => [](L!OkMeansComplete /\ L!RecordsAreKept)
<1>1. LogInv => L!OkMeansComplete /\ L!RecordsAreKept
  BY DEF LogInv
<1> QED
  BY <1>1, LogInvariance, PTL

\* The files, the rows and the session of the record keep their types, and what was cut or dropped
\* is of a run and of its records (telemetry.py).
THEOREM LogTypes == ASSUME L!RunLogAssumption PROVE L!Spec => []L!TypeOK
<1>1. LogInv => L!TypeOK
  BY DEF LogInv
<1> QED
  BY <1>1, LogInvariance, PTL

-----------------------------------------------------------------------------
(* Verification: the share of the day and the failures that are told.       *)

CONSTANTS Batches, BatchChunks, Share, GroqCeiling, MaxRetries, MaxCalls
VARIABLES run, logged, verdicts, collected, calls, sent, lost, replied, blank

V == INSTANCE Verify

Counters == [left : Int, total : Int, router : BOOLEAN, groq : BOOLEAN, fails : Int, attempt : Int,
             chunk : Int, requests : Nat, tokens : Nat, failed : Nat]

\* A batch that is about to be settled was counted, as failed or as replied to, when it has a mapping; one that
\* is empty brings no verdict.
Pending == IF at = "settle" /\ verdicts # V!Nobody THEN 1 ELSE 0
Unseen == IF at = "settle" /\ verdicts = V!Empty THEN 1 ELSE 0

\* What was sent is in the log, in the counters of the call at hand or of a call that was killed; a call never
\* asks past what the log leaves of the share.
RequestsBalance ==
  /\ run \in Counters /\ logged \in [requests : Nat, tokens : Nat] /\ {sent, lost} \subseteq Nat
  /\ sent = logged.requests + run.requests + lost
  /\ logged.requests + run.requests <= Share
  /\ at = "idle" => run = V!NoRun

\* A batch is failed, replied to or still left, and one of the three; a failed one brought no verdict.
BatchesBalance ==
  /\ replied \in Nat /\ blank \in Nat /\ collected \in V!Replies /\ verdicts \in V!Replies \cup {V!Nobody}
  /\ at # "settle" => verdicts = V!Nobody
  /\ run.failed + replied + run.left = run.total + Pending
  /\ run.failed <= blank + Unseen
  /\ at = "idle" => replied = 0 /\ blank = 0
  /\ at = "return" => run.left = 0

BooksBalance == RequestsBalance /\ BatchesBalance

LEMMA Mappings ==
  V!Nobody \notin V!Replies /\ V!Empty \in V!Replies /\ V!Nobody # "some" /\ V!Empty # "some"
BY DEF V!Nobody, V!Empty, V!Replies

LEMMA BooksOpen == ASSUME V!VerifyAssumption PROVE V!Init => BooksBalance
BY DEF V!VerifyAssumption, V!Init, V!NoRun, V!Replies, BooksBalance, RequestsBalance, BatchesBalance, Counters,
  Pending, Unseen

LEMMA Zero == 0 \in Int /\ 0 \in Nat /\ FALSE \in BOOLEAN
OBVIOUS

\* The fields of a call that count neither requests nor batches.
SameBooks(s, r) ==
  s \in Counters /\ s.requests = r.requests /\ s.failed = r.failed /\ s.left = r.left /\ s.total = r.total

LEMMA OneField ==
  ASSUME NEW r \in Counters
  PROVE  /\ \A i \in Int : /\ SameBooks([r EXCEPT !.attempt = i], r) /\ SameBooks([r EXCEPT !.chunk = i], r)
                          /\ SameBooks([r EXCEPT !.fails = i], r)
         /\ \A n \in Nat : SameBooks([r EXCEPT !.tokens = n], r)
         /\ \A b \in BOOLEAN : SameBooks([r EXCEPT !.router = b], r) /\ SameBooks([r EXCEPT !.groq = b], r)
<1>1. ASSUME NEW i \in Int
      PROVE  SameBooks([r EXCEPT !.attempt = i], r) /\ SameBooks([r EXCEPT !.chunk = i], r)
  BY DEF SameBooks, Counters
<1>2. ASSUME NEW i \in Int PROVE SameBooks([r EXCEPT !.fails = i], r)
  BY DEF SameBooks, Counters
<1>3. ASSUME NEW n \in Nat PROVE SameBooks([r EXCEPT !.tokens = n], r)
  BY DEF SameBooks, Counters
<1>4. ASSUME NEW b \in BOOLEAN PROVE SameBooks([r EXCEPT !.router = b], r) /\ SameBooks([r EXCEPT !.groq = b], r)
  BY DEF SameBooks, Counters
<1> QED
  BY <1>1, <1>2, <1>3, <1>4

LEMMA SomeFields ==
  ASSUME NEW r \in Counters
  PROVE  /\ SameBooks([r EXCEPT !.fails = 0, !.attempt = 0], r)
         /\ SameBooks([r EXCEPT !.router = FALSE, !.attempt = 0], r)
         /\ \A i \in Int, b \in BOOLEAN : SameBooks([r EXCEPT !.attempt = 0, !.fails = i, !.router = b], r)
         /\ \A i \in Int : SameBooks([r EXCEPT !.chunk = i, !.attempt = 0], r)
<1>1. SameBooks([r EXCEPT !.fails = 0, !.attempt = 0], r)
  <2>1. SameBooks([r EXCEPT !.fails = 0], r)
    BY OneField, Zero
  <2>2. SameBooks([[r EXCEPT !.fails = 0] EXCEPT !.attempt = 0], [r EXCEPT !.fails = 0])
    BY <2>1, OneField, Zero DEF SameBooks
  <2> QED
    BY <2>1, <2>2 DEF SameBooks
<1>2. SameBooks([r EXCEPT !.router = FALSE, !.attempt = 0], r)
  <2>1. SameBooks([r EXCEPT !.router = FALSE], r)
    BY OneField, Zero
  <2>2. SameBooks([[r EXCEPT !.router = FALSE] EXCEPT !.attempt = 0], [r EXCEPT !.router = FALSE])
    BY <2>1, OneField, Zero DEF SameBooks
  <2> QED
    BY <2>1, <2>2 DEF SameBooks
<1>3. ASSUME NEW i \in Int, NEW b \in BOOLEAN
      PROVE  SameBooks([r EXCEPT !.attempt = 0, !.fails = i, !.router = b], r)
  <2> DEFINE first == [r EXCEPT !.attempt = 0]
             second == [first EXCEPT !.fails = i]
  <2>1. SameBooks(first, r)
    BY OneField, Zero
  <2>2. SameBooks(second, first)
    BY <2>1, OneField, Zero DEF SameBooks
  <2>3. SameBooks([second EXCEPT !.router = b], second)
    BY <2>2, OneField, Zero DEF SameBooks
  <2>4. [r EXCEPT !.attempt = 0, !.fails = i, !.router = b] = [second EXCEPT !.router = b]
    OBVIOUS
  <2> HIDE DEF first, second
  <2> QED
    BY <2>1, <2>2, <2>3, <2>4 DEF SameBooks
<1>4. ASSUME NEW i \in Int PROVE SameBooks([r EXCEPT !.chunk = i, !.attempt = 0], r)
  <2>1. SameBooks([r EXCEPT !.chunk = i], r)
    BY OneField, Zero
  <2>2. SameBooks([[r EXCEPT !.chunk = i] EXCEPT !.attempt = 0], [r EXCEPT !.chunk = i])
    BY <2>1, OneField, Zero DEF SameBooks
  <2> QED
    BY <2>1, <2>2 DEF SameBooks
<1> QED
  BY <1>1, <1>2, <1>3, <1>4

\* The end of a batch.
LEMMA SettledRun ==
  ASSUME NEW r \in Counters, NEW f \in Nat
  PROVE  LET s == [r EXCEPT !.left = r.left - 1, !.attempt = 0, !.chunk = 0, !.failed = f]
         IN  /\ s \in Counters /\ s.left = r.left - 1 /\ s.total = r.total /\ s.requests = r.requests
             /\ s.failed = f /\ s.attempt = 0 /\ s.chunk = 0 /\ s.fails = r.fails /\ s.router = r.router
<1> DEFINE s == [r EXCEPT !.left = r.left - 1, !.attempt = 0, !.chunk = 0, !.failed = f]
           first == [r EXCEPT !.left = r.left - 1]
           second == [first EXCEPT !.attempt = 0]
           third == [second EXCEPT !.chunk = 0]
<1>1. /\ s.left = r.left - 1 /\ s.total = r.total /\ s.requests = r.requests /\ s.failed = f
      /\ s.attempt = 0 /\ s.chunk = 0 /\ s.fails = r.fails /\ s.router = r.router
  BY DEF Counters
<1>2. s = [third EXCEPT !.failed = f]
  OBVIOUS
<1>3. first \in Counters
  BY DEF Counters
<1> HIDE DEF first
<1>4. second \in Counters
  BY <1>3 DEF Counters
<1> HIDE DEF second
<1>5. third \in Counters
  BY <1>4 DEF Counters
<1> HIDE DEF third
<1>6. [third EXCEPT !.failed = f] \in Counters
  BY <1>5 DEF Counters
<1> QED
  BY <1>1, <1>2, <1>6

\* An attempt at OpenRouter is counted whatever comes of it.
LEMMA RouterKeeps ==
  ASSUME V!VerifyAssumption, BooksBalance,
         NEW result \in {"answer", "quota", "retry", "error"}, NEW reply \in V!Replies,
         V!RouterAttempt(result, reply)
  PROVE  BooksBalance'
<1>1. /\ at = "openrouter" /\ run.requests < Share - logged.requests /\ sent' = sent + 1
      /\ UNCHANGED <<logged, lost, blank, collected>>
  BY DEF V!RouterAttempt, V!Allowed
<1>2. \/ at' = "settle" /\ verdicts' = reply /\ replied' = replied + 1
      \/ at' \in {"openrouter", "groq"} /\ UNCHANGED <<verdicts, replied>>
  BY DEF V!RouterAttempt
<1>3. /\ run' \in Counters /\ run'.requests = run.requests + 1
      /\ run'.failed = run.failed /\ run'.left = run.left /\ run'.total = run.total
  <2> DEFINE r == [run EXCEPT !.requests = V!Counted(run)]
  <2>1. /\ r \in Counters /\ r.requests = run.requests + 1
        /\ r.failed = run.failed /\ r.left = run.left /\ r.total = run.total
    BY DEF BooksBalance, RequestsBalance, Counters, V!Counted
  <2>2. \/ run' = [r EXCEPT !.fails = 0, !.attempt = 0]
        \/ run' = [r EXCEPT !.router = FALSE, !.attempt = 0]
        \/ run' = [r EXCEPT !.attempt = r.attempt + 1]
        \/ run' = [r EXCEPT !.attempt = 0, !.fails = r.fails + 1, !.router = r.fails + 1 < 2]
    BY DEF V!RouterAttempt
  <2> HIDE DEF r
  <2>3. r.attempt + 1 \in Int /\ r.fails + 1 \in Int /\ (r.fails + 1 < 2) \in BOOLEAN
    BY <2>1 DEF Counters
  <2>4. SameBooks(run', r)
    BY <2>1, <2>2, <2>3, OneField, Zero, SomeFields
  <2> QED
    BY <2>1, <2>4 DEF SameBooks
<1>4. RequestsBalance'
  <2>1. run.requests \in Nat /\ run'.requests \in Nat /\ logged.requests \in Nat
    BY <1>3 DEF BooksBalance, RequestsBalance, Counters
  <2> QED
    BY <1>1, <1>2, <1>3, <2>1 DEF BooksBalance, RequestsBalance, V!VerifyAssumption
<1>5. BatchesBalance'
  <2>1. run.failed \in Nat /\ run.left \in Int /\ run.total \in Int
    BY DEF BooksBalance, RequestsBalance, Counters
  <2> QED
    BY <1>1, <1>2, <1>3, <2>1, Mappings DEF BooksBalance, BatchesBalance, Pending, Unseen
<1> QED
  BY <1>4, <1>5 DEF BooksBalance

\* A batch Groq answers is replied to, one whose ladder is over is failed and empty, and a quota leaves it to
\* the end of the batch.
LEMMA GroqKeeps ==
  ASSUME V!VerifyAssumption, BooksBalance,
         NEW result \in {"answer", "quota", "retry", "malformed"}, NEW reply \in V!Replies,
         V!GroqAttempt(result, reply)
  PROVE  BooksBalance'
<1> DEFINE r == [run EXCEPT !.tokens = IF result \in {"answer", "malformed"} THEN run.tokens + 1 ELSE run.tokens]
           last == run.attempt = MaxRetries - 1 \/ (result = "malformed" /\ run.attempt >= 1)
<1>1. run \in Counters /\ at = "groq" /\ UNCHANGED <<logged, sent, lost, blank>>
  BY DEF BooksBalance, RequestsBalance, V!GroqAttempt, V!past
<1>2. SameBooks(r, run)
  BY <1>1 DEF Counters, SameBooks
<1>3. \/ /\ run' = [r EXCEPT !.chunk = r.chunk + 1, !.attempt = 0] /\ collected' = V!Both(collected, reply)
         /\ UNCHANGED <<at, verdicts, replied>>
      \/ /\ run' = r /\ verdicts' = V!Both(collected, reply) /\ replied' = replied + 1 /\ at' = "settle"
         /\ UNCHANGED collected
      \/ run' = [r EXCEPT !.attempt = r.attempt + 1] /\ UNCHANGED <<at, verdicts, collected, replied>>
      \/ /\ run' = [r EXCEPT !.failed = r.failed + 1] /\ verdicts' = V!Empty /\ at' = "settle"
         /\ UNCHANGED <<collected, replied>>
      \/ run' = [r EXCEPT !.groq = FALSE] /\ at' = "settle" /\ UNCHANGED <<verdicts, collected, replied>>
  BY DEF V!GroqAttempt, V!batch, V!HandledAs
<1> HIDE DEF r, last
<1>4. r \in Counters /\ r.chunk + 1 \in Int /\ r.attempt + 1 \in Int
  BY <1>2 DEF Counters, SameBooks
<1>5. V!Both(collected, reply) \in V!Replies
  BY DEF BooksBalance, BatchesBalance, V!Both
<1>6. CASE run' = [r EXCEPT !.failed = r.failed + 1] /\ verdicts' = V!Empty /\ at' = "settle"
           /\ UNCHANGED <<collected, replied>>
  <2>1. /\ run' \in Counters /\ run'.requests = run.requests
        /\ run'.failed = run.failed + 1 /\ run'.left = run.left /\ run'.total = run.total
    BY <1>2, <1>4, <1>6 DEF Counters, SameBooks
  <2>2. RequestsBalance'
    BY <1>1, <1>6, <2>1 DEF BooksBalance, RequestsBalance
  <2>3. BatchesBalance'
    <3>1. run.failed \in Nat /\ run.left \in Int /\ run.total \in Int
      BY <1>1 DEF Counters
    <3> QED
      BY <1>1, <1>6, <2>1, <3>1, Mappings DEF BooksBalance, BatchesBalance, Pending, Unseen
  <2> QED
    BY <2>2, <2>3 DEF BooksBalance
<1>7. CASE ~(run' = [r EXCEPT !.failed = r.failed + 1] /\ verdicts' = V!Empty /\ at' = "settle"
             /\ UNCHANGED <<collected, replied>>)
  <2>1. \/ run' = [r EXCEPT !.chunk = r.chunk + 1, !.attempt = 0]
        \/ run' = r
        \/ run' = [r EXCEPT !.attempt = r.attempt + 1]
        \/ run' = [r EXCEPT !.groq = FALSE]
    BY <1>3, <1>7
  <2>2. SameBooks(run', r)
    <3>1. SameBooks(r, r)
      BY <1>4 DEF SameBooks
    <3>2. SameBooks([r EXCEPT !.chunk = r.chunk + 1, !.attempt = 0], r)
      BY <1>4, SomeFields
    <3>3. SameBooks([r EXCEPT !.attempt = r.attempt + 1], r) /\ SameBooks([r EXCEPT !.groq = FALSE], r)
      BY <1>4, OneField, Zero
    <3> QED
      BY <2>1, <3>1, <3>2, <3>3
  <2>3. /\ run' \in Counters /\ run'.requests = run.requests
        /\ run'.failed = run.failed /\ run'.left = run.left /\ run'.total = run.total
    BY <1>2, <2>2 DEF SameBooks
  <2>4. /\ collected' \in V!Replies
        /\ \/ at' = "groq" /\ UNCHANGED <<verdicts, replied>>
           \/ at' = "settle" /\ verdicts' \in V!Replies /\ replied' = replied + 1
           \/ at' = "settle" /\ UNCHANGED <<verdicts, replied>>
    BY <1>1, <1>3, <1>5, <1>7 DEF BooksBalance, BatchesBalance
  <2>5. RequestsBalance'
    BY <1>1, <2>3, <2>4 DEF BooksBalance, RequestsBalance
  <2>6. BatchesBalance'
    <3>1. run.failed \in Nat /\ run.left \in Int /\ run.total \in Int
      BY <1>1 DEF Counters
    <3> QED
      BY <1>1, <2>3, <2>4, <3>1, Mappings DEF BooksBalance, BatchesBalance, Pending, Unseen
  <2> QED
    BY <2>5, <2>6 DEF BooksBalance
<1> QED
  BY <1>6, <1>7

\* A batch nobody was asked about is counted when it is settled.
LEMMA SettleKeeps ==
  ASSUME BooksBalance, V!Settle
  PROVE  BooksBalance'
<1> DEFINE f == IF verdicts = V!Nobody THEN run.failed + 1 ELSE run.failed
<1>1. /\ run \in Counters /\ run.failed \in Nat /\ run.left \in Int /\ run.total \in Int
      /\ run.requests \in Nat /\ f \in Nat
  BY DEF BooksBalance, RequestsBalance, Counters
<1>2. /\ at = "settle" /\ at' = (IF run.left = 1 THEN "return" ELSE "openrouter")
      /\ run' = [run EXCEPT !.left = run.left - 1, !.attempt = 0, !.chunk = 0, !.failed = f]
      /\ verdicts' = V!Nobody /\ collected' = V!Empty
      /\ blank' = (IF verdicts = "some" THEN blank ELSE blank + 1)
      /\ UNCHANGED <<logged, sent, lost, replied>>
  BY DEF V!Settle, V!past
<1> HIDE DEF f
<1>3. /\ run' \in Counters /\ run'.left = run.left - 1 /\ run'.total = run.total
      /\ run'.requests = run.requests /\ run'.failed = f
  BY <1>1, <1>2, SettledRun
<1>4. RequestsBalance'
  BY <1>2, <1>3 DEF BooksBalance, RequestsBalance
<1>5. BatchesBalance'
  BY <1>1, <1>2, <1>3, Mappings DEF f, BooksBalance, BatchesBalance, Pending, Unseen
<1> QED
  BY <1>4, <1>5 DEF BooksBalance

\* A call begins, goes on to its next provider, returns and is logged, or dies.
LEMMA CallsKeep ==
  ASSUME V!VerifyAssumption, BooksBalance,
         \/ \E n \in 0..Batches, router, groq \in BOOLEAN : V!Call(n, router, groq)
         \/ V!NoRouter \/ V!NoGroq \/ V!Return \/ V!Kill
  PROVE  BooksBalance'
<1> USE DEF V!VerifyAssumption
<1>1. ASSUME NEW n \in 0..Batches, NEW router \in BOOLEAN, NEW groq \in BOOLEAN, V!Call(n, router, groq)
      PROVE  BooksBalance'
  <2>1. /\ at = "idle" /\ at' = (IF n = 0 THEN "return" ELSE "openrouter")
        /\ run' = [V!NoRun EXCEPT !.left = n, !.total = n, !.router = router, !.groq = groq]
        /\ UNCHANGED <<logged, verdicts, collected, sent, lost, replied, blank>>
    BY <1>1 DEF V!Call, V!batch, V!told
  <2>2. run' = [left |-> n, total |-> n, router |-> router, groq |-> groq, fails |-> 0, attempt |-> 0,
                chunk |-> 0, requests |-> 0, tokens |-> 0, failed |-> 0]
    BY <2>1 DEF V!NoRun
  <2>3. run.requests = 0 /\ replied = 0 /\ blank = 0
    BY <2>1 DEF BooksBalance, RequestsBalance, BatchesBalance, V!NoRun
  <2>4. RequestsBalance'
    BY <2>1, <2>2, <2>3 DEF BooksBalance, RequestsBalance, Counters
  <2>5. BatchesBalance'
    <3>1. run'.failed = 0 /\ run'.left = n /\ run'.total = n /\ n \in Int
      BY <2>2
    <3>2. at' \in {"return", "openrouter"} /\ (at' = "return" => n = 0)
      BY <2>1
    <3>3. Pending' = 0 /\ Unseen' = 0
      BY <3>2 DEF Pending, Unseen
    <3>4. verdicts' = V!Nobody /\ collected' \in V!Replies
      BY <2>1 DEF BooksBalance, BatchesBalance
    <3> QED
      BY <2>1, <2>3, <3>1, <3>2, <3>3, <3>4 DEF BatchesBalance
  <2> QED
    BY <2>4, <2>5 DEF BooksBalance
<1>2. CASE V!NoRouter \/ V!NoGroq
  <2>1. /\ \/ run' = [run EXCEPT !.router = FALSE, !.attempt = 0] /\ at' = "groq"
           \/ run' = [run EXCEPT !.groq = FALSE] /\ at' = "settle"
        /\ at \in {"openrouter", "groq"}
        /\ UNCHANGED <<logged, verdicts, collected, sent, lost, replied, blank>>
    BY <1>2 DEF V!NoRouter, V!NoGroq, V!batch, V!told, V!past
  <2>2. run \in Counters
    BY DEF BooksBalance, RequestsBalance
  <2>3. SameBooks(run', run)
    BY <2>1, <2>2, OneField, SomeFields
  <2>4. RequestsBalance'
    BY <2>1, <2>3 DEF BooksBalance, RequestsBalance, SameBooks
  <2>5. BatchesBalance'
    <3>1. run.failed \in Nat /\ run.left \in Int /\ run.total \in Int
      BY <2>2 DEF Counters
    <3>2. /\ at \notin {"settle", "idle", "return"} /\ at' \notin {"idle", "return"} /\ verdicts = V!Nobody
          /\ verdicts' = V!Nobody
      BY <2>1 DEF BooksBalance, BatchesBalance
    <3>3. Pending = 0 /\ Unseen = 0 /\ Pending' = 0 /\ Unseen' = 0
      BY <3>2, Mappings DEF Pending, Unseen
    <3> QED
      BY <2>1, <2>3, <3>1, <3>2, <3>3 DEF BooksBalance, BatchesBalance, SameBooks
  <2> QED
    BY <2>4, <2>5 DEF BooksBalance
<1>3. /\ V!NoRun \in Counters /\ V!NoRun.requests = 0 /\ V!NoRun.failed = 0 /\ V!NoRun.left = 0
      /\ V!NoRun.total = 0
  BY DEF V!NoRun, Counters
<1>4. CASE V!Return
  <2>1. /\ logged' = [requests |-> logged.requests + run.requests, tokens |-> logged.tokens + run.tokens]
        /\ run' = V!NoRun /\ replied' = 0 /\ blank' = 0 /\ at = "return" /\ at' = "idle"
        /\ UNCHANGED <<verdicts, collected, sent, lost>>
    BY <1>4 DEF V!Return, V!Logged, V!batch, V!past
  <2>2. RequestsBalance'
    BY <2>1, <1>3 DEF BooksBalance, RequestsBalance, Counters
  <2>3. BatchesBalance'
    BY <2>1, <1>3 DEF BooksBalance, BatchesBalance, Pending, Unseen
  <2> QED
    BY <2>2, <2>3 DEF BooksBalance
<1>5. CASE V!Kill
  <2>1. /\ lost' = lost + run.requests /\ run' = V!NoRun /\ at' = "idle" /\ UNCHANGED <<logged, sent>>
        /\ verdicts' = V!Nobody /\ collected' = V!Empty /\ replied' = 0 /\ blank' = 0
    BY <1>5 DEF V!Kill
  <2>2. run.requests \in Nat /\ logged.requests \in Nat
    BY DEF BooksBalance, RequestsBalance, Counters
  <2>3. lost' \in Nat /\ sent' = logged'.requests + run'.requests + lost'
    BY <2>1, <2>2, <1>3 DEF BooksBalance, RequestsBalance
  <2>4. RequestsBalance'
    BY <2>1, <2>2, <2>3, <1>3 DEF BooksBalance, RequestsBalance
  <2>5. BatchesBalance'
    BY <2>1, <1>3 DEF BatchesBalance, Pending, Unseen, V!Replies
  <2> QED
    BY <2>4, <2>5 DEF BooksBalance
<1> QED
  BY <1>1, <1>2, <1>4, <1>5

LEMMA BooksStayBalanced == ASSUME V!VerifyAssumption PROVE V!Spec => []BooksBalance
<1>1. V!Init => BooksBalance
  BY BooksOpen
<1>2. BooksBalance /\ [V!Next]_(V!vars) => BooksBalance'
  <2>1. CASE UNCHANGED V!vars
    BY <2>1 DEF V!vars, V!batch, V!past, V!told, BooksBalance, RequestsBalance, BatchesBalance, Pending, Unseen
  <2>2. CASE V!Next
    BY <2>2, RouterKeeps, GroqKeeps, SettleKeeps, CallsKeep DEF V!Next
  <2> QED
    BY <2>1, <2>2
<1> QED
  BY <1>1, <1>2, PTL DEF V!Spec

\* Verification stays within its share of the day's OpenRouter requests, retries and earlier calls included, but for
\* what killed processes sent (remote_verifier.py, main.py:403-428).
THEOREM TheShareIsKept == ASSUME V!VerifyAssumption PROVE V!Spec => []V!ShareIsKept
<1>1. BooksBalance => V!ShareIsKept
  BY DEF BooksBalance, RequestsBalance, Counters, V!ShareIsKept, V!VerifyAssumption
<1> QED
  BY <1>1, BooksStayBalanced, PTL

\* When a call returns, its failed batches are those no provider replied to, each counted once although a ladder
\* that is over is counted where it ends and a missing key, a spent quota or share at the end of the
\* batch; none of them gave an offer a verdict (remote_verifier.py:820-920).
THEOREM FailuresAreTold == ASSUME V!VerifyAssumption PROVE V!Spec => []V!FailuresAreCounted
<1>1. BooksBalance => V!FailuresAreCounted
  <2> SUFFICES ASSUME BooksBalance PROVE V!FailuresAreCounted
    OBVIOUS
  <2>1. /\ run.failed \in Nat /\ run.left \in Int /\ run.total \in Int /\ replied \in Nat /\ blank \in Nat
    BY DEF BooksBalance, RequestsBalance, BatchesBalance, Counters
  <2> QED
    BY <2>1 DEF BooksBalance, BatchesBalance, Pending, Unseen, V!FailuresAreCounted
<1> QED
  BY <1>1, BooksStayBalanced, PTL

\* The counters of a call stay in their bounds.
Within(r) ==
  /\ r.left \in 0..Batches /\ r.total \in 0..Batches
  /\ r.fails \in 0..2 /\ (r.router => r.fails < 2)
  /\ r.attempt \in 0..(MaxRetries - 1) /\ r.chunk \in 0..(BatchChunks - 1)

CallFits ==
  /\ Within(run) /\ calls \in 0..MaxCalls
  /\ at \in {"idle", "openrouter", "groq", "settle", "return"}
  /\ at \in {"openrouter", "groq", "settle"} => run.left > 0

LEMMA CallsBegin == ASSUME V!VerifyAssumption PROVE V!Init => CallFits
BY DEF V!VerifyAssumption, V!Init, V!NoRun, CallFits, Within

LEMMA WithinBounds ==
  ASSUME V!VerifyAssumption, NEW r \in Counters, Within(r)
  PROVE  /\ \A i \in 0..(MaxRetries - 1) : Within([r EXCEPT !.attempt = i]) /\ [r EXCEPT !.attempt = i].left = r.left
         /\ \A i \in 0..(BatchChunks - 1) : Within([r EXCEPT !.chunk = i]) /\ [r EXCEPT !.chunk = i].left = r.left
         /\ \A i \in 0..2 : i < 2 => Within([r EXCEPT !.fails = i]) /\ [r EXCEPT !.fails = i].left = r.left
         /\ \A i \in 0..Batches : Within([r EXCEPT !.left = i]) /\ [r EXCEPT !.left = i].left = i
         /\ \A n : /\ Within([r EXCEPT !.requests = n]) /\ [r EXCEPT !.requests = n].left = r.left
                   /\ Within([r EXCEPT !.tokens = n]) /\ [r EXCEPT !.tokens = n].left = r.left
                   /\ Within([r EXCEPT !.failed = n]) /\ [r EXCEPT !.failed = n].left = r.left
         /\ \A b \in BOOLEAN : Within([r EXCEPT !.groq = b]) /\ [r EXCEPT !.groq = b].left = r.left
         /\ Within([r EXCEPT !.router = FALSE]) /\ [r EXCEPT !.router = FALSE].left = r.left
<1>1. ASSUME NEW i \in 0..(MaxRetries - 1)
      PROVE  Within([r EXCEPT !.attempt = i]) /\ [r EXCEPT !.attempt = i].left = r.left
  BY <1>1 DEF Counters, Within
<1>2. ASSUME NEW i \in 0..(BatchChunks - 1)
      PROVE  Within([r EXCEPT !.chunk = i]) /\ [r EXCEPT !.chunk = i].left = r.left
  BY <1>2 DEF Counters, Within
<1>3. ASSUME NEW i \in 0..2, i < 2 PROVE Within([r EXCEPT !.fails = i]) /\ [r EXCEPT !.fails = i].left = r.left
  BY <1>3 DEF Counters, Within
<1>4. ASSUME NEW i \in 0..Batches PROVE Within([r EXCEPT !.left = i]) /\ [r EXCEPT !.left = i].left = i
  BY <1>4 DEF Counters, Within
<1>5. ASSUME NEW n
      PROVE  /\ Within([r EXCEPT !.requests = n]) /\ [r EXCEPT !.requests = n].left = r.left
             /\ Within([r EXCEPT !.tokens = n]) /\ [r EXCEPT !.tokens = n].left = r.left
             /\ Within([r EXCEPT !.failed = n]) /\ [r EXCEPT !.failed = n].left = r.left
  BY <1>5 DEF Counters, Within
<1>6. ASSUME NEW b \in BOOLEAN PROVE Within([r EXCEPT !.groq = b]) /\ [r EXCEPT !.groq = b].left = r.left
  BY <1>6 DEF Counters, Within
<1>7. Within([r EXCEPT !.router = FALSE]) /\ [r EXCEPT !.router = FALSE].left = r.left
  BY DEF Counters, Within
<1> QED
  BY <1>1, <1>2, <1>3, <1>4, <1>5, <1>6, <1>7

\* A fresh ladder, at its first attempt, and the reset that precedes it.
LEMMA FreshLadder ==
  ASSUME V!VerifyAssumption, NEW r \in Counters, Within(r)
  PROVE  Within([r EXCEPT !.attempt = 0]) /\ [r EXCEPT !.attempt = 0].left = r.left
BY DEF Counters, Within, V!VerifyAssumption

LEMMA FreshFails ==
  ASSUME NEW r \in Counters, Within(r)
  PROVE  LET s == [r EXCEPT !.fails = 0] IN s \in Counters /\ Within(s) /\ s.left = r.left
BY DEF Counters, Within

LEMMA NoLongerRouter ==
  ASSUME NEW r \in Counters, Within(r)
  PROVE  LET s == [r EXCEPT !.router = FALSE] IN s \in Counters /\ Within(s) /\ s.left = r.left
BY DEF Counters, Within

LEMMA NextChunk ==
  ASSUME V!VerifyAssumption, NEW r \in Counters, Within(r), NEW i \in 0..(BatchChunks - 1)
  PROVE  LET s == [r EXCEPT !.chunk = i] IN s \in Counters /\ Within(s) /\ s.left = r.left
BY DEF Counters, Within, V!VerifyAssumption

LEMMA TokensFit ==
  ASSUME NEW r \in Counters, Within(r), NEW t \in Nat
  PROVE  LET s == [r EXCEPT !.tokens = t]
         IN  s \in Counters /\ Within(s) /\ s.left = r.left /\ s.attempt = r.attempt /\ s.chunk = r.chunk
BY DEF Counters, Within

LEMMA NoLongerGroq ==
  ASSUME NEW r \in Counters, Within(r)
  PROVE  LET s == [r EXCEPT !.groq = FALSE] IN s \in Counters /\ Within(s) /\ s.left = r.left
BY DEF Counters, Within

\* Two of them at once.
LEMMA WithinTwo ==
  ASSUME V!VerifyAssumption, NEW r \in Counters, Within(r)
  PROVE  /\ Within([r EXCEPT !.fails = 0, !.attempt = 0]) /\ [r EXCEPT !.fails = 0, !.attempt = 0].left = r.left
         /\ Within([r EXCEPT !.router = FALSE, !.attempt = 0])
         /\ [r EXCEPT !.router = FALSE, !.attempt = 0].left = r.left
         /\ \A i \in 0..(BatchChunks - 1) :
              Within([r EXCEPT !.chunk = i, !.attempt = 0]) /\ [r EXCEPT !.chunk = i, !.attempt = 0].left = r.left
<1>1. Within([r EXCEPT !.fails = 0, !.attempt = 0]) /\ [r EXCEPT !.fails = 0, !.attempt = 0].left = r.left
  <2> DEFINE first == [r EXCEPT !.fails = 0]
  <2>1. first \in Counters /\ Within(first) /\ first.left = r.left
    BY FreshFails
  <2>2. [r EXCEPT !.fails = 0, !.attempt = 0] = [first EXCEPT !.attempt = 0]
    OBVIOUS
  <2> HIDE DEF first
  <2>3. Within([first EXCEPT !.attempt = 0]) /\ [first EXCEPT !.attempt = 0].left = first.left
    BY <2>1, FreshLadder
  <2> QED
    BY <2>1, <2>2, <2>3
<1>2. /\ Within([r EXCEPT !.router = FALSE, !.attempt = 0])
      /\ [r EXCEPT !.router = FALSE, !.attempt = 0].left = r.left
  <2> DEFINE first == [r EXCEPT !.router = FALSE]
  <2>1. first \in Counters /\ Within(first) /\ first.left = r.left
    BY NoLongerRouter
  <2>2. [r EXCEPT !.router = FALSE, !.attempt = 0] = [first EXCEPT !.attempt = 0]
    OBVIOUS
  <2> HIDE DEF first
  <2>3. Within([first EXCEPT !.attempt = 0]) /\ [first EXCEPT !.attempt = 0].left = first.left
    BY <2>1, FreshLadder
  <2> QED
    BY <2>1, <2>2, <2>3
<1>3. ASSUME NEW i \in 0..(BatchChunks - 1)
      PROVE  Within([r EXCEPT !.chunk = i, !.attempt = 0]) /\ [r EXCEPT !.chunk = i, !.attempt = 0].left = r.left
  <2> DEFINE first == [r EXCEPT !.chunk = i]
  <2>1. first \in Counters /\ Within(first) /\ first.left = r.left
    BY <1>3, NextChunk
  <2>2. [r EXCEPT !.chunk = i, !.attempt = 0] = [first EXCEPT !.attempt = 0]
    OBVIOUS
  <2> HIDE DEF first
  <2>3. Within([first EXCEPT !.attempt = 0]) /\ [first EXCEPT !.attempt = 0].left = first.left
    BY <2>1, FreshLadder
  <2> QED
    BY <2>1, <2>2, <2>3
<1> QED
  BY <1>1, <1>2, <1>3

LEMMA RouterFits ==
  ASSUME V!VerifyAssumption, BooksBalance, CallFits,
         NEW result \in {"answer", "quota", "retry", "error"}, NEW reply \in V!Replies,
         V!RouterAttempt(result, reply)
  PROVE  CallFits'
<1> DEFINE r == [run EXCEPT !.requests = V!Counted(run)]
           last == run.attempt = MaxRetries - 1
           failed == [r EXCEPT !.attempt = 0, !.fails = r.fails + 1, !.router = r.fails + 1 < 2]
<1>1. run \in Counters /\ Within(run) /\ run.left > 0 /\ run.router
  BY DEF BooksBalance, RequestsBalance, CallFits, V!RouterAttempt
<1>2. r \in Counters /\ Within(r) /\ r.left = run.left /\ r.attempt = run.attempt /\ r.fails = run.fails
  <2>1. Within(r) /\ r.left = run.left
    BY <1>1, WithinBounds
  <2>2. r \in Counters /\ r.attempt = run.attempt /\ r.fails = run.fails
    BY <1>1 DEF Counters, V!Counted
  <2> QED
    BY <2>1, <2>2
<1>3. UNCHANGED calls /\ at' \in {"openrouter", "groq", "settle"}
  BY DEF V!RouterAttempt
<1>4. \/ run' = [r EXCEPT !.fails = 0, !.attempt = 0]
      \/ run' = [r EXCEPT !.router = FALSE, !.attempt = 0]
      \/ ~last /\ run' = [r EXCEPT !.attempt = r.attempt + 1]
      \/ run' = failed
  BY DEF V!RouterAttempt
<1>5. Within(failed) /\ failed.left = r.left
  <2>1. r.fails \in 0..1
    BY <1>1, <1>2 DEF Within
  <2>2. /\ failed.left = r.left /\ failed.total = r.total /\ failed.fails = r.fails + 1 /\ failed.attempt = 0
        /\ failed.chunk = r.chunk /\ (failed.router <=> r.fails + 1 < 2)
    BY <1>2 DEF Counters
  <2> QED
    BY <1>2, <2>1, <2>2 DEF Within, V!VerifyAssumption
<1>6. ~last => Within([r EXCEPT !.attempt = r.attempt + 1]) /\ [r EXCEPT !.attempt = r.attempt + 1].left = r.left
  <2>1. ~last => r.attempt + 1 \in 0..(MaxRetries - 1)
    BY <1>2 DEF Within, V!VerifyAssumption
  <2> HIDE DEF r, last
  <2> QED
    BY <1>2, <2>1, WithinBounds
<1> HIDE DEF r, last, failed
<1>7. Within(run') /\ run'.left = r.left
  BY <1>2, <1>4, <1>5, <1>6, WithinTwo
<1> QED
  BY <1>1, <1>2, <1>3, <1>7 DEF CallFits

LEMMA GroqFits ==
  ASSUME V!VerifyAssumption, BooksBalance, CallFits,
         NEW result \in {"answer", "quota", "retry", "malformed"}, NEW reply \in V!Replies,
         V!GroqAttempt(result, reply)
  PROVE  CallFits'
<1> DEFINE r == [run EXCEPT !.tokens = IF result \in {"answer", "malformed"} THEN run.tokens + 1 ELSE run.tokens]
           last == run.attempt = MaxRetries - 1 \/ (result = "malformed" /\ run.attempt >= 1)
<1>1. run \in Counters /\ Within(run) /\ at = "groq" /\ run.left > 0
  BY DEF BooksBalance, RequestsBalance, CallFits, V!GroqAttempt
<1>2. r \in Counters /\ Within(r) /\ r.left = run.left /\ r.attempt = run.attempt /\ r.chunk = run.chunk
  <2> DEFINE t == IF result \in {"answer", "malformed"} THEN run.tokens + 1 ELSE run.tokens
  <2>1. t \in Nat
    BY <1>1 DEF Counters
  <2>2. r = [run EXCEPT !.tokens = t]
    OBVIOUS
  <2> HIDE DEF t, r
  <2> QED
    BY <1>1, <2>1, <2>2, TokensFit
<1>3. UNCHANGED calls /\ at' \in {"groq", "settle"}
  BY DEF V!GroqAttempt, V!past
<1>4. \/ run.chunk < BatchChunks - 1 /\ run' = [r EXCEPT !.chunk = r.chunk + 1, !.attempt = 0]
      \/ run' = r
      \/ ~last /\ run' = [r EXCEPT !.attempt = r.attempt + 1]
      \/ run' = [r EXCEPT !.failed = r.failed + 1]
      \/ run' = [r EXCEPT !.groq = FALSE]
  BY DEF V!GroqAttempt
<1>5. run.chunk < BatchChunks - 1 => r.chunk + 1 \in 0..(BatchChunks - 1)
  BY <1>2 DEF Within, V!VerifyAssumption
<1>6. ~last => r.attempt + 1 \in 0..(MaxRetries - 1)
  BY <1>2 DEF Within, V!VerifyAssumption
<1> HIDE DEF r, last
<1>7. Within(run') /\ run'.left = r.left
  <2>1. CASE run.chunk < BatchChunks - 1 /\ run' = [r EXCEPT !.chunk = r.chunk + 1, !.attempt = 0]
    BY <1>2, <1>5, <2>1, WithinTwo
  <2>2. CASE run' = r
    BY <1>2, <2>2
  <2>3. CASE ~last /\ run' = [r EXCEPT !.attempt = r.attempt + 1]
    BY <1>2, <1>6, <2>3, WithinBounds
  <2>4. CASE run' = [r EXCEPT !.failed = r.failed + 1]
    BY <1>2, <2>4, WithinBounds
  <2>5. CASE run' = [r EXCEPT !.groq = FALSE]
    BY <1>2, <2>5, NoLongerGroq
  <2> QED
    BY <1>4, <2>1, <2>2, <2>3, <2>4, <2>5
<1> QED
  BY <1>1, <1>2, <1>3, <1>7 DEF CallFits

LEMMA OtherCallsFit ==
  ASSUME V!VerifyAssumption, BooksBalance, CallFits,
         \/ \E n \in 0..Batches, router, groq \in BOOLEAN : V!Call(n, router, groq)
         \/ V!NoRouter \/ V!NoGroq \/ V!Settle \/ V!Return \/ V!Kill
  PROVE  CallFits'
<1>1. ASSUME NEW n \in 0..Batches, NEW router \in BOOLEAN, NEW groq \in BOOLEAN, V!Call(n, router, groq)
      PROVE  CallFits'
  <2>1. run' = [V!NoRun EXCEPT !.left = n, !.total = n, !.router = router, !.groq = groq]
    BY <1>1 DEF V!Call
  <2>2. /\ run'.left = n /\ run'.total = n /\ run'.fails = 0 /\ run'.attempt = 0 /\ run'.chunk = 0
    BY <2>1 DEF V!NoRun
  <2>3. Within(run')
    BY <2>2 DEF Within, V!VerifyAssumption
  <2>4. calls' \in 0..MaxCalls
    <3>1. calls \in 0..MaxCalls /\ calls < MaxCalls /\ calls' = calls + 1
      BY <1>1 DEF V!Call, CallFits
    <3> QED
      BY <3>1 DEF V!VerifyAssumption
  <2>5. at' \in {"return", "openrouter"} /\ (at' = "openrouter" => n > 0)
    <3>1. at' = (IF n = 0 THEN "return" ELSE "openrouter")
      BY <1>1, ZenonT(30) DEF V!Call
    <3> QED
      BY <3>1
  <2> QED
    BY <2>2, <2>3, <2>4, <2>5 DEF CallFits
<1>2. run \in Counters /\ Within(run)
  BY DEF BooksBalance, RequestsBalance, CallFits
<1>3. CASE V!NoRouter
  <2>1. run' = [run EXCEPT !.router = FALSE, !.attempt = 0] /\ at = "openrouter" /\ at' = "groq"
        /\ UNCHANGED calls
    BY <1>3 DEF V!NoRouter, V!past
  <2>2. Within(run') /\ run'.left = run.left
    BY <1>2, <2>1, WithinTwo
  <2> QED
    BY <2>1, <2>2 DEF CallFits
<1>4. CASE V!NoGroq
  <2>1. run' = [run EXCEPT !.groq = FALSE] /\ at = "groq" /\ at' = "settle" /\ UNCHANGED calls
    BY <1>4 DEF V!NoGroq, V!past
  <2>2. Within(run') /\ run'.left = run.left
    BY <1>2, <2>1, NoLongerGroq
  <2> QED
    BY <2>1, <2>2 DEF CallFits
<1>5. CASE V!Settle
  <2> DEFINE f == IF verdicts = V!Nobody THEN run.failed + 1 ELSE run.failed
  <2>1. /\ run' = [run EXCEPT !.left = run.left - 1, !.attempt = 0, !.chunk = 0, !.failed = f]
        /\ at = "settle" /\ UNCHANGED calls /\ at' = (IF run.left = 1 THEN "return" ELSE "openrouter")
    BY <1>5 DEF V!Settle, V!past
  <2>2. f \in Nat
    BY <1>2 DEF Counters
  <2> HIDE DEF f
  <2>3. /\ run'.left = run.left - 1 /\ run'.total = run.total /\ run'.attempt = 0 /\ run'.chunk = 0
        /\ run'.fails = run.fails /\ run'.router = run.router
    BY <1>2, <2>1, <2>2, SettledRun
  <2>4. run.left > 0 /\ run.left \in 0..Batches /\ run.left - 1 \in 0..Batches
    BY <1>2, <2>1 DEF CallFits, Within, V!VerifyAssumption
  <2>5. Within(run')
    BY <1>2, <2>3, <2>4 DEF Within, V!VerifyAssumption
  <2> QED
    BY <2>1, <2>3, <2>4, <2>5 DEF CallFits
<1>6. CASE V!Return \/ V!Kill
  <2>1. run' = V!NoRun /\ at' = "idle" /\ UNCHANGED calls
    BY <1>6 DEF V!Return, V!Kill, V!past
  <2>2. Within(run')
    BY <2>1 DEF V!NoRun, Within, V!VerifyAssumption
  <2> QED
    BY <2>1, <2>2 DEF CallFits
<1> QED
  BY <1>1, <1>3, <1>4, <1>5, <1>6

\* No ladder, run of failures or batch passes its bound, and every verdict is one there is
\* (remote_verifier.py: _MAX_RETRIES, the two failures in a row, the chunks of a batch).
THEOREM VerifyTypes == ASSUME V!VerifyAssumption PROVE V!Spec => []V!TypeOK
<1>1. V!Init => BooksBalance /\ CallFits
  BY BooksOpen, CallsBegin
<1>2. (BooksBalance /\ CallFits) /\ [V!Next]_(V!vars) => (BooksBalance /\ CallFits)'
  <2> SUFFICES ASSUME BooksBalance, CallFits, [V!Next]_(V!vars) PROVE BooksBalance' /\ CallFits'
    OBVIOUS
  <2>1. CASE UNCHANGED V!vars
    BY <2>1 DEF V!vars, V!batch, V!past, V!told, BooksBalance, RequestsBalance, BatchesBalance, Pending, Unseen,
      CallFits
  <2>2. CASE V!Next
    <3>1. BooksBalance'
      BY <2>2, RouterKeeps, GroqKeeps, SettleKeeps, CallsKeep DEF V!Next
    <3>2. CallFits'
      BY <2>2, RouterFits, GroqFits, OtherCallsFit DEF V!Next
    <3> QED
      BY <3>1, <3>2
  <2> QED
    BY <2>1, <2>2
<1>3. BooksBalance /\ CallFits => V!TypeOK
  <2> SUFFICES ASSUME BooksBalance, CallFits PROVE V!TypeOK
    OBVIOUS
  <2>1. run \in [left : 0..Batches, total : 0..Batches, router : BOOLEAN, groq : BOOLEAN, fails : 0..2,
                 attempt : 0..(MaxRetries - 1), chunk : 0..(BatchChunks - 1), requests : Nat, tokens : Nat,
                 failed : Nat]
    BY DEF BooksBalance, RequestsBalance, CallFits, Counters, Within
  <2> QED
    BY <2>1 DEF BooksBalance, RequestsBalance, BatchesBalance, CallFits, V!TypeOK
<1> QED
  BY <1>1, <1>2, <1>3, PTL DEF V!Spec

-----------------------------------------------------------------------------
(* The scraper: no card is skipped, no text costs two ladders.              *)

CONSTANTS Searches, Hidden, PageSize, MaxPages, SearchRetries, PageRetries, TextRetries, BreakAt, MaxFactor
VARIABLES walk, try, texts, breaker, factor, offers, asked, why

S == INSTANCE Scrape

\* The shapes the proof needs.
Cursors == [q : Nat, page : Int, start : Nat, links : SUBSET S!Links, todo : Seq(S!Links)]
ScrapeTypes ==
  /\ at \in {"search", "cards", "text", "done", "raised"}
  /\ walk \in Cursors /\ walk.q \in 1..Len(Searches) /\ walk.start <= Len(S!List)
  /\ texts \in [S!Links -> {"none", "ok", "partial", "failed", "rate_limited"}]
  /\ breaker \in [row : Nat, tripped : BOOLEAN] /\ asked \in [S!Links -> Nat]
  /\ at = "text" => walk.todo # <<>>

\* Every card before the offset was handled by this search or is on the page at hand.
InPlace ==
  at \in {"search", "cards", "text"} => \A i \in 1..Len(S!List) : i <= walk.start =>
    \/ S!List[i] \in walk.links
    \/ at # "search" /\ \E j \in 1..Len(walk.todo) : walk.todo[j] = S!List[i]

\* The ladder of a text is spent while the run has no text for it, and makes an offer.
LaddersMatch == \A l \in S!Links :
  /\ texts[l] = "none" => asked[l] = 0 \/ (at = "text" /\ l = S!Card /\ asked[l] = 1)
  /\ asked[l] <= 1
  /\ asked[l] = 1 => l \in offers \/ (at = "text" /\ l = S!Card)

\* A run that asks has not met the bound of refusals.
BreakerHolds ==
  /\ breaker.row <= BreakAt
  /\ breaker.row < BreakAt \/ breaker.tripped
  /\ at = "text" => ~breaker.tripped

ScrapeInv == ScrapeTypes /\ InPlace /\ LaddersMatch /\ BreakerHolds

\* What a slice of a sequence has.
LEMMA Slice ==
  ASSUME NEW T, NEW s \in Seq(T), NEW m \in Nat, NEW n \in Nat, m + n <= Len(s)
  PROVE  /\ SubSeq(s, m + 1, m + n) \in Seq(T) /\ Len(SubSeq(s, m + 1, m + n)) = n
         /\ \A j \in 1..n : SubSeq(s, m + 1, m + n)[j] = s[m + j]
<1>1. \A i \in m + 1..m + n : s[i] \in T
  BY ElementOfSeq, LenProperties
<1> DEFINE a == m + 1
           b == m + n
<1>2. a \in Int /\ b \in Int
  OBVIOUS
<1>3. \A i \in a..b : s[i] \in T
  BY <1>1
<1> HIDE DEF a, b
<1>4. /\ SubSeq(s, a, b) \in Seq(T)
      /\ Len(SubSeq(s, a, b)) = IF a <= b THEN b - a + 1 ELSE 0
      /\ \A j \in 1..b - a + 1 : SubSeq(s, a, b)[j] = s[a + j - 1]
  BY <1>2, <1>3, SubSeqProperties
<1>5. b - a + 1 = n /\ \A j \in 1..n : a + j - 1 = m + j
  BY DEF a, b
<1>6. (IF a <= b THEN b - a + 1 ELSE 0) = n
  BY DEF a, b
<1>7. \A j \in 1..n : SubSeq(s, a, b)[j] = s[m + j]
  BY <1>4, <1>5
<1> QED
  BY <1>4, <1>6, <1>7 DEF a, b

LEMMA Single ==
  ASSUME NEW T, NEW s \in Seq(T), NEW m \in 1..Len(s)
  PROVE  Len(SubSeq(s, m, m)) = 1 /\ SubSeq(s, m, m)[1] = s[m]
<1>1. m \in Int /\ \A i \in m..m : s[i] \in T
  BY ElementOfSeq, LenProperties
<1>2. /\ Len(SubSeq(s, m, m)) = IF m <= m THEN m - m + 1 ELSE 0
      /\ \A j \in 1..m - m + 1 : SubSeq(s, m, m)[j] = s[m + j - 1]
  BY <1>1, SubSeqProperties
<1>3. m <= m /\ m - m + 1 = 1 /\ 1 \in 1..m - m + 1 /\ m + 1 - 1 = m
  OBVIOUS
<1> QED
  BY <1>2, <1>3

LEMMA ListsAre ==
  ASSUME S!ScrapeAssumption, NEW q \in 1..Len(Searches)
  PROVE  Searches[q] \in Seq(S!Links) /\ Len(Searches[q]) \in Nat /\ \A i \in 1..Len(Searches[q]) : Searches[q][i] \in S!Links
<1>1. Searches[q] \in Seq(S!Links)
  BY ElementOfSeq DEF S!ScrapeAssumption
<1> QED
  BY <1>1, ElementOfSeq, LenProperties

\* A search that begins has nothing behind it.
LEMMA Beginnings ==
  ASSUME NEW q \in Nat
  PROVE  S!Begin(q) \in Cursors /\ S!Begin(q).q = q /\ S!Begin(q).start = 0
BY DEF S!Begin, Cursors

LEMMA ScrapeInit == ASSUME S!ScrapeAssumption PROVE S!Init => ScrapeInv
<1> SUFFICES ASSUME S!Init PROVE ScrapeInv
  OBVIOUS
<1>1. /\ at = "search" /\ walk = S!Begin(1) /\ texts = [l \in S!Links |-> "none"]
      /\ breaker = [row |-> 0, tripped |-> FALSE] /\ asked = [l \in S!Links |-> 0]
  BY DEF S!Init
<1>2. 1 \in 1..Len(Searches)
  BY LenProperties, EmptySeq DEF S!ScrapeAssumption
<1>3. ScrapeTypes
  BY <1>1, <1>2, Beginnings, ListsAre DEF ScrapeTypes, S!List
<1>4. InPlace /\ LaddersMatch /\ BreakerHolds
  BY <1>1, <1>2, Beginnings, ListsAre DEF InPlace, LaddersMatch, BreakerHolds, S!List, S!ScrapeAssumption
<1> QED
  BY <1>3, <1>4 DEF ScrapeInv

\* The page of a search, and the cursor that has taken it up.
LEMMA PageOfList ==
  ASSUME S!List \in Seq(S!Links), walk.start \in Nat, NEW n \in Nat, walk.start + n <= Len(S!List)
  PROVE  /\ S!Page(n) \in Seq(S!Links) /\ Len(S!Page(n)) = n
         /\ \A j \in 1..n : S!Page(n)[j] = S!List[walk.start + j]
<1> DEFINE list == S!List
           start == walk.start
<1>1. list \in Seq(S!Links) /\ start \in Nat /\ start + n <= Len(list)
  OBVIOUS
<1>2. S!Page(n) = SubSeq(list, start + 1, start + n)
  BY DEF S!Page
<1> HIDE DEF list, start
<1>3. /\ SubSeq(list, start + 1, start + n) \in Seq(S!Links) /\ Len(SubSeq(list, start + 1, start + n)) = n
      /\ \A j \in 1..n : SubSeq(list, start + 1, start + n)[j] = list[start + j]
  BY <1>1, Slice
<1>4. /\ S!Page(n) \in Seq(S!Links) /\ Len(S!Page(n)) = n
      /\ \A j \in 1..n : S!Page(n)[j] = list[start + j]
  BY <1>2, <1>3, Zenon
<1> QED
  BY <1>4 DEF list, start

LEMMA PageUp ==
  ASSUME walk \in Cursors, NEW n \in Nat, NEW cards \in Seq(S!Links), Len(cards) = n,
         walk' = [walk EXCEPT !.page = walk.page + 1, !.start = walk.start + Len(cards), !.todo = cards]
  PROVE  /\ walk' \in Cursors /\ walk'.q = walk.q /\ walk'.links = walk.links
         /\ walk'.start = walk.start + n /\ walk'.todo = cards
<1> DEFINE page == walk.page + 1
           place == walk.start + Len(cards)
<1>1. page \in Int /\ place \in Nat /\ place = walk.start + n
  BY DEF Cursors
<1>2. walk' = [walk EXCEPT !.page = page, !.start = place, !.todo = cards]
  OBVIOUS
<1> HIDE DEF page, place
<1> DEFINE first == [walk EXCEPT !.page = page]
           second == [first EXCEPT !.start = place]
           third == [second EXCEPT !.todo = cards]
<1>3. walk' = third
  BY <1>2
<1>4. first \in Cursors /\ first.q = walk.q /\ first.links = walk.links
  BY <1>1 DEF Cursors
<1> HIDE DEF first
<1>5. second \in Cursors /\ second.q = walk.q /\ second.links = walk.links /\ second.start = place
  BY <1>1, <1>4 DEF Cursors
<1> HIDE DEF second
<1>6. third \in Cursors /\ third.q = walk.q /\ third.links = walk.links /\ third.start = place /\ third.todo = cards
  BY <1>5 DEF Cursors
<1> HIDE DEF third
<1> QED
  BY <1>1, <1>3, <1>6

\* The cursor after a card that is done.
LEMMA CardDone ==
  ASSUME ScrapeTypes, walk.todo # <<>>
  PROVE  /\ S!Rest \in Cursors /\ S!Card \in S!Links
         /\ S!Rest.q = walk.q /\ S!Rest.start = walk.start /\ S!Rest.links = walk.links \cup {S!Card}
         /\ S!Rest.todo = Tail(walk.todo)
         /\ \A j \in 1..Len(walk.todo) :
              walk.todo[j] = S!Card \/ \E k \in 1..Len(S!Rest.todo) : S!Rest.todo[k] = walk.todo[j]
<1>1. walk \in Cursors /\ walk.todo \in Seq(S!Links) /\ walk.links \subseteq S!Links
  BY DEF ScrapeTypes, Cursors
<1>2. S!Card = Head(walk.todo) /\ S!Card \in S!Links /\ Tail(walk.todo) \in Seq(S!Links)
  BY <1>1, HeadTailProperties DEF S!Card
<1> DEFINE first == [walk EXCEPT !.todo = Tail(walk.todo)]
           second == [first EXCEPT !.links = first.links \cup {S!Card}]
<1>3. first \in Cursors /\ first.q = walk.q /\ first.start = walk.start /\ first.todo = Tail(walk.todo)
      /\ first.links = walk.links
  BY <1>1, <1>2 DEF Cursors
<1> HIDE DEF first
<1>4. first.links \cup {S!Card} \in SUBSET S!Links
  BY <1>1, <1>2, <1>3
<1>5. second \in Cursors /\ second.q = walk.q /\ second.start = walk.start /\ second.todo = Tail(walk.todo)
      /\ second.links = walk.links \cup {S!Card}
  BY <1>3, <1>4 DEF Cursors
<1>6. S!Rest = second
  BY DEF S!Rest, first
<1> HIDE DEF second
<1>7. ASSUME NEW j \in 1..Len(walk.todo)
      PROVE  walk.todo[j] = S!Card \/ \E k \in 1..Len(Tail(walk.todo)) : Tail(walk.todo)[k] = walk.todo[j]
  <2>1. CASE j = 1
    BY <2>1, <1>1, <1>2 
  <2>2. CASE j # 1
    <3>1. j - 1 \in 1..Len(Tail(walk.todo)) /\ Tail(walk.todo)[j - 1] = walk.todo[j]
      BY <2>2, <1>1, HeadTailProperties, LenProperties
    <3> QED
      BY <3>1
  <2> QED
    BY <2>1, <2>2
<1> QED
  BY <1>2, <1>5, <1>6, <1>7

\* A search ends, or the run with it.
LEMMA SearchesEnd ==
  ASSUME S!ScrapeAssumption, ScrapeInv, at = "search",
         UNCHANGED <<texts, breaker, offers, asked>>,
         \/ \E reason \in {"end_of_results", "empty_page", "duplicate_page", "throttled_empty", "rate_limited",
                          "cap_hit"} : S!Over(reason)
         \/ at' \in {"search", "raised"} /\ UNCHANGED walk
  PROVE  ScrapeInv'
<1>1. /\ walk \in Cursors /\ walk.q \in 1..Len(Searches) /\ Len(Searches) \in Nat
  BY LenProperties DEF ScrapeInv, ScrapeTypes, S!ScrapeAssumption
<1>2. \/ at' \in {"search", "done", "raised"} /\ UNCHANGED walk
      \/ at' = "search" /\ walk.q + 1 \in 1..Len(Searches) /\ walk' = S!Begin(walk.q + 1)
  BY <1>1 DEF S!Over
<1>3. LaddersMatch' /\ BreakerHolds'
  BY <1>2 DEF ScrapeInv, LaddersMatch, BreakerHolds
<1>4. CASE at' \in {"search", "done", "raised"} /\ UNCHANGED walk
  BY <1>3, <1>4 DEF ScrapeInv, ScrapeTypes, InPlace, S!List
<1>5. CASE at' = "search" /\ walk.q + 1 \in 1..Len(Searches) /\ walk' = S!Begin(walk.q + 1)
  <2>1. walk' \in Cursors /\ walk'.q = walk.q + 1 /\ walk'.start = 0
    BY <1>5, Beginnings
  <2>2. ScrapeTypes'
    BY <1>5, <2>1, ListsAre DEF ScrapeInv, ScrapeTypes, S!List
  <2>3. InPlace'
    BY <1>5, <2>1, ListsAre DEF InPlace, S!List
  <2> QED
    BY <1>3, <2>2, <2>3 DEF ScrapeInv
<1> QED
  BY <1>2, <1>4, <1>5

\* The pages: the offset moves by the cards that came, and a page with nothing new moves nothing.
LEMMA PagesKeep ==
  ASSUME S!ScrapeAssumption, ScrapeInv,
         \/ \E status \in {"throttled", "upstream", "network"} : S!SearchRefused(status)
         \/ \E status \in {"end", "blocked"} : S!SearchFailed(status)
         \/ \E n \in 0..PageSize : walk.start + n <= Len(S!List) /\ S!SearchAnswered(S!Page(n))
         \/ at = "search" /\ walk.start > 0 /\ S!SearchAnswered(SubSeq(S!List, walk.start, walk.start))
         \/ S!SearchCapped
  PROVE  ScrapeInv'
<1>1. /\ at = "search" /\ UNCHANGED <<texts, breaker, offers, asked>>
  BY DEF S!SearchRefused, S!SearchFailed, S!SearchAnswered, S!SearchCapped
<1>2. /\ walk \in Cursors /\ walk.q \in 1..Len(Searches) /\ walk.start \in Nat /\ walk.start <= Len(S!List)
      /\ walk.page \in Int
  BY DEF ScrapeInv, ScrapeTypes, Cursors
<1>3. /\ S!List \in Seq(S!Links) /\ Len(S!List) \in Nat /\ \A i \in 1..Len(S!List) : S!List[i] \in S!Links
  BY <1>2, ListsAre DEF S!List
<1>4. \A i \in 1..Len(S!List) : i <= walk.start => S!List[i] \in walk.links
  BY <1>1 DEF ScrapeInv, InPlace
<1>5. ASSUME NEW cards, S!SearchAnswered(cards), S!Exhausted(cards) PROVE ScrapeInv'
  <2>1. \/ S!Over("throttled_empty")
        \/ S!Over("empty_page") \/ S!Over("duplicate_page")
        \/ at' \in {"search", "raised"} /\ UNCHANGED walk
    BY <1>1, <1>5 DEF S!SearchAnswered
  <2> QED
    BY <1>1, <2>1, SearchesEnd
<1>6. ASSUME NEW n \in 0..PageSize, walk.start + n <= Len(S!List), S!SearchAnswered(S!Page(n)),
             ~S!Exhausted(S!Page(n))
      PROVE  ScrapeInv'
  <2> DEFINE cards == S!Page(n)
  <2>1. n \in Nat
    OBVIOUS
  <2>2. /\ cards \in Seq(S!Links) /\ Len(cards) = n
        /\ \A j \in 1..n : cards[j] = S!List[walk.start + j]
    BY <1>2, <1>3, <1>6, <2>1, PageOfList
  <2>3. /\ at' = "cards"
        /\ walk' = [walk EXCEPT !.page = walk.page + 1, !.start = walk.start + Len(cards), !.todo = cards]
    BY <1>6 DEF S!SearchAnswered, S!NextStart
  <2> HIDE DEF cards
  <2>4. /\ walk' \in Cursors /\ walk'.q = walk.q /\ walk'.links = walk.links
        /\ walk'.start = walk.start + n /\ walk'.todo = cards
    BY <1>2, <2>1, <2>2, <2>3, PageUp
  <2>5. S!List' = S!List
    BY <2>4 DEF S!List
  <2>6. ScrapeTypes'
    BY <1>1, <1>2, <1>6, <2>3, <2>4, <2>5 DEF ScrapeInv, ScrapeTypes
  <2>7. InPlace'
    <3> SUFFICES ASSUME NEW i \in 1..Len(S!List), i <= walk.start + n
                 PROVE  S!List[i] \in walk.links \/ \E j \in 1..Len(cards) : cards[j] = S!List[i]
      BY <2>3, <2>4, <2>5 DEF InPlace
    <3>1. CASE i <= walk.start
      BY <3>1, <1>4
    <3>2. CASE ~(i <= walk.start)
      <4>1. i - walk.start \in 1..n /\ walk.start + (i - walk.start) = i
        BY <3>2, <1>2, <1>3, <2>1
      <4> QED
        BY <4>1, <2>2
    <3> QED
      BY <3>1, <3>2
  <2>8. LaddersMatch' /\ BreakerHolds'
    BY <1>1, <2>3 DEF ScrapeInv, LaddersMatch, BreakerHolds
  <2> QED
    BY <2>6, <2>7, <2>8 DEF ScrapeInv
<1>7. ASSUME walk.start > 0, S!SearchAnswered(SubSeq(S!List, walk.start, walk.start)) PROVE ScrapeInv'
  <2> DEFINE cards == SubSeq(S!List, walk.start, walk.start)
  <2>1. walk.start \in 1..Len(S!List)
    BY <1>2, <1>3, <1>7
  <2>2. Len(cards) = 1 /\ cards[1] = S!List[walk.start]
    BY <1>3, <2>1, Single
  <2>3. \A j \in 1..Len(cards) : cards[j] = S!List[walk.start]
    <3> HIDE DEF cards
    <3> QED
      BY <2>2
  <2>4. S!Exhausted(cards)
    BY <1>4, <2>1, <2>3 DEF S!Exhausted
  <2> QED
    BY <1>5, <1>7, <2>4
<1>8. ASSUME \/ \E status \in {"throttled", "upstream", "network"} : S!SearchRefused(status)
             \/ \E status \in {"end", "blocked"} : S!SearchFailed(status)
             \/ S!SearchCapped
      PROVE  ScrapeInv'
  <2>1. \/ S!Over("end_of_results")
        \/ S!Over("rate_limited") \/ S!Over("cap_hit")
        \/ at' \in {"search", "raised"} /\ UNCHANGED walk
    BY <1>1, <1>8 DEF S!SearchRefused, S!SearchFailed, S!SearchCapped
  <2> QED
    BY <1>1, <2>1, SearchesEnd
<1> QED
  BY <1>5, <1>6, <1>7, <1>8

\* A card that costs no request becomes an offer unless it was seen or is out of scope.
LEMMA CardsKeep ==
  ASSUME S!ScrapeAssumption, ScrapeInv, S!CardWithoutRequest \/ S!CardRequested \/ S!PageDone
  PROVE  ScrapeInv'
<1>1. CASE S!CardWithoutRequest
  <2>1. /\ at = "cards" /\ at' = "cards" /\ walk.todo # <<>> /\ walk' = S!Rest /\ UNCHANGED <<breaker, asked>>
        /\ offers \subseteq offers' /\ (texts' = texts \/ texts' = [texts EXCEPT ![S!Card] = "rate_limited"])
    BY <1>1 DEF S!CardWithoutRequest
  <2>2. /\ walk' \in Cursors /\ walk'.q = walk.q /\ walk'.start = walk.start
        /\ walk'.links = walk.links \cup {S!Card}
        /\ \A j \in 1..Len(walk.todo) :
             walk.todo[j] = S!Card \/ \E k \in 1..Len(walk'.todo) : walk'.todo[k] = walk.todo[j]
    BY <2>1, CardDone DEF ScrapeInv
  <2>3. S!List' = S!List
    BY <2>2 DEF S!List
  <2>4. ScrapeTypes'
    BY <2>1, <2>2, <2>3, CardDone DEF ScrapeInv, ScrapeTypes
  <2>5. InPlace'
    BY <2>1, <2>2, <2>3 DEF ScrapeInv, InPlace
  <2>6. LaddersMatch' /\ BreakerHolds'
    BY <2>1, CardDone DEF ScrapeInv, ScrapeTypes, LaddersMatch, BreakerHolds
  <2> QED
    BY <2>4, <2>5, <2>6 DEF ScrapeInv
<1>2. CASE S!CardRequested
  <2>1. /\ at = "cards" /\ at' = "text" /\ walk.todo # <<>> /\ texts[S!Card] = "none" /\ ~breaker.tripped
        /\ asked' = [asked EXCEPT ![S!Card] = asked[S!Card] + 1]
        /\ UNCHANGED <<walk, texts, breaker, offers>>
    BY <1>2 DEF S!CardRequested
  <2>2. S!Card \in S!Links /\ asked[S!Card] = 0 /\ S!Card' = S!Card /\ S!List' = S!List
    BY <2>1, CardDone DEF ScrapeInv, LaddersMatch, S!Card, S!List
  <2>3. ScrapeTypes' /\ InPlace'
    BY <2>1, <2>2 DEF ScrapeInv, ScrapeTypes, InPlace
  <2>4. /\ asked'[S!Card] = 1 /\ \A l \in S!Links \ {S!Card} : asked'[l] = asked[l]
    BY <2>1, <2>2 DEF ScrapeInv, ScrapeTypes
  <2>5. LaddersMatch' /\ BreakerHolds'
    BY <2>1, <2>2, <2>4 DEF ScrapeInv, LaddersMatch, BreakerHolds
  <2> QED
    BY <2>3, <2>5 DEF ScrapeInv
<1>3. CASE S!PageDone
  <2>1. /\ at = "cards" /\ at' = "search" /\ walk.todo = <<>>
        /\ UNCHANGED <<walk, texts, breaker, offers, asked>>
    BY <1>3 DEF S!PageDone
  <2>2. Len(walk.todo) = 0
    BY <2>1, EmptySeq
  <2>3. ScrapeTypes' /\ InPlace'
    BY <2>1, <2>2 DEF ScrapeInv, ScrapeTypes, InPlace, S!List
  <2>4. LaddersMatch' /\ BreakerHolds'
    BY <2>1 DEF ScrapeInv, LaddersMatch, BreakerHolds
  <2> QED
    BY <2>3, <2>4 DEF ScrapeInv
<1> QED
  BY <1>1, <1>2, <1>3

\* A ladder ends: the text is cached, the offer exists, the breaker counts.
LEMMA TextsKeep ==
  ASSUME S!ScrapeAssumption, ScrapeInv,
         \/ \E status \in {"throttled", "upstream", "network"} : S!TextRefused(status)
         \/ \E status \in {"ok", "partial"} : S!TextAnswered(status)
  PROVE  ScrapeInv'
<1>1. at = "text" /\ UNCHANGED asked /\ walk.todo # <<>>
  BY DEF S!TextRefused, S!TextAnswered, ScrapeInv, ScrapeTypes
<1>2. ASSUME NEW status \in {"ok", "partial", "failed", "rate_limited"}, S!Text(status) PROVE ScrapeInv'
  <2> DEFINE row == IF status = "rate_limited" THEN breaker.row + 1 ELSE 0
  <2>1. /\ at' = "cards" /\ walk' = S!Rest /\ offers' = offers \cup {S!Card}
        /\ texts' = [texts EXCEPT ![S!Card] = status]
        /\ breaker' = [row |-> row, tripped |-> breaker.tripped \/ row >= BreakAt]
    BY <1>2 DEF S!Text, S!Cached, S!Trips
  <2>2. /\ walk' \in Cursors /\ walk'.q = walk.q /\ walk'.start = walk.start /\ S!Card \in S!Links
        /\ walk'.links = walk.links \cup {S!Card}
        /\ \A j \in 1..Len(walk.todo) :
             walk.todo[j] = S!Card \/ \E k \in 1..Len(walk'.todo) : walk'.todo[k] = walk.todo[j]
    BY <1>1, <2>1, CardDone DEF ScrapeInv
  <2>3. S!List' = S!List
    BY <2>2 DEF S!List
  <2>4. breaker' \in [row : Nat, tripped : BOOLEAN] /\ breaker'.row = row /\ breaker'.row <= BreakAt
        /\ (breaker'.row < BreakAt \/ breaker'.tripped)
    <3>1. breaker.row \in Nat /\ breaker.row < BreakAt /\ breaker.tripped \in BOOLEAN /\ BreakAt \in Nat \ {0}
      BY <1>1 DEF ScrapeInv, ScrapeTypes, BreakerHolds, S!ScrapeAssumption
    <3>2. row \in Nat /\ row <= BreakAt
      BY <3>1
    <3> HIDE DEF row
    <3>3. breaker'.row = row /\ (row >= BreakAt => breaker'.tripped) /\ breaker' \in [row : Nat, tripped : BOOLEAN]
      BY <2>1, <3>1, <3>2
    <3> QED
      BY <3>1, <3>2, <3>3
  <2>5. texts' \in [S!Links -> {"none", "ok", "partial", "failed", "rate_limited"}]
        /\ texts'[S!Card] # "none" /\ \A l \in S!Links \ {S!Card} : texts'[l] = texts[l]
    BY <2>1, <2>2 DEF ScrapeInv, ScrapeTypes
  <2>6. ScrapeTypes'
    BY <1>1, <2>1, <2>2, <2>3, <2>4, <2>5 DEF ScrapeInv, ScrapeTypes
  <2>8. InPlace'
    BY <1>1, <2>1, <2>2, <2>3 DEF ScrapeInv, InPlace
  <2>7. LaddersMatch' /\ BreakerHolds'
    BY <1>1, <2>1, <2>2, <2>4, <2>5 DEF ScrapeInv, LaddersMatch, BreakerHolds
  <2> QED
    BY <2>6, <2>7, <2>8 DEF ScrapeInv
<1>3. CASE UNCHANGED <<at, walk, texts, breaker, offers>>
  BY <1>1, <1>3 DEF ScrapeInv, ScrapeTypes, InPlace, LaddersMatch, BreakerHolds, S!List, S!Card
<1>4. \/ \E status \in {"ok", "partial", "failed", "rate_limited"} : S!Text(status)
      \/ UNCHANGED <<at, walk, texts, breaker, offers>>
  BY DEF S!TextRefused, S!TextAnswered
<1> QED
  BY <1>2, <1>3, <1>4

\* A card that was handled and is in scope is an offer, with a text or without.
Taken == walk.links \ Hidden \subseteq offers

LEMMA CardsAreTaken ==
  ASSUME S!ScrapeAssumption, ScrapeInv, Taken, [S!Next]_(S!vars)
  PROVE  Taken'
<1>1. /\ walk \in Cursors /\ walk.q \in 1..Len(Searches) /\ Len(Searches) \in Nat
      /\ (at = "text" => walk.todo # <<>>)
  BY LenProperties DEF ScrapeInv, ScrapeTypes, S!ScrapeAssumption
<1>2. CASE UNCHANGED <<walk, offers>>
  BY <1>2 DEF Taken
<1>3. CASE UNCHANGED offers /\ \E reason : S!Over(reason)
  <2>1. walk' = walk \/ walk'.links = {}
    BY <1>3 DEF S!Over, S!Begin
  <2> QED
    BY <1>3, <2>1 DEF Taken
<1>4. ASSUME NEW cards, walk' = [walk EXCEPT !.page = @ + 1, !.start = S!NextStart(cards), !.todo = cards],
             UNCHANGED offers
      PROVE  Taken'
  <2>1. walk'.links = walk.links
    BY <1>1, <1>4 DEF Cursors
  <2> QED
    BY <1>4, <2>1 DEF Taken
<1>5. ASSUME walk.todo # <<>>, walk' = S!Rest, offers \subseteq offers',
             S!Card \in offers' \cup walk.links \cup Hidden
      PROVE  Taken'
  <2>1. walk'.links = walk.links \cup {S!Card}
    BY <1>5, CardDone DEF ScrapeInv
  <2> QED
    BY <1>5, <2>1 DEF Taken
<1>6. ASSUME NEW cards, S!SearchAnswered(cards) PROVE Taken'
  <2>1. /\ UNCHANGED offers
        /\ \/ UNCHANGED walk
           \/ \E reason : S!Over(reason)
           \/ walk' = [walk EXCEPT !.page = @ + 1, !.start = S!NextStart(cards), !.todo = cards]
    BY <1>6 DEF S!SearchAnswered
  <2> QED
    BY <1>2, <1>3, <1>4, <2>1
<1>7. ASSUME NEW status, S!SearchRefused(status) \/ S!SearchFailed(status) PROVE Taken'
  BY <1>2, <1>3, <1>7 DEF S!SearchRefused, S!SearchFailed
<1>8. ASSUME S!CardWithoutRequest PROVE Taken'
  BY <1>5, <1>8 DEF S!CardWithoutRequest
<1>9. ASSUME NEW status, S!TextAnswered(status) \/ S!TextRefused(status) PROVE Taken'
  <2>1. at = "text" /\ (UNCHANGED <<walk, offers>> \/ (walk' = S!Rest /\ offers' = offers \cup {S!Card}))
    BY <1>9 DEF S!TextAnswered, S!TextRefused, S!Text
  <2> QED
    BY <1>1, <1>2, <1>5, <2>1
<1>10. CASE UNCHANGED S!vars
  BY <1>2, <1>10 DEF S!vars
<1>11. CASE S!SearchCapped \/ S!CardRequested \/ S!PageDone
  BY <1>2, <1>3, <1>11 DEF S!SearchCapped, S!CardRequested, S!PageDone
<1> QED
  BY <1>6, <1>7, <1>8, <1>9, <1>10, <1>11 DEF S!Next

\* No card of a search is skipped, no posting costs two ladders of requests in a run, and the run stops asking
\* after BreakAt refused texts in a row with every card in scope among its offers (scraper.py).
THEOREM ScrapingIsSparing ==
  ASSUME S!ScrapeAssumption
  PROVE  S!Spec => [](S!NothingIsSkipped /\ S!OneLadderPerText /\ S!RefusalsStopTheRun)
<1>1. S!Init => ScrapeInv /\ Taken
  <2>1. S!Init => walk.links = {}
    BY DEF S!Init, S!Begin
  <2> QED
    BY <2>1, ScrapeInit DEF Taken
<1>2. (ScrapeInv /\ Taken) /\ [S!Next]_(S!vars) => (ScrapeInv /\ Taken)'
  <2> SUFFICES ASSUME ScrapeInv, Taken, [S!Next]_(S!vars) PROVE ScrapeInv' /\ Taken'
    OBVIOUS
  <2>1. CASE UNCHANGED S!vars
    BY <2>1, CardsAreTaken
    DEF S!vars, ScrapeInv, ScrapeTypes, InPlace, LaddersMatch, BreakerHolds, S!List, S!Card
  <2>2. CASE S!Next
    BY <2>2, PagesKeep, CardsKeep, TextsKeep, CardsAreTaken DEF S!Next
  <2> QED
    BY <2>1, <2>2
<1>3. ScrapeInv /\ Taken => S!NothingIsSkipped /\ S!OneLadderPerText /\ S!RefusalsStopTheRun
  BY DEF ScrapeInv, InPlace, LaddersMatch, BreakerHolds, Taken, S!NothingIsSkipped, S!OneLadderPerText,
    S!RefusalsStopTheRun
<1> QED
  BY <1>1, <1>2, <1>3, PTL DEF S!Spec

\* What is left of the types: a ladder has attempts left, a page no more cards than a response may hold.
Tries == [n : Nat, saw429 : BOOLEAN, refused : BOOLEAN, again : 0..PageRetries]
Reasons == {"none", "end_of_results", "empty_page", "duplicate_page", "throttled_empty", "rate_limited", "cap_hit"}
ScrapeFits ==
  /\ walk.page \in 0..MaxPages /\ Len(walk.todo) <= PageSize
  /\ try \in Tries /\ (at = "cards" => try = S!NoTry)
  /\ try.n < (IF at = "text" THEN TextRetries ELSE SearchRetries)
  /\ factor \in 1..MaxFactor /\ offers \subseteq S!Links /\ why \in Reasons

LEMMA ScrapeFitsFirst == ASSUME S!ScrapeAssumption PROVE S!Init => ScrapeFits
BY EmptySeq DEF S!ScrapeAssumption, S!Init, ScrapeFits, Tries, Reasons, S!NoTry, S!Begin

\* The pace.
LEMMA PacedFits ==
  ASSUME S!ScrapeAssumption, factor \in 1..MaxFactor, NEW status, NEW saw \in BOOLEAN
  PROVE  S!Paced(status, saw) \in 1..MaxFactor
<1>1. MaxFactor \in Nat \ {0} /\ factor \in Nat
  BY DEF S!ScrapeAssumption
<1>2. S!Slower(factor) \in 1..MaxFactor
  BY <1>1 DEF S!Slower
<1>3. S!Relaxed(factor) \in 1..MaxFactor
  BY <1>1 DEF S!Relaxed
<1> QED
  BY <1>2, <1>3 DEF S!Paced

\* A step of the ladder.
LEMMA TryGoesOn ==
  ASSUME try \in Tries, NEW saw \in BOOLEAN, NEW refused \in BOOLEAN,
         \/ try' = [try EXCEPT !.n = try.n + 1, !.saw429 = saw]
         \/ try' = [try EXCEPT !.n = try.n + 1, !.saw429 = saw, !.refused = refused]
  PROVE  try' \in Tries /\ try'.n = try.n + 1
<1> DEFINE one == [try EXCEPT !.n = try.n + 1]
           two == [one EXCEPT !.saw429 = saw]
           three == [two EXCEPT !.refused = refused]
<1>1. one \in Tries /\ one.n = try.n + 1
  BY DEF Tries
<1>2. try' = two \/ try' = three
  OBVIOUS
<1> HIDE DEF one
<1>3. two \in Tries /\ two.n = one.n
  BY <1>1 DEF Tries
<1> HIDE DEF two
<1>4. three \in Tries /\ three.n = two.n
  BY <1>3 DEF Tries
<1> HIDE DEF three
<1> QED
  BY <1>1, <1>2, <1>3, <1>4

LEMMA NoTryFits == ASSUME S!ScrapeAssumption PROVE S!NoTry \in Tries /\ S!NoTry.n = 0
BY DEF S!ScrapeAssumption, S!NoTry, Tries

\* A search that is over.
LEMMA OverFits ==
  ASSUME S!ScrapeAssumption, ScrapeInv, ScrapeFits, NEW reason \in Reasons, S!Over(reason),
         factor' \in 1..MaxFactor, UNCHANGED offers
  PROVE  ScrapeFits'
<1>1. try' = S!NoTry /\ why' = reason /\ at' \in {"done", "search"}
  BY DEF S!Over
<1>2. walk' = walk \/ walk' = S!Begin(walk.q + 1)
  BY DEF S!Over
<1>3. walk'.page \in 0..MaxPages /\ Len(walk'.todo) <= PageSize
  BY <1>2, EmptySeq, SMTT(60) DEF ScrapeFits, S!Begin, S!ScrapeAssumption
<1>4. 0 < SearchRetries
  BY DEF S!ScrapeAssumption
<1> QED
  BY <1>1, <1>3, <1>4, NoTryFits DEF ScrapeFits

LEMMA PagesFit ==
  ASSUME S!ScrapeAssumption, ScrapeInv, ScrapeFits,
         \/ \E status \in {"throttled", "upstream", "network"} : S!SearchRefused(status)
         \/ \E status \in {"end", "blocked"} : S!SearchFailed(status)
         \/ \E n \in 0..PageSize : walk.start + n <= Len(S!List) /\ S!SearchAnswered(S!Page(n))
         \/ at = "search" /\ walk.start > 0 /\ S!SearchAnswered(SubSeq(S!List, walk.start, walk.start))
         \/ S!SearchCapped
  PROVE  ScrapeFits'
<1>1. at = "search" /\ UNCHANGED offers /\ try \in Tries /\ try.n < SearchRetries
  BY DEF S!SearchRefused, S!SearchFailed, S!SearchAnswered, S!SearchCapped, ScrapeFits
<1>2. /\ walk \in Cursors /\ walk.q \in 1..Len(Searches) /\ walk.start \in Nat /\ walk.start <= Len(S!List)
      /\ S!List \in Seq(S!Links) /\ Len(S!List) \in Nat
      /\ \A i \in 1..Len(S!List) : i <= walk.start => S!List[i] \in walk.links
  BY <1>1, ListsAre DEF ScrapeInv, ScrapeTypes, InPlace, Cursors, S!List
<1>3. try.saw429 \in BOOLEAN /\ try.n \in Nat /\ try.again \in 0..PageRetries
  BY <1>1 DEF Tries
<1>4. factor \in 1..MaxFactor /\ \A status : S!Paced(status, try.saw429) \in 1..MaxFactor
  BY <1>3, PacedFits DEF ScrapeFits
<1>5. ASSUME NEW status \in {"throttled", "upstream", "network"}, S!SearchRefused(status) PROVE ScrapeFits'
  <2>1. factor' \in 1..MaxFactor /\ UNCHANGED <<walk, why>>
    BY <1>4, <1>5 DEF S!SearchRefused
  <2>2. CASE try.n = SearchRetries - 1
    <3>1. at' = "raised" /\ UNCHANGED try
      BY <1>5, <2>2 DEF S!SearchRefused
    <3> QED
      BY <1>1, <2>1, <3>1 DEF ScrapeFits
  <2>3. CASE try.n # SearchRetries - 1
    <3>1. /\ at' = "search"
          /\ try' = [try EXCEPT !.n = try.n + 1, !.saw429 = try.saw429 \/ status = "throttled"]
      BY <1>1, <1>5, <2>3 DEF S!SearchRefused
    <3>2. try' \in Tries /\ try'.n = try.n + 1
      BY <1>1, <1>3, <3>1, TryGoesOn
    <3>3. try.n + 1 < SearchRetries
      BY <1>1, <1>3, <2>3 DEF S!ScrapeAssumption
    <3> QED
      BY <1>1, <2>1, <3>1, <3>2, <3>3 DEF ScrapeFits
  <2> QED
    BY <2>2, <2>3
<1>6. ASSUME NEW status \in {"end", "blocked"}, S!SearchFailed(status) PROVE ScrapeFits'
  <2>1. UNCHANGED factor
    BY <1>6 DEF S!SearchFailed
  <2>2. CASE S!Over("end_of_results")
    BY <1>1, <1>4, <2>1, <2>2, OverFits DEF Reasons
  <2>3. CASE at' = "raised" /\ UNCHANGED <<walk, try, why>>
    BY <1>1, <2>1, <2>3 DEF ScrapeFits
  <2> QED
    BY <1>6, <2>2, <2>3 DEF S!SearchFailed
<1>7. ASSUME NEW cards, S!SearchAnswered(cards), S!Exhausted(cards) PROVE ScrapeFits'
  <2>1. factor' \in 1..MaxFactor
    BY <1>4, <1>7 DEF S!SearchAnswered
  <2>2. \/ S!Over("throttled_empty") \/ S!Over("empty_page") \/ S!Over("duplicate_page")
        \/ /\ try.again < PageRetries /\ try' = [S!NoTry EXCEPT !.again = try.again + 1]
           /\ UNCHANGED <<at, walk, why>>
    BY <1>7 DEF S!SearchAnswered
  <2>3. CASE try.again < PageRetries /\ try' = [S!NoTry EXCEPT !.again = try.again + 1]
             /\ UNCHANGED <<at, walk, why>>
    <3>1. try.again + 1 \in 0..PageRetries
      BY <1>3, <2>3, SMTT(60) DEF S!ScrapeAssumption
    <3>2. try' \in Tries /\ try'.n = 0
      BY <2>3, <3>1 DEF S!NoTry, Tries
    <3>3. 0 < SearchRetries
      BY DEF S!ScrapeAssumption
    <3> QED
      BY <1>1, <2>1, <2>3, <3>2, <3>3 DEF ScrapeFits
  <2> QED
    BY <1>1, <2>1, <2>2, <2>3, OverFits DEF Reasons
<1>8. ASSUME NEW n \in 0..PageSize, walk.start + n <= Len(S!List), S!SearchAnswered(S!Page(n)),
             ~S!Exhausted(S!Page(n))
      PROVE  ScrapeFits'
  <2> DEFINE cards == S!Page(n)
  <2>1. cards \in Seq(S!Links) /\ Len(cards) = n /\ n <= PageSize
    BY <1>2, <1>8, PageOfList DEF S!ScrapeAssumption
  <2>2. /\ at' = "cards" /\ try' = S!NoTry /\ UNCHANGED why /\ factor' = S!Paced("ok", try.saw429)
        /\ walk.page < MaxPages
        /\ walk' = [walk EXCEPT !.page = walk.page + 1, !.start = walk.start + Len(cards), !.todo = cards]
    BY <1>8 DEF S!SearchAnswered, S!NextStart
  <2> HIDE DEF cards
  <2>3. walk'.page = walk.page + 1 /\ walk'.todo = cards
    BY <1>2, <2>2 DEF Cursors
  <2>4. walk.page + 1 \in 0..MaxPages /\ 0 < SearchRetries
    BY <2>2, SMTT(60) DEF ScrapeFits, S!ScrapeAssumption
  <2> QED
    BY <1>1, <1>4, <2>1, <2>2, <2>3, <2>4, NoTryFits DEF ScrapeFits
<1>9. ASSUME walk.start > 0, S!SearchAnswered(SubSeq(S!List, walk.start, walk.start)) PROVE ScrapeFits'
  <2> DEFINE cards == SubSeq(S!List, walk.start, walk.start)
  <2>1. walk.start \in 1..Len(S!List)
    BY <1>2, <1>9
  <2>2. Len(cards) = 1 /\ cards[1] = S!List[walk.start]
    BY <1>2, <2>1, Single
  <2>3. S!Exhausted(cards)
    <3> HIDE DEF cards
    <3> QED
      BY <1>2, <2>1, <2>2 DEF S!Exhausted
  <2> QED
    BY <1>7, <1>9, <2>3
<1>10. ASSUME S!SearchCapped PROVE ScrapeFits'
  <2>1. factor' = factor /\ (S!Over("rate_limited") \/ S!Over("cap_hit"))
    BY <1>10 DEF S!SearchCapped
  <2> QED
    BY <1>1, <1>4, <2>1, OverFits DEF Reasons
<1> QED
  BY <1>5, <1>6, <1>7, <1>8, <1>9, <1>10

\* A card that is done leaves the page.
LEMMA RestFits ==
  ASSUME ScrapeInv, ScrapeFits, walk.todo # <<>>, S!ScrapeAssumption
  PROVE  S!Rest.page \in 0..MaxPages /\ Len(S!Rest.todo) <= PageSize
<1>1. walk \in Cursors /\ walk.todo \in Seq(S!Links)
  BY DEF ScrapeInv, ScrapeTypes, Cursors
<1>2. S!Rest.page = walk.page /\ S!Rest.todo = Tail(walk.todo)
  BY <1>1, CardDone DEF ScrapeInv, S!Rest, Cursors
<1>3. Len(Tail(walk.todo)) = Len(walk.todo) - 1 /\ Len(walk.todo) \in Nat
  BY <1>1, HeadTailProperties, LenProperties
<1>4. PageSize \in Nat /\ Len(walk.todo) <= PageSize /\ walk.page \in 0..MaxPages
  BY DEF ScrapeFits, S!ScrapeAssumption
<1> QED
  BY <1>2, <1>3, <1>4

LEMMA CardsFit ==
  ASSUME S!ScrapeAssumption, ScrapeInv, ScrapeFits, S!CardWithoutRequest \/ S!CardRequested \/ S!PageDone
  PROVE  ScrapeFits'
<1>1. at = "cards" /\ UNCHANGED <<factor, why>> /\ try = S!NoTry /\ try' = S!NoTry
  BY DEF S!CardWithoutRequest, S!CardRequested, S!PageDone, ScrapeFits
<1>2. 0 < SearchRetries /\ 0 < TextRetries
  BY DEF S!ScrapeAssumption
<1>3. walk'.page \in 0..MaxPages /\ Len(walk'.todo) <= PageSize
  BY RestFits DEF S!CardWithoutRequest, S!CardRequested, S!PageDone, ScrapeFits
<1>4. offers' \subseteq S!Links
  <2>1. offers' = offers \/ (walk.todo # <<>> /\ offers' = offers \cup {S!Card})
    BY DEF S!CardWithoutRequest, S!CardRequested, S!PageDone
  <2> QED
    BY <2>1, CardDone DEF ScrapeInv, ScrapeFits
<1> QED
  BY <1>1, <1>2, <1>3, <1>4, NoTryFits DEF ScrapeFits

LEMMA TextsFit ==
  ASSUME S!ScrapeAssumption, ScrapeInv, ScrapeFits,
         \/ \E status \in {"throttled", "upstream", "network"} : S!TextRefused(status)
         \/ \E status \in {"ok", "partial"} : S!TextAnswered(status)
  PROVE  ScrapeFits'
<1>1. at = "text" /\ UNCHANGED why /\ walk.todo # <<>> /\ try \in Tries /\ try.n < TextRetries
  BY DEF S!TextRefused, S!TextAnswered, ScrapeInv, ScrapeTypes, ScrapeFits
<1>2. try.saw429 \in BOOLEAN /\ try.refused \in BOOLEAN /\ try.n \in Nat
  BY <1>1 DEF Tries
<1>3. factor' \in 1..MaxFactor
  <2>1. \A status : S!Paced(status, try.saw429) \in 1..MaxFactor
    BY <1>2, PacedFits DEF ScrapeFits
  <2> QED
    BY <2>1 DEF S!TextRefused, S!TextAnswered, ScrapeFits
<1>4. ASSUME NEW status, S!Text(status) PROVE ScrapeFits'
  <2>1. at' = "cards" /\ walk' = S!Rest /\ offers' = offers \cup {S!Card} /\ try' = S!NoTry
    BY <1>4 DEF S!Text
  <2>2. 0 < SearchRetries
    BY DEF S!ScrapeAssumption
  <2>3. offers' \subseteq S!Links
    BY <1>1, <2>1, CardDone DEF ScrapeInv, ScrapeFits
  <2> QED
    BY <1>1, <1>3, <2>1, <2>2, <2>3, RestFits, NoTryFits DEF ScrapeFits
<1>5. ASSUME NEW status \in {"throttled", "upstream", "network"}, S!TextRefused(status), try.n # TextRetries - 1
      PROVE  ScrapeFits'
  <2>1. /\ try' = [try EXCEPT !.n = try.n + 1, !.saw429 = try.saw429 \/ status = "throttled",
                              !.refused = try.refused \/ status # "network"]
        /\ UNCHANGED <<at, walk, offers>>
    BY <1>5 DEF S!TextRefused
  <2>2. try' \in Tries /\ try'.n = try.n + 1
    BY <1>1, <1>2, <2>1, TryGoesOn
  <2>3. try.n + 1 < TextRetries
    BY <1>1, <1>2, <1>5 DEF S!ScrapeAssumption
  <2> QED
    BY <1>1, <1>3, <2>1, <2>2, <2>3 DEF ScrapeFits
<1>6. \/ \E status : S!Text(status)
      \/ \E status \in {"throttled", "upstream", "network"} : S!TextRefused(status) /\ try.n # TextRetries - 1
  BY DEF S!TextRefused, S!TextAnswered
<1> QED
  BY <1>4, <1>5, <1>6

\* The offset, the pages, the ladders and the pace stay in their bounds (scraper.py: max_pages_per_query,
\* _SEARCH_MAX_RETRIES, _DESC_MAX_RETRIES, _PACE_DELAY_CAP).
THEOREM ScrapeTypesHold == ASSUME S!ScrapeAssumption PROVE S!Spec => []S!TypeOK
<1>1. S!Init => ScrapeInv /\ ScrapeFits
  BY ScrapeInit, ScrapeFitsFirst
<1>2. (ScrapeInv /\ ScrapeFits) /\ [S!Next]_(S!vars) => (ScrapeInv /\ ScrapeFits)'
  <2> SUFFICES ASSUME ScrapeInv, ScrapeFits, [S!Next]_(S!vars) PROVE ScrapeInv' /\ ScrapeFits'
    OBVIOUS
  <2>1. CASE UNCHANGED S!vars
    BY <2>1 DEF S!vars, ScrapeInv, ScrapeTypes, InPlace, LaddersMatch, BreakerHolds, S!List, S!Card, ScrapeFits
  <2>2. CASE S!Next
    <3>1. ScrapeInv'
      BY <2>2, PagesKeep, CardsKeep, TextsKeep DEF S!Next
    <3>2. ScrapeFits'
      BY <2>2, PagesFit, CardsFit, TextsFit DEF S!Next
    <3> QED
      BY <3>1, <3>2
  <2> QED
    BY <2>1, <2>2
<1>3. ScrapeInv /\ ScrapeFits => S!TypeOK
  <2> SUFFICES ASSUME ScrapeInv, ScrapeFits PROVE S!TypeOK
    OBVIOUS
  <2>1. try \in [n : 0..SearchRetries + TextRetries, saw429 : BOOLEAN, refused : BOOLEAN, again : 0..PageRetries]
    <3>1. try.n \in 0..SearchRetries + TextRetries
      BY DEF ScrapeFits, Tries, S!ScrapeAssumption
    <3> QED
      BY <3>1 DEF ScrapeFits, Tries
  <2>2. breaker \in [row : 0..BreakAt, tripped : BOOLEAN]
    <3>1. breaker.row \in 0..BreakAt
      BY DEF ScrapeInv, ScrapeTypes, BreakerHolds, S!ScrapeAssumption
    <3> QED
      BY <3>1 DEF ScrapeInv, ScrapeTypes
  <2>3. walk.start \in 0..Len(S!List) /\ walk.links \subseteq S!Links
    <3>1. Len(S!List) \in Nat
      BY ListsAre DEF ScrapeInv, ScrapeTypes, S!List
    <3> QED
      BY <3>1 DEF ScrapeInv, ScrapeTypes, Cursors
  <2> QED
    BY <2>1, <2>2, <2>3 DEF ScrapeInv, ScrapeTypes, ScrapeFits, Reasons, S!TypeOK
<1> QED
  BY <1>1, <1>2, <1>3, PTL DEF S!Spec

-----------------------------------------------------------------------------
(* What a model is shown of a posting: the last word about the place of work. *)

CONSTANTS MaxLength, Window, Intro, Joiner, Budgets, Appendix
VARIABLES length, keywords, budget, radius, step, passages, shown

X == INSTANCE Excerpt

\* Counting, in the terms of the module.
LEMMA ExcerptCount ==
  /\ \A set : X!IsFiniteSet(set) <=> IsFiniteSet(set)
  /\ \A set : X!Cardinality(set) = Cardinality(set)
<1>1. \A set : X!IsFiniteSet(set) <=> IsFiniteSet(set)
  BY DEF IsFiniteSet, X!IsFiniteSet
<1>2. ASSUME NEW set PROVE X!Cardinality(set) = Cardinality(set)
  BY DEF Cardinality, X!Cardinality
<1> QED
  BY <1>1, <1>2

\* The sizes of a set of passages, in these terms.
LEMMA InPassages ==
  ASSUME NEW spans
  PROVE  /\ X!Joined(spans) = IF spans = {} THEN 0 ELSE Cardinality(spans) - 1
         /\ X!Size(spans) = Cardinality(X!Places(spans)) + Joiner * X!Joined(spans)
<1>1. X!Joined(spans) = IF spans = {} THEN 0 ELSE X!Cardinality(spans) - 1
  BY DEF X!Joined
<1>2. X!Size(spans) = X!Cardinality(X!Places(spans)) + Joiner * X!Joined(spans)
  BY DEF X!Size
<1>3. X!Cardinality(spans) = Cardinality(spans) /\ X!Cardinality(X!Places(spans)) = Cardinality(X!Places(spans))
  BY ExcerptCount
<1> QED
  BY <1>1, <1>2, <1>3

\* A set of numbers has a least one, one with a bound a greatest one.
Less == {pair \in Nat \X Nat : pair[1] < pair[2]}
LEMMA LeastOf ==
  ASSUME NEW set \in SUBSET Nat, set # {}
  PROVE  \E m \in set : \A x \in set : m <= x
<1>1. IsWellFoundedOn(Less, Nat)
  BY NatLessThanWellFounded DEF OpToRel, Less
<1>2. PICK m \in set : \A x \in set : ~(<<x, m>> \in Less)
  BY <1>1, WFMin
<1>3. \A x \in set : ~(x < m)
  BY <1>2 DEF Less
<1> QED
  BY <1>3

LEMMA GreatestOf ==
  ASSUME NEW n \in Nat, NEW set \in SUBSET (0..n), set # {}
  PROVE  \E m \in set : \A x \in set : x <= m
<1> DEFINE T == {n - x : x \in set}
<1>1. T \in SUBSET Nat /\ T # {}
  <2>1. \A x \in set : n - x \in Nat
    OBVIOUS
  <2> QED
    BY <2>1
<1>2. PICK m \in T : \A x \in T : m <= x
  BY <1>1, LeastOf
<1>3. PICK k \in set : m = n - k
  BY <1>2
<1>4. \A x \in set : n - k <= n - x
  BY <1>2, <1>3
<1> QED
  BY <1>4

-----------------------------------------------------------------------------
(* Passages.                                                                *)

\* The text at hand and the numbers of its prompt.
Text ==
  /\ length \in Nat /\ length > 0 /\ length <= MaxLength /\ keywords \subseteq 0..(length - 1)
  /\ budget \in Budgets /\ budget \in Nat /\ Appendix[budget] \in Nat /\ Appendix[budget] > 0
  /\ budget > Appendix[budget] + Joiner /\ {Window, Intro, Joiner, MaxLength} \subseteq Nat \ {0}

\* A set of spans is finite, so are its places, and its size is a number.
LEMMA Sizes ==
  ASSUME Text, NEW spans \in SUBSET X!Spans
  PROVE  /\ IsFiniteSet(spans) /\ Cardinality(spans) \in Nat
         /\ IsFiniteSet(X!Places(spans)) /\ X!Joined(spans) \in Nat /\ X!Size(spans) \in Nat
<1>1. MaxLength \in Nat
  BY DEF Text
<1>2. IsFiniteSet(0..MaxLength) /\ IsFiniteSet(1..MaxLength)
  BY <1>1, FS_Interval
<1>3. IsFiniteSet(X!Spans)
  BY <1>2, FS_Product DEF X!Spans
<1>4. IsFiniteSet(spans) /\ Cardinality(spans) \in Nat
  BY <1>3, FS_Subset, FS_CardinalityType
<1>5. X!Places(spans) \subseteq 0..MaxLength
  BY <1>1 DEF X!Places, X!Spans
<1>6. IsFiniteSet(X!Places(spans)) /\ Cardinality(X!Places(spans)) \in Nat
  BY <1>2, <1>5, FS_Subset, FS_CardinalityType
<1>7. X!Joined(spans) \in Nat
  <2>1. spans # {} => Cardinality(spans) # 0
    BY <1>4, FS_EmptySet
  <2> QED
    BY <1>4, <2>1, InPassages
<1>8. Joiner \in Nat
  BY DEF Text
<1>9. Joiner * X!Joined(spans) \in Nat
  BY <1>7, <1>8
<1>10. X!Size(spans) \in Nat
  BY <1>6, <1>9, InPassages
<1> QED
  BY <1>4, <1>6, <1>7, <1>10

\* The passages of a radius lie in the text.
LEMMA MergesAreSpans == ASSUME Text, NEW r PROVE X!Merge(r) \in SUBSET X!Spans
BY DEF X!Merge, X!Spans, Text

\* Every place near a keyword is in a passage.
LEMMA NearIsCovered ==
  ASSUME Text, NEW r \in Nat, NEW p, X!Near(p, r)
  PROVE  \E s \in X!Merge(r) : s[1] <= p /\ p < s[2]
<1>1. p \in 0..(length - 1) /\ length \in Nat
  BY DEF X!Near, Text
<1> DEFINE Starts == {a \in 0..p : \A q \in a..p : X!Near(q, r)}
           Ends == {b \in 0..(length - 1) : b >= p /\ \A q \in p..b : X!Near(q, r)}
<1>2. p \in Starts /\ p \in Ends
  BY <1>1
<1>3. Starts \in SUBSET Nat /\ Ends \in SUBSET (0..(length - 1)) /\ length - 1 \in Nat
  BY <1>1
<1>4. PICK a \in Starts : \A x \in Starts : a <= x
  BY <1>2, <1>3, LeastOf
<1>5. PICK b \in Ends : \A x \in Ends : x <= b
  BY <1>2, <1>3, GreatestOf
<1>6. a \in 0..p /\ b \in p..(length - 1) /\ \A q \in a..b : X!Near(q, r)
  BY <1>1, <1>4, <1>5
<1>7. ~X!Near(a - 1, r)
  <2> SUFFICES ASSUME X!Near(a - 1, r) PROVE FALSE
    OBVIOUS
  <2>1. a - 1 \in 0..p
    BY <1>1, <1>6 DEF X!Near
  <2>2. a - 1 \in Starts
    BY <1>6, <2>1
  <2> QED
    BY <1>4, <1>6, <2>2
<1>8. ~X!Near(b + 1, r)
  <2> SUFFICES ASSUME X!Near(b + 1, r) PROVE FALSE
    OBVIOUS
  <2>1. b + 1 \in 0..(length - 1)
    BY DEF X!Near
  <2>2. b + 1 \in Ends
    BY <1>1, <1>6, <2>1
  <2> QED
    BY <1>5, <1>6, <2>2
<1>9. <<a, b + 1>> \in X!Merge(r)
  <2>1. <<a, b + 1>> \in (0..(length - 1)) \X (1..length) /\ a < b + 1
    BY <1>1, <1>6
  <2>2. \A q \in a..(b + 1 - 1) : X!Near(q, r)
    BY <1>1, <1>6
  <2> QED
    BY <2>1, <2>2, <1>7, <1>8 DEF X!Merge
<1> QED
  BY <1>1, <1>6, <1>9

\* The last keyword, and the last passage of the bare words, which has it.
LEMMA TheLast ==
  ASSUME Text, keywords # {}
  PROVE  /\ X!Max(keywords) \in keywords /\ X!Max(keywords) \in 0..(length - 1)
         /\ \A k \in keywords : k <= X!Max(keywords)
<1>1. length - 1 \in Nat /\ keywords \in SUBSET (0..(length - 1))
  BY DEF Text
<1>2. PICK m \in keywords : \A k \in keywords : k <= m
  BY <1>1, GreatestOf
<1>3. \A k \in keywords : m >= k
  BY <1>1, <1>2
<1>4. X!Max(keywords) \in keywords /\ \A k \in keywords : X!Max(keywords) >= k
  BY <1>2, <1>3 DEF X!Max
<1> QED
  BY <1>1, <1>4

LEMMA Words == ASSUME Text PROVE \A p : X!Near(p, 0) <=> p \in keywords
<1>1. length \in Nat /\ keywords \subseteq 0..(length - 1)
  BY DEF Text
<1>2. ASSUME NEW p, X!Near(p, 0) PROVE p \in keywords
  <2>1. PICK k \in keywords : p \in (k - 0)..(k + 0)
    BY <1>2 DEF X!Near
  <2>2. p = k
    BY <1>1, <2>1
  <2> QED
    BY <2>2
<1>3. ASSUME NEW p \in keywords PROVE X!Near(p, 0)
  <2>1. p \in 0..(length - 1) /\ p \in (p - 0)..(p + 0)
    BY <1>1
  <2> QED
    BY <2>1 DEF X!Near
<1> QED
  BY <1>2, <1>3

LEMMA LastPassage ==
  ASSUME Text, keywords # {}, NEW spans, spans = X!Merge(0)
  PROVE  /\ X!LastOf(spans) \in spans
         /\ X!LastOf(spans)[1] <= X!Max(keywords) /\ X!Max(keywords) < X!LastOf(spans)[2]
<1> DEFINE k == X!Max(keywords)
           l == X!LastOf(spans)
<1>1. k \in keywords /\ k \in 0..(length - 1) /\ \A j \in keywords : j <= k
  BY TheLast
<1>2. length \in Nat /\ keywords \subseteq 0..(length - 1)
  BY DEF Text
<1>3. \A p : X!Near(p, 0) <=> p \in keywords
  BY Words
<1>4. PICK s \in spans : s[1] <= k /\ k < s[2]
  BY <1>1, <1>3, NearIsCovered
<1>5. \A x \in spans : /\ x[1] \in 0..(length - 1) /\ x[2] \in 1..length /\ x[1] < x[2]
                        /\ \A p \in x[1]..(x[2] - 1) : p \in keywords
                        /\ x[1] - 1 \notin keywords /\ x[2] \notin keywords
  BY <1>3 DEF X!Merge
<1>6. l \in spans /\ \A x \in spans : x[1] <= l[1]
  <2> DEFINE starts == {x[1] : x \in spans}
  <2>1. starts \in SUBSET (0..(length - 1)) /\ length - 1 \in Nat /\ starts # {}
    BY <1>2, <1>4, <1>5
  <2>2. PICK m \in starts : \A y \in starts : y <= m
    BY <2>1, GreatestOf
  <2>3. PICK z \in spans : m = z[1]
    BY <2>2
  <2>4. \A x \in spans : x[1] <= z[1]
    BY <2>2, <2>3
  <2> QED
    BY <2>4 DEF X!LastOf
<1> HIDE DEF k, l
<1>7. l[1] <= k
  BY <1>1, <1>5, <1>6
<1>8. k < l[2]
  <2> SUFFICES ASSUME l[2] <= k PROVE FALSE
    BY <1>1, <1>5, <1>6
  <2>1. s[1] <= l[1]
    BY <1>4, <1>6
  <2>2. l[2] \in s[1]..(s[2] - 1)
    BY <1>1, <1>4, <1>5, <1>6, <2>1
  <2> QED
    BY <1>4, <1>5, <1>6, <2>2
<1> QED
  BY <1>6, <1>7, <1>8 DEF k, l

\* The words themselves are at most as many passages as the text has places.
LEMMA FewWords == ASSUME Text, NEW spans, spans = X!Merge(0) PROVE Cardinality(spans) <= length
<1>1. length \in Nat /\ keywords \subseteq 0..(length - 1)
  BY DEF Text
<1>2. \A p : X!Near(p, 0) <=> p \in keywords
  BY Words
<1>3. \A x \in spans : /\ x[1] \in 0..(length - 1) /\ x[2] \in 1..length /\ x[1] < x[2]
                        /\ \A p \in x[1]..(x[2] - 1) : p \in keywords
                        /\ x[1] - 1 \notin keywords /\ x[2] \notin keywords
                        /\ x = <<x[1], x[2]>>
  BY <1>2 DEF X!Merge
<1> DEFINE f == [x \in spans |-> x[2]]
<1>4. \A x, y \in spans : x[2] = y[2] => x = y
  <2> SUFFICES ASSUME NEW x \in spans, NEW y \in spans, x[2] = y[2], x[1] < y[1] PROVE FALSE
    BY <1>3
  <2>1. y[1] - 1 \in x[1]..(x[2] - 1)
    BY <1>3
  <2> QED
    BY <1>3, <2>1
<1>5. f \in Injection(spans, 1..length)
  BY <1>3, <1>4 DEF Injection, IsInjective
<1>6. IsFiniteSet(1..length) /\ Cardinality(1..length) = length
  BY <1>1, FS_Interval
<1> QED
  BY <1>5, <1>6, FS_Injection

-----------------------------------------------------------------------------
(* The invariant.                                                           *)

\* A passage that fits, with the last word unless its passage is cut.
Ready ==
  at = "prompt" =>
    /\ keywords # {} /\ length > budget
    /\ passages # {} /\ X!Size(passages) <= Appendix[budget]
    /\ X!LastRun <= Appendix[budget] => X!Max(keywords) \in X!Places(passages)

PromptInv ==
  /\ Text /\ at \in {"shrink", "prompt", "done"}
  /\ radius \in 0..Window /\ step \in 1..MaxLength /\ passages \in SUBSET X!Spans
  /\ shown.body \in 0..budget /\ shown.excerpt \in SUBSET X!Spans
  /\ at = "shrink" /\ radius < Window => length > budget /\ keywords # {}
  /\ Ready /\ X!LateSentenceIsShown

LEMMA PromptInit == ASSUME X!ExcerptAssumption PROVE X!Init => PromptInv
<1> SUFFICES ASSUME X!Init PROVE PromptInv
  OBVIOUS
<1>1. Text
  <2>1. /\ MaxLength \in Nat /\ length \in 1..MaxLength /\ keywords \subseteq 0..(length - 1)
        /\ budget \in Budgets /\ Budgets \subseteq 1..MaxLength
        /\ Appendix[budget] \in 1..budget /\ budget > Appendix[budget] + Joiner
        /\ {Window, Intro, Joiner, MaxLength} \subseteq Nat \ {0}
    BY DEF X!Init, X!ExcerptAssumption
  <2>2. budget \in Nat /\ length \in Nat /\ length > 0 /\ length <= MaxLength
    BY <2>1
  <2>3. Appendix[budget] \in Nat /\ Appendix[budget] > 0
    BY <2>1, <2>2
  <2> QED
    BY <2>1, <2>2, <2>3 DEF Text
<1>2. shown.body = 0 /\ shown.excerpt = {} /\ at = "shrink" /\ radius = Window /\ step = 1 /\ passages = {}
  BY DEF X!Init
<1> QED
  BY <1>1, <1>2 DEF PromptInv, Text, Ready, X!LateSentenceIsShown

\* A step leaves the text alone.
LEMMA TextStays ==
  ASSUME PromptInv, UNCHANGED <<length, keywords, budget>>
  PROVE  /\ Text' /\ X!Max(keywords)' = X!Max(keywords) /\ X!LastRun' = X!LastRun
         /\ Appendix[budget]' = Appendix[budget]
BY DEF PromptInv, Text, X!Max, X!LastRun, X!Merge, X!Near, X!LastOf

LEMMA WholeKeeps == ASSUME PromptInv, X!Whole PROVE PromptInv'
<1>1. /\ length <= budget \/ keywords = {}
      /\ shown' = [body |-> X!Lower(length, budget), excerpt |-> {}]
      /\ at' = "done" /\ UNCHANGED <<length, keywords, budget, radius, step, passages>>
  BY DEF X!Whole
<1>2. length \in Nat /\ length > 0 /\ budget \in Nat
  BY DEF PromptInv, Text
<1>3. shown'.body = X!Lower(length, budget) /\ shown'.excerpt = {} /\ X!Lower(length, budget) \in 0..budget
  BY <1>1, <1>2 DEF X!Lower
<1>4. X!LateSentenceIsShown'
  <2>1. X!ShownLength' <= budget'
    BY <1>1, <1>2, <1>3 DEF X!ShownLength
  <2>2. keywords # {} => X!Max(keywords) \in 0..(shown'.body - 1)
    BY <1>1, <1>2, <1>3, TheLast DEF PromptInv, X!Lower
  <2> QED
    BY <1>1, <2>1, <2>2, TextStays DEF X!LateSentenceIsShown
<1> QED
  BY <1>1, <1>3, <1>4, TextStays DEF PromptInv, Ready

\* Passages that fit and have the last word are ready.
LEMMA ExcerptedKeeps ==
  ASSUME PromptInv, NEW spans \in SUBSET X!Spans, X!Excerpted(spans), keywords # {}, length > budget,
         UNCHANGED <<length, keywords, budget, shown>>, spans # {}, X!Fits(spans),
         X!LastRun <= Appendix[budget] => X!Max(keywords) \in X!Places(spans)
  PROVE  PromptInv'
<1>1. passages' = spans /\ at' = "prompt" /\ UNCHANGED <<radius, step>>
  BY DEF X!Excerpted
<1>2. X!Places(passages)' = X!Places(spans) /\ X!Size(passages)' = X!Size(spans)
  BY <1>1 DEF X!Places, X!Size, X!Joined
<1>3. Ready'
  BY <1>1, <1>2, TextStays DEF Ready, X!Fits
<1>4. X!LateSentenceIsShown'
  BY <1>1 DEF X!LateSentenceIsShown
<1> QED
  BY <1>1, <1>3, <1>4, TextStays DEF PromptInv

\* The passages of a radius, with the beginning, have every keyword.
LEMMA Introduced ==
  ASSUME Text, keywords # {}, NEW r \in Nat, NEW spans, spans = X!WithIntro(X!Merge(r))
  PROVE  spans \in SUBSET X!Spans /\ spans # {} /\ X!Max(keywords) \in X!Places(spans)
<1> DEFINE k == X!Max(keywords)
           runs == X!Merge(r)
           starts == {s[1] : s \in runs}
<1>1. k \in keywords /\ k \in 0..(length - 1) /\ length \in Nat /\ length <= MaxLength /\ MaxLength \in Nat
      /\ Intro \in Nat /\ Intro > 0
  BY TheLast DEF Text
<1>2. X!Near(k, r)
  <2>1. k \in (k - r)..(k + r)
    BY <1>1
  <2> QED
    BY <1>1, <2>1 DEF X!Near
<1>3. PICK s \in runs : s[1] <= k /\ k < s[2]
  BY <1>2, NearIsCovered
<1>4. \A x \in runs : x[1] \in 0..(length - 1) /\ x[2] \in 1..length
  BY DEF X!Merge
<1>5. runs \in SUBSET X!Spans
  BY MergesAreSpans
<1>6. starts \in SUBSET Nat /\ starts # {}
  BY <1>3, <1>4
<1>7. X!Min(starts) \in 0..(length - 1)
  <2>1. PICK m \in starts : \A x \in starts : m <= x
    BY <1>6, LeastOf
  <2>2. X!Min(starts) \in starts
    BY <2>1 DEF X!Min
  <2> QED
    BY <1>4, <2>2
<1> DEFINE first == X!Min(starts)
<1>8. first > 0 => <<0, X!Lower(Intro, first)>> \in X!Spans
  <2> SUFFICES ASSUME first > 0 PROVE X!Lower(Intro, first) \in 1..MaxLength /\ 0 \in 0..MaxLength
    BY DEF X!Spans
  <2> QED
    BY <1>1, <1>7 DEF X!Lower
<1>9. spans = IF first > 0 THEN runs \cup {<<0, X!Lower(Intro, first)>>} ELSE runs
  BY DEF X!WithIntro
<1> HIDE DEF first, runs, k
<1>10. runs \subseteq spans /\ spans \in SUBSET X!Spans
  BY <1>5, <1>8, <1>9
<1>11. k \in s[1]..(s[2] - 1)
  BY <1>1, <1>3, <1>5 DEF X!Spans
<1>12. k \in X!Places(spans)
  BY <1>3, <1>10, <1>11 DEF X!Places
<1> QED
  BY <1>3, <1>10, <1>12 DEF k

LEMMA ShrinkKeeps == ASSUME PromptInv, X!Shrink PROVE PromptInv'
<1>1. /\ at = "shrink" /\ length > budget /\ keywords # {} /\ radius > 0
      /\ UNCHANGED <<length, keywords, budget, shown>>
  BY DEF X!Shrink
<1> DEFINE spans == X!WithIntro(X!Merge(radius))
<1>2. Text /\ radius \in Nat
  BY DEF PromptInv, Text
<1>3. spans \in SUBSET X!Spans /\ spans # {} /\ X!Max(keywords) \in X!Places(spans)
  BY <1>1, <1>2, Introduced
<1>4. \/ X!Fits(spans) /\ X!Excerpted(spans)
      \/ ~X!Fits(spans) /\ radius' = radius \div 2 /\ UNCHANGED <<step, passages, at>>
  BY DEF X!Shrink
<1> HIDE DEF spans
<1>5. CASE X!Fits(spans) /\ X!Excerpted(spans)
  BY <1>1, <1>3, <1>5, ExcerptedKeeps
<1>6. CASE radius' = radius \div 2 /\ UNCHANGED <<step, passages, at>>
  <2>1. radius' \in 0..Window
    BY <1>2, <1>6 DEF PromptInv, Text
  <2> QED
    BY <1>1, <1>6, <2>1, TextStays DEF PromptInv, Ready, X!LateSentenceIsShown
<1> QED
  BY <1>4, <1>5, <1>6

\* A part of the words with their last passage, or the beginning of that one.
LEMMA ThinKeeps == ASSUME PromptInv, X!Thin PROVE PromptInv'
<1>1. /\ at = "shrink" /\ radius = 0 /\ UNCHANGED <<length, keywords, budget, shown>>
  BY DEF X!Thin
<1> DEFINE spans == X!Merge(0)
           picked == X!Strided(spans, step)
           last == X!LastOf(spans)
           k == X!Max(keywords)
<1>2. Text /\ length > budget /\ keywords # {} /\ Window > 0
  BY <1>1 DEF PromptInv, Text
<1>3. last \in spans /\ last[1] <= k /\ k < last[2]
  BY <1>2, LastPassage
<1>4. k \in 0..(length - 1) /\ length \in Nat /\ MaxLength \in Nat /\ length <= MaxLength
  BY <1>2, TheLast DEF Text
<1>5. last[1] \in 0..MaxLength /\ last[2] \in 1..MaxLength /\ last = <<last[1], last[2]>>
      /\ last[1] < last[2] /\ spans \in SUBSET X!Spans
  <2>1. spans \in SUBSET X!Spans
    BY <1>2, MergesAreSpans
  <2> QED
    BY <1>3, <2>1, SMTT(60) DEF X!Merge, X!Spans
<1>6. picked \subseteq spans /\ last \in picked
  BY <1>3 DEF X!Strided
<1>7. Appendix[budget] \in Nat /\ Appendix[budget] > 0 /\ X!LastRun = last[2] - last[1]
  BY <1>2 DEF Text, X!LastRun
<1>8. \/ X!Fits(picked) /\ X!Excerpted(picked)
      \/ ~X!Fits(picked) /\ step < Cardinality(spans) /\ step' = step + 1 /\ UNCHANGED <<radius, passages, at>>
      \/ ~X!Fits(picked) /\ step = Cardinality(spans) /\ X!Excerpted(X!Prefix(last, Appendix[budget]))
  <2>1. \/ X!Fits(picked) /\ X!Excerpted(picked)
        \/ ~X!Fits(picked) /\ step < X!Cardinality(spans) /\ step' = step + 1 /\ UNCHANGED <<radius, passages, at>>
        \/ ~X!Fits(picked) /\ step = X!Cardinality(spans) /\ X!Excerpted(X!Prefix(last, Appendix[budget]))
    BY DEF X!Thin
  <2>2. X!Cardinality(spans) = Cardinality(spans)
    BY ExcerptCount
  <2> QED
    BY <2>1, <2>2
<1>9. Cardinality(spans) \in Nat /\ Cardinality(spans) <= length
  BY <1>2, <1>5, Sizes, FewWords
<1> HIDE DEF spans, picked, last, k
<1>10. CASE X!Fits(picked) /\ X!Excerpted(picked)
  <2>1. k \in last[1]..(last[2] - 1)
    BY <1>3, <1>4, <1>5
  <2>2. k \in X!Places(picked)
    BY <1>6, <2>1 DEF X!Places
  <2>3. picked \in SUBSET X!Spans /\ picked # {}
    BY <1>5, <1>6
  <2> QED
    BY <1>1, <1>2, <1>10, <2>2, <2>3, ExcerptedKeeps DEF k
<1>11. CASE step < Cardinality(spans) /\ step' = step + 1 /\ UNCHANGED <<radius, passages, at>>
  <2>1. step' \in 1..MaxLength
    BY <1>4, <1>9, <1>11 DEF PromptInv
  <2> QED
    BY <1>1, <1>11, <2>1, TextStays DEF PromptInv, Ready, X!LateSentenceIsShown
<1>12. CASE X!Excerpted(X!Prefix(last, Appendix[budget]))
  <2> DEFINE upto == X!Lower(last[2], last[1] + Appendix[budget])
             piece == <<last[1], upto>>
  <2>1. upto \in 1..MaxLength /\ last[1] < upto /\ upto - last[1] <= Appendix[budget]
        /\ (X!LastRun <= Appendix[budget] => upto = last[2])
    BY <1>4, <1>5, <1>7 DEF X!Lower
  <2> HIDE DEF upto
  <2>2. X!Prefix(last, Appendix[budget]) = {piece}
    BY DEF X!Prefix, upto
  <2>3. piece \in X!Spans /\ {piece} \in SUBSET X!Spans /\ {piece} # {}
    BY <1>5, <2>1 DEF X!Spans
  <2>4. X!Places({piece}) = last[1]..(upto - 1)
    BY DEF X!Places
  <2>5. X!Size({piece}) = upto - last[1]
    <3>1. Cardinality(last[1]..(upto - 1)) = upto - last[1]
      <4>1. last[1] \in Int /\ upto - 1 \in Int /\ ~(last[1] > upto - 1) /\ upto - 1 - last[1] + 1 = upto - last[1]
        BY <1>5, <2>1
      <4> QED
        BY <4>1, FS_Interval
    <3>2. X!Joined({piece}) = 0
      <4>1. Cardinality({piece}) = 1
        BY FS_Singleton
      <4>2. X!Joined({piece}) = IF {piece} = {} THEN 0 ELSE Cardinality({piece}) - 1
        BY InPassages
      <4> HIDE DEF piece
      <4> QED
        BY <4>1, <4>2
    <3>3. Joiner \in Nat
      BY <1>2 DEF Text
    <3> QED
      BY <1>5, <2>1, <2>4, <3>1, <3>2, <3>3, InPassages
  <2>6. X!Fits({piece})
    BY <2>1, <2>5 DEF X!Fits
  <2>7. X!LastRun <= Appendix[budget] => k \in X!Places({piece})
    BY <1>3, <1>4, <1>5, <2>1, <2>4
  <2> QED
    BY <1>1, <1>2, <1>12, <2>2, <2>3, <2>6, <2>7, ExcerptedKeeps DEF k
<1> QED
  BY <1>8, <1>10, <1>11, <1>12

\* The body and the passages fit, and one of them has the last word.
LEMMA PromptKeeps == ASSUME PromptInv, X!Prompt PROVE PromptInv'
<1>1. /\ at = "prompt" /\ shown' = X!Body(passages) /\ at' = "done"
      /\ UNCHANGED <<length, keywords, budget, radius, step, passages>>
  BY DEF X!Prompt
<1> DEFINE k == X!Max(keywords)
           size == X!Size(passages)
           most == Appendix[budget]
<1>2. /\ Text /\ keywords # {} /\ length > budget /\ passages # {} /\ size <= most
      /\ X!LastRun <= most => k \in X!Places(passages)
      /\ passages \in SUBSET X!Spans
  BY <1>1 DEF PromptInv, Ready
<1>3. IsFiniteSet(passages) /\ size \in Nat /\ most \in Nat /\ budget \in Nat /\ Joiner \in Nat
      /\ budget > most + Joiner
  BY <1>2, Sizes DEF Text
<1>4. k \in Nat
  BY <1>2, TheLast DEF Text
<1> HIDE DEF k, size, most
<1>5. CASE Cardinality(passages) = 1 /\ X!LastOf(passages)[2] <= budget
  <2>1. PICK e : passages = {e}
    BY <1>3, <1>5, FS_Singleton
  <2>2. X!LastOf(passages) = e
    <3>1. e[1] \in Int
      BY <1>2, <2>1 DEF X!Spans, Text
    <3> QED
      BY <2>1, <3>1 DEF X!LastOf
  <2>3. shown'.body = budget /\ shown'.excerpt = {}
    <3>1. X!Cardinality(passages) = 1
      BY <1>5, ExcerptCount
    <3> QED
      BY <1>1, <1>5, <3>1 DEF X!Body
  <2>4. k \in X!Places(passages) => k \in 0..(budget - 1)
    <3>1. X!Places(passages) = e[1]..(e[2] - 1)
      BY <2>1 DEF X!Places
    <3>2. e[1] \in Nat /\ e[2] \in Nat
      BY <1>2, <2>1 DEF X!Spans, Text
    <3> QED
      BY <1>3, <1>4, <1>5, <2>2, <3>1, <3>2
  <2>5. X!ShownLength' = budget
    BY <1>3, <2>3 DEF X!ShownLength
  <2>6. keywords # {} /\ (length <= budget \/ X!LastRun <= Appendix[budget]) =>
          X!Max(keywords) \in 0..(shown'.body - 1) \cup X!Places(shown'.excerpt)
    <3>1. ~(length <= budget)
      BY <1>2, <1>3 DEF Text
    <3> QED
      BY <1>2, <2>3, <2>4, <3>1 DEF k, most
  <2>7. X!LateSentenceIsShown'
    <3>1. X!ShownLength' <= budget'
      BY <1>1, <1>3, <2>5
    <3> QED
      BY <1>1, <2>6, <3>1, TextStays DEF X!LateSentenceIsShown
  <2> QED
    BY <1>1, <1>3, <2>3, <2>7, TextStays DEF PromptInv, Ready
<1>6. CASE ~(Cardinality(passages) = 1 /\ X!LastOf(passages)[2] <= budget)
  <2>1. shown'.body = budget - Joiner - size /\ shown'.excerpt = passages
    <3>1. ~(X!Cardinality(passages) = 1 /\ X!LastOf(passages)[2] <= budget)
      BY <1>6, ExcerptCount
    <3> QED
      BY <1>1, <3>1 DEF X!Body, size
  <2>2. shown'.body \in 0..budget
    BY <1>2, <1>3, <2>1
  <2>3. X!Size(shown'.excerpt) = size /\ Joiner' = Joiner
    BY <2>1 DEF size
  <2>4. X!ShownLength' = budget
    <3>1. X!ShownLength' = budget - Joiner - size + (Joiner + size)
      BY <1>2, <2>1, <2>3 DEF X!ShownLength, X!Size, X!Places, X!Joined
    <3> QED
      BY <1>3, <3>1
  <2>5. X!LateSentenceIsShown'
    <3>1. X!ShownLength' <= budget'
      BY <1>1, <1>3, <2>4
    <3>2. ~(length <= budget) /\ X!Places(shown'.excerpt) = X!Places(passages)
      BY <1>2, <1>3, <2>1 DEF Text
    <3>3. keywords # {} /\ (length <= budget \/ X!LastRun <= Appendix[budget]) =>
            X!Max(keywords) \in 0..(shown'.body - 1) \cup X!Places(shown'.excerpt)
      BY <1>2, <3>2 DEF k, most
    <3> QED
      BY <1>1, <3>1, <3>3, TextStays DEF X!LateSentenceIsShown
  <2> QED
    BY <1>1, <1>2, <2>1, <2>2, <2>5, TextStays DEF PromptInv, Ready
<1> QED
  BY <1>5, <1>6

LEMMA PromptInvariance == ASSUME X!ExcerptAssumption PROVE X!Spec => []PromptInv
<1>1. X!Init => PromptInv
  BY PromptInit
<1>2. PromptInv /\ [X!Next]_(X!vars) => PromptInv'
  <2> SUFFICES ASSUME PromptInv, [X!Next]_(X!vars) PROVE PromptInv'
    OBVIOUS
  <2>1. CASE UNCHANGED X!vars
    BY <2>1, TextStays DEF X!vars, PromptInv, Ready, X!LateSentenceIsShown, X!ShownLength, X!Size, X!Places, X!Joined
  <2> QED
    BY <2>1, WholeKeeps, ShrinkKeeps, ThinKeeps, PromptKeeps DEF X!Next
<1> QED
  BY <1>1, <1>2, PTL DEF X!Spec

\* Whatever the length of a text and the places of its keywords, its prompt fits the budget and has
\* the last keyword, unless that is among words that touch and are together longer than what the
\* passages may take (_description_for_prompt).
THEOREM LastWordIsShown == ASSUME X!ExcerptAssumption PROVE X!Spec => []X!LateSentenceIsShown
<1>1. PromptInv => X!LateSentenceIsShown
  BY DEF PromptInv
<1> QED
  BY <1>1, PromptInvariance, PTL

\* The variables of a prompt keep their types (_description_for_prompt, _merge_anchors).
THEOREM PromptTypes == ASSUME X!ExcerptAssumption PROVE X!Spec => []X!TypeOK
<1>1. PromptInv => X!TypeOK
  BY DEF PromptInv, Text, X!TypeOK
<1> QED
  BY <1>1, PromptInvariance, PTL
==============================================================================
