---------------------------- MODULE SourceProofs ----------------------------
(***************************************************************************)
(* What TLAPS proves of the services that collect postings day by day: the *)
(* walk of a slice loses no posting on its way to complete (SourceWalk),   *)
(* every day of a source is walked and its errors are seen (SourceDay), a  *)
(* service is alone with its lock and its alerts are spaced (Watch).       *)
(***************************************************************************)
EXTENDS SourceWalk, FiniteSetTheorems, TLAPS

\* Where the walk in progress is, or where the next one begins.
Place == IF walk.on THEN walk.offset ELSE slice.resume

Live == Ids \ gone

\* Postings the store should have and does not.
Open == Live \ (stored \union excused \union Skipped)

\* A complete walk owes the store what there was when it began at the top.
Owed(p) == p <= top.listed

\* Nothing the store holds was posted before p.
NoneBefore(p) == \A q \in stored \ gone : q <= p

Walks ==
  [on : BOOLEAN, started : Nat, window : Nat, offset : Nat, pages : Nat, streak : Nat,
   attempts : Nat, throttles : Nat, budget : Int]

Shapes ==
  /\ posts \in Seq(Nat) /\ clock \in Nat /\ clock <= MaxTime
  /\ gone \subseteq Ids /\ stored \subseteq Ids
  /\ top \in [listed : Nat, at : Nat] /\ covered \in Nat
  /\ slice.last \in Never..clock /\ slice.resume \in Nat
  /\ walk \in Walks
  /\ news \in Nat

\* Postings are listed by the time they appeared, the newest first.
Sorted ==
  /\ \A p \in Ids : posts[p] <= clock
  /\ \A p, q \in Ids : p <= q => posts[p] <= posts[q]

\* The window of a walk reaches back beyond the last complete one.
Reaches ==
  walk.on =>
    /\ clock <= walk.started + 1
    /\ slice.last = Never => walk.window = FirstPull
    /\ slice.last # Never => walk.window > walk.started - slice.last - DayLength + Slack

\* What a place is worth: pages were read to get there.
Places ==
  /\ walk.on => slice.last <= walk.started /\ walk.started <= clock
  /\ walk.on /\ walk.pages = 0 => walk.offset = slice.resume /\ walk.streak = 0
  /\ ~walk.on => walk.streak = 0
  /\ Place > 0 => Place >= PageSize
  /\ slice.resume > 0 => slice.resume >= PageSize /\ slice.stop \in Unfinished
  /\ news <= Burst

\* What appeared since the walk began at the top is as young as the walk.
Tops ==
  /\ top.at <= clock /\ top.listed <= Len(posts)
  /\ \A p \in Ids : ~Owed(p) => posts[p] >= top.at
  /\ walk.on \/ slice.resume > 0 => clock <= top.at + MaxPause

GoneIsExcused == gone \subseteq excused

\* At the top of the list nothing was stored before an open posting.
AtTheTop ==
  Place = 0 => \A p \in Open :
    /\ NoneBefore(p)
    /\ walk.on /\ ~Owed(p) => Rank(p, Live) <= news

\* Further down, an open posting is one the walk has yet to reach, and what is stored before it
\* is above the walk's place, or one that appeared since the walk began.
FurtherDown ==
  Place > 0 => \A p \in Open :
    IF Owed(p)
    THEN /\ Rank(p, Live) > Place
         /\ \A q \in stored \ gone : q > p =>
              Rank(q, Live) <= Place + news - (IF walk.streak > 0 THEN PageSize ELSE 0)
    ELSE NoneBefore(p) /\ Rank(p, Live) <= news

IInv ==
  /\ Shapes /\ Sorted /\ Reaches /\ Places /\ Tops /\ GoneIsExcused /\ AtTheTop /\ FurtherDown
  /\ CompleteMeansStored /\ WindowHasTheRest

-----------------------------------------------------------------------------
(* Ranks and pages.                                                        *)

LEMMA Sizes ==
  ASSUME SourceWalkAssumption
  PROVE  /\ PageSize \in Nat /\ PageSize > 0 /\ KnownPages \in Nat /\ KnownPages > 0
         /\ MaxPages \in Nat /\ MaxPages > 0 /\ MaxOffset \in Nat
         /\ DayLength \in Nat /\ DayLength > 0
         /\ FirstPull \in Nat /\ Slack \in Nat /\ Slack >= DayLength /\ MaxPause \in Nat
         /\ MaxTime \in Nat /\ FirstPull > MaxTime
         /\ Retries \in Nat /\ Throttles \in Nat /\ RunBudget \in Nat
         /\ Initially \in Nat /\ MaxPosts \in Nat /\ Initially <= MaxPosts
         /\ Burst \in Nat /\ MaxUpsets \in Nat
BY DEF SourceWalkAssumption

LEMMA Interval ==
  ASSUME NEW a \in Nat, NEW n \in Nat
  PROVE  IsFiniteSet(a + 1 .. a + n) /\ Cardinality(a + 1 .. a + n) = n
<1>1. a + 1 \in Int /\ a + n \in Int
  OBVIOUS
<1>2. /\ IsFiniteSet(a + 1 .. a + n)
      /\ Cardinality(a + 1 .. a + n) = IF a + 1 > a + n THEN 0 ELSE (a + n) - (a + 1) + 1
  BY <1>1, FS_Interval
<1> QED
  BY <1>2

LEMMA RankType ==
  ASSUME NEW S, IsFiniteSet(S), NEW p
  PROVE  Rank(p, S) \in Nat /\ IsFiniteSet({q \in S : q >= p})
BY FS_Subset, FS_CardinalityType, {q \in S : q >= p} \in SUBSET S DEF Rank

\* A posting ranks behind those that came after it.
LEMMA RankFalls ==
  ASSUME NEW S \in SUBSET Nat, IsFiniteSet(S), NEW p \in S, NEW q \in S, p < q
  PROVE  Rank(q, S) < Rank(p, S)
<1> DEFINE A == {r \in S : r >= p}  B == {r \in S : r >= q}
<1>1. B \in SUBSET A /\ p \in A /\ p \notin B
  <2>1. p \in Nat /\ q \in Nat /\ \A r \in S : r \in Nat
    OBVIOUS
  <2>2. \A r \in S : r >= q => r >= p
    BY <2>1
  <2>3. A \subseteq S /\ B \subseteq S
    OBVIOUS
  <2>4. p \in A /\ p \notin B
    BY <2>1
  <2>5. \A r \in B : r \in A
    BY <2>2
  <2> QED
    BY <2>4, <2>5
<1>2. IsFiniteSet(A) /\ Cardinality(A) \in Nat /\ Cardinality(B) \in Nat
  BY RankType DEF Rank
<1> HIDE DEF A, B
<1>3. Cardinality(B) <= Cardinality(A) /\ Cardinality(B) # Cardinality(A)
  BY <1>1, <1>2, FS_Subset
<1>4. Rank(q, S) = Cardinality(B) /\ Rank(p, S) = Cardinality(A)
  BY DEF Rank, A, B
<1> QED
  BY <1>2, <1>3, <1>4

\* The first posting of the list has rank 1.
LEMMA RankFirst ==
  ASSUME NEW S \in SUBSET Nat, IsFiniteSet(S), NEW p \in S
  PROVE  Rank(p, S) >= 1
<1> DEFINE A == {r \in S : r >= p}
<1>1. p \in A
  OBVIOUS
<1>2. IsFiniteSet(A) /\ Rank(p, S) = Cardinality(A) /\ Cardinality(A) \in Nat
  BY RankType DEF Rank
<1> HIDE DEF A
<1> QED
  BY <1>1, <1>2, FS_EmptySet

\* A posting that appears pushes every other one back by one.
LEMMA RankPushed ==
  ASSUME NEW S \in SUBSET Nat, IsFiniteSet(S), NEW n \in Nat, \A q \in S : q < n, NEW p \in S
  PROVE  Rank(p, S \union {n}) = Rank(p, S) + 1
<1> DEFINE A == {r \in S : r >= p}
<1>1. {r \in S \union {n} : r >= p} = A \union {n} /\ n \notin A
  <2>1. p \in Nat /\ p < n /\ n \notin S
    OBVIOUS
  <2> QED
    BY <2>1
<1>2. IsFiniteSet(A)
  BY RankType
<1> HIDE DEF A
<1>3. Cardinality(A \union {n}) = Cardinality(A) + 1
  BY <1>1, <1>2, FS_AddElement
<1> QED
  BY <1>1, <1>3 DEF Rank, A

LEMMA RankOfTheNewest ==
  ASSUME NEW S \in SUBSET Nat, NEW n \in Nat, \A q \in S : q < n
  PROVE  Rank(n, S \union {n}) = 1
<1>1. n >= n /\ \A r \in S : ~(r >= n)
  <2>1. \A r \in S : r \in Nat
    OBVIOUS
  <2> QED
    BY <2>1
<1>2. {r \in S \union {n} : r >= n} = {n}
  BY <1>1
<1> QED
  BY <1>2, FS_Singleton DEF Rank

\* A withdrawn posting lets those behind it move up.
LEMMA RankPulled ==
  ASSUME NEW S \in SUBSET Nat, IsFiniteSet(S), NEW g \in S, NEW p \in S \ {g}
  PROVE  Rank(p, S \ {g}) = IF p < g THEN Rank(p, S) - 1 ELSE Rank(p, S)
<1> DEFINE A == {r \in S : r >= p}
<1>1. {r \in S \ {g} : r >= p} = A \ {g} /\ (g \in A <=> p < g)
  <2>1. p \in Nat /\ g \in Nat /\ p # g
    OBVIOUS
  <2>2. g \in A <=> p < g
    BY <2>1
  <2>3. {r \in S \ {g} : r >= p} = A \ {g}
    OBVIOUS
  <2> QED
    BY <2>2, <2>3
<1>2. IsFiniteSet(A)
  BY RankType
<1> HIDE DEF A
<1>3. Cardinality(A \ {g}) = IF p < g THEN Cardinality(A) - 1 ELSE Cardinality(A)
  BY <1>1, <1>2, FS_RemoveElement
<1> QED
  BY <1>1, <1>3 DEF Rank, A

\* The postings of a range of ranks: no more than the range is long.
LEMMA PageFits ==
  ASSUME SourceWalkAssumption, NEW S \in SUBSET Nat, IsFiniteSet(S), NEW a \in Nat, NEW T \in SUBSET S,
         \A p \in T : Rank(p, S) \in a + 1 .. a + PageSize
  PROVE  IsFiniteSet(T) /\ Cardinality(T) \in Nat /\ Cardinality(T) <= PageSize
<1> DEFINE f == [p \in T |-> Rank(p, S)]
<1>1. \A p, q \in T : Rank(p, S) = Rank(q, S) => p = q
  <2> SUFFICES ASSUME NEW p \in T, NEW q \in T, p < q
               PROVE  Rank(p, S) # Rank(q, S)
    OBVIOUS
  <2> QED
    BY RankFalls, RankType
<1>2. f \in Injection(T, a + 1 .. a + PageSize)
  BY <1>1 DEF Injection, IsInjective
<1>3. IsFiniteSet(a + 1 .. a + PageSize) /\ Cardinality(a + 1 .. a + PageSize) = PageSize
  BY Interval, Sizes
<1> QED
  BY <1>2, <1>3, FS_Injection, FS_CardinalityType

\* Every rank above a posting's own is somebody's.
LEMMA RanksAreTaken ==
  ASSUME NEW S \in SUBSET Nat, IsFiniteSet(S), NEW p \in S, NEW r \in 1..Rank(p, S)
  PROVE  \E q \in S : Rank(q, S) = r
<1> DEFINE U == {q \in S : q >= p}
           f == [q \in U |-> Rank(q, S)]
           k == Rank(p, S)
<1>1. k \in Nat /\ IsFiniteSet(U) /\ Cardinality(U) = k
  BY RankType DEF Rank
<1>2. \A q \in U : Rank(q, S) \in 1..k
  <2> TAKE q \in U
  <2>1. Rank(q, S) \in Nat /\ Rank(q, S) >= 1
    BY RankType, RankFirst
  <2>2. q = p \/ Rank(q, S) < k
    BY RankFalls
  <2> QED
    BY <1>1, <2>1, <2>2
<1>3. \A q, s \in U : Rank(q, S) = Rank(s, S) => q = s
  <2> SUFFICES ASSUME NEW q \in U, NEW s \in U, q < s
               PROVE  Rank(q, S) # Rank(s, S)
    OBVIOUS
  <2>1. q \in S /\ s \in S /\ Rank(q, S) \in Nat /\ Rank(s, S) \in Nat
    BY RankType
  <2>2. Rank(s, S) < Rank(q, S)
    BY <2>1, RankFalls
  <2> QED
    BY <2>1, <2>2
<1>4. f \in Injection(U, 1..k)
  BY <1>2, <1>3 DEF Injection, IsInjective
<1>5. IsFiniteSet(1..k) /\ Cardinality(1..k) = k
  BY <1>1, FS_Interval
<1>6. f \in Surjection(U, 1..k)
  BY <1>1, <1>4, <1>5, FS_Injection
<1>7. PICK q \in U : f[q] = r
  BY <1>6 DEF Surjection
<1> QED
  BY <1>7

\* A page with a posting behind it is full.
LEMMA PageIsFull ==
  ASSUME SourceWalkAssumption, NEW S \in SUBSET Nat, IsFiniteSet(S), NEW a \in Nat, NEW p \in S,
         Rank(p, S) > a + PageSize,
         NEW T \in SUBSET S, \A q \in S : Rank(q, S) \in a + 1 .. a + PageSize => q \in T,
         IsFiniteSet(T)
  PROVE  Cardinality(T) >= PageSize
<1> DEFINE I == a + 1 .. a + PageSize
           g == [r \in I |-> CHOOSE q \in S : Rank(q, S) = r]
<1>1. \A r \in I : g[r] \in T /\ Rank(g[r], S) = r
  <2> TAKE r \in I
  <2>1. r \in 1..Rank(p, S)
    <3>1. Rank(p, S) \in Nat /\ PageSize \in Nat
      BY RankType, Sizes
    <3> QED
      BY <3>1
  <2>2. \E q \in S : Rank(q, S) = r
    BY <2>1, RanksAreTaken
  <2> QED
    BY <2>2
<1>2. g \in Injection(I, T)
  <2>1. g \in [I -> T]
    BY <1>1
  <2> QED
    BY <1>1, <2>1 DEF Injection, IsInjective
<1>3. IsFiniteSet(I) /\ Cardinality(I) = PageSize
  BY Interval, Sizes
<1>4. Cardinality(T) \in Nat
  BY FS_CardinalityType
<1> QED
  BY <1>2, <1>3, <1>4, FS_Injection

-----------------------------------------------------------------------------
(* The page a walk reads, in terms of the ranks of all that is listed.     *)

LEMMA LiveIsFinite ==
  ASSUME Shapes
  PROVE  Len(posts) \in Nat /\ Live \in SUBSET Nat /\ IsFiniteSet(Live)
<1>1. Len(posts) \in Nat
  BY DEF Shapes, Walks
<1>2. IsFiniteSet(1..Len(posts)) /\ 1..Len(posts) \subseteq Nat
  BY <1>1, FS_Interval
<1>3. Live \in SUBSET (1..Len(posts))
  BY DEF Live, Ids
<1> QED
  BY <1>1, <1>2, <1>3, FS_Subset

LEMMA NoWalkShape == NoWalk \in Walks
BY DEF NoWalk, Walks

LEMMA PostDays ==
  ASSUME Shapes, NEW p \in Ids
  PROVE  posts[p] \in Nat /\ p \in Nat
BY DEF Shapes, Ids

LEMMA WindowReaches ==
  ASSUME SourceWalkAssumption, IInv, walk.on, NEW p \in Open
  PROVE  posts[p] >= clock - walk.window
<1>1. posts[p] \in Nat /\ clock \in Nat /\ clock <= MaxTime /\ slice.last \in Int /\ walk \in Walks
  BY PostDays DEF IInv, Shapes, Open, Live, Never
<1>2. walk.started \in Nat /\ walk.window \in Nat
  BY <1>1 DEF Walks
<1>3. slice.last # Never => posts[p] >= slice.last - (Slack - DayLength)
  BY DEF IInv, WindowHasTheRest, Open, Live
<1> QED
  BY <1>1, <1>2, <1>3, Sizes DEF IInv, Reaches

LEMMA PageFacts ==
  ASSUME SourceWalkAssumption, IInv, walk.on, NEW page, page = PageAt(walk.offset)
  PROVE  /\ page \subseteq Live /\ Cardinality(page) \in Nat /\ Cardinality(page) <= PageSize
         /\ \A q \in page : /\ Rank(q, Live) \in Nat
                            /\ walk.offset < Rank(q, Live)
                            /\ Rank(q, Live) <= walk.offset + PageSize
         /\ \A p \in Open : walk.offset < Rank(p, Live) /\ Rank(p, Live) <= walk.offset + PageSize
                              => p \in page
         /\ \A p \in Open : Rank(p, Live) > walk.offset + PageSize => Cardinality(page) >= PageSize
<1> DEFINE W == Listed(walk.window)
<1>1. Live \in SUBSET Nat /\ IsFiniteSet(Live) /\ walk.offset \in Nat
  BY LiveIsFinite DEF IInv, Shapes, Walks
<1>2. W \subseteq Live /\ Open \subseteq W
  <2>1. Open \subseteq Live
    BY DEF Open
  <2>2. \A p \in Open : posts[p] >= clock - walk.window
    BY WindowReaches
  <2> QED
    BY <2>1, <2>2 DEF Listed, Live
<1>3. \A p \in W : \A q \in Live : q >= p => q \in W
  <2> SUFFICES ASSUME NEW p \in W, NEW q \in Live, q >= p
               PROVE  q \in W
    OBVIOUS
  <2>1. posts[p] <= posts[q] /\ posts[p] >= clock - walk.window
    BY DEF IInv, Sorted, Listed, Live, Ids
  <2>2. posts[p] \in Nat /\ posts[q] \in Nat
    BY PostDays DEF IInv, Listed, Live
  <2>3. clock - walk.window \in Int
    <3>1. clock \in Nat /\ walk \in Walks
      BY DEF IInv, Shapes
    <3>2. walk.window \in Nat
      BY <3>1 DEF Walks
    <3> QED
      BY <3>1, <3>2
  <2> QED
    BY <2>1, <2>2, <2>3 DEF Listed, Live
<1>4. \A p \in W : Rank(p, W) = Rank(p, Live)
  <2> TAKE p \in W
  <2>1. {q \in W : q >= p} = {q \in Live : q >= p}
    BY <1>2, <1>3
  <2> QED
    BY <2>1 DEF Rank
<1>5. W \in SUBSET Nat /\ IsFiniteSet(W)
  BY <1>1, <1>2, FS_Subset
<1>6. page = {p \in W : Rank(p, W) \in walk.offset + 1 .. walk.offset + PageSize}
  BY DEF PageAt
<1> HIDE DEF W
<1>7. IsFiniteSet(page) /\ Cardinality(page) \in Nat /\ Cardinality(page) <= PageSize
  BY <1>1, <1>5, <1>6, PageFits
<1>8. \A p \in Live : Rank(p, Live) \in Nat
  BY <1>1, RankType
<1>9. page \subseteq W /\ PageSize \in Nat
  BY <1>6, Sizes
<1>10. \A q \in page : /\ Rank(q, Live) \in Nat
                       /\ walk.offset < Rank(q, Live)
                       /\ Rank(q, Live) <= walk.offset + PageSize
  BY <1>1, <1>2, <1>4, <1>6, <1>8, <1>9
<1>11. ASSUME NEW p \in Open, walk.offset < Rank(p, Live), Rank(p, Live) <= walk.offset + PageSize
       PROVE  p \in page
  <2>1. p \in W /\ Rank(p, Live) \in Nat /\ Rank(p, W) = Rank(p, Live)
    BY <1>2, <1>4, <1>8
  <2> QED
    BY <2>1, <1>1, <1>6, <1>9, <1>11
<1>12. ASSUME NEW p \in Open, Rank(p, Live) > walk.offset + PageSize
       PROVE  Cardinality(page) >= PageSize
  <2>1. p \in W /\ Rank(p, W) > walk.offset + PageSize
    BY <1>2, <1>4, <1>12
  <2>2. \A q \in W : Rank(q, W) \in walk.offset + 1 .. walk.offset + PageSize => q \in page
    BY <1>6
  <2> QED
    BY <2>1, <2>2, <1>1, <1>5, <1>7, <1>9, PageIsFull
<1> QED
  BY <1>2, <1>7, <1>9, <1>10, <1>11, <1>12

-----------------------------------------------------------------------------
(* The invariant holds at first and every step keeps it.                   *)

LEMMA WholeDaysAre ==
  ASSUME SourceWalkAssumption, NEW time \in Nat
  PROVE  WholeDays(time) \in Nat /\ WholeDays(time) <= time /\ WholeDays(time) > time - DayLength
<1>1. time % DayLength \in 0..DayLength - 1 /\ time % DayLength <= time
  BY Sizes
<1> QED
  BY <1>1, Sizes DEF WholeDays

LEMMA WindowSize ==
  ASSUME SourceWalkAssumption, Shapes
  PROVE  /\ Window \in Nat
         /\ slice.last = Never => Window = FirstPull
         /\ slice.last # Never => Window > clock - slice.last - DayLength + Slack
<1>1. /\ clock \in Nat /\ slice.last \in Int /\ slice.last <= clock
      /\ slice.last # Never => clock - slice.last \in Nat
  BY DEF Shapes, Never
<1>2. CASE slice.last = Never
  BY <1>2, Sizes DEF Window
<1>3. CASE slice.last # Never
  <2>1. /\ WholeDays(clock - slice.last) \in Nat
        /\ WholeDays(clock - slice.last) > clock - slice.last - DayLength
    BY <1>1, <1>3, WholeDaysAre
  <2>2. Window = WholeDays(clock - slice.last) + Slack
    BY <1>3 DEF Window
  <2> QED
    BY <1>1, <1>3, <2>1, <2>2, Sizes
<1> QED
  BY <1>2, <1>3

LEMMA InitHolds == ASSUME SourceWalkAssumption PROVE Init => IInv
<1> SUFFICES ASSUME Init PROVE IInv
  OBVIOUS
<1> USE DEF Init, NoWalk
<1>1. 0 \in Nat /\ Never \in Never..0 /\ Initially \in Nat /\ Burst \in Nat
  BY Sizes DEF Never
<1>2. posts = [p \in 1..Initially |-> 0] /\ Len(posts) = Initially /\ Ids = 1..Initially
  BY <1>1 DEF Ids
<1>3. Shapes
  <2>1. posts \in Seq(Nat)
    BY <1>1, <1>2
  <2>2. 0 <= MaxTime
    BY Sizes
  <2>3. gone = {} /\ stored = {} /\ covered = 0 /\ top \in [listed : Nat, at : Nat] /\ clock = 0 /\ news = 0
        /\ slice.last = Never /\ slice.resume = 0
    OBVIOUS
  <2>4. ~walk.on /\ walk.started = 0 /\ walk.window = 0 /\ walk.offset = 0 /\ walk.pages = 0
        /\ walk.streak = 0 /\ walk.on \in BOOLEAN
    OBVIOUS
  <2> QED
    BY <1>1, <2>1, <2>2, <2>3, <2>4 DEF Shapes, Walks
<1>4. Sorted
  BY <1>1, <1>2 DEF Sorted
<1>5. Reaches /\ GoneIsExcused /\ CompleteMeansStored /\ WindowHasTheRest
  BY DEF Reaches, GoneIsExcused, CompleteMeansStored, WindowHasTheRest
<1>6. Place = 0 /\ Places
  BY <1>1 DEF Place, Places
<1>7. AtTheTop /\ FurtherDown
  BY <1>6 DEF AtTheTop, FurtherDown, NoneBefore
<1>8. Tops
  <2>1. top.at = 0 /\ top.listed = 0 /\ clock = 0 /\ MaxPause \in Nat
    BY Sizes
  <2>2. \A q \in Ids : posts[q] = 0
    BY <1>2
  <2> QED
    BY <1>1, <1>2, <2>1, <2>2 DEF Tops
<1> QED
  BY <1>3, <1>4, <1>5, <1>6, <1>7, <1>8 DEF IInv

\* A walk that begins at the top owes all there is; one that resumes owes what it owed.
LEMMA BeginKeeps == ASSUME SourceWalkAssumption, IInv, Begin PROVE IInv'
<1> USE DEF Begin
<1>1. /\ ~walk.on /\ walk.streak = 0
      /\ walk'.on /\ walk'.started = clock /\ walk'.window = Window /\ walk'.offset = slice.resume
      /\ walk'.pages = 0 /\ walk'.streak = 0
  BY DEF NoWalk, IInv, Places
<1>2. UNCHANGED <<posts, gone, stored, clock, slice, covered, excused, news>>
  OBVIOUS
<1>3. Place' = Place /\ Place = slice.resume /\ Live' = Live /\ Ids' = Ids /\ Open' = Open
  BY <1>1, <1>2 DEF Place, Live, Ids, Open
<1>4. /\ Window \in Nat
      /\ slice.last = Never => Window = FirstPull
      /\ slice.last # Never => Window > clock - slice.last - DayLength + Slack
  BY WindowSize DEF IInv
<1>5. /\ top' \in [listed : Nat, at : Nat] /\ top'.at <= clock /\ top'.listed <= Len(posts)
      /\ slice.resume = 0 => top'.listed = Len(posts) /\ top'.at = clock
      /\ slice.resume # 0 => top' = top
  <2>1. Len(posts) \in Nat /\ clock \in Nat /\ top \in [listed : Nat, at : Nat]
    BY LiveIsFinite DEF IInv, Shapes
  <2> QED
    BY <2>1 DEF IInv, Tops
<1>6. Shapes'
  <2>1. RunBudget \in Nat /\ clock \in Nat /\ slice.resume \in Nat
    BY Sizes DEF IInv, Shapes
  <2>2. walk' \in Walks
    <3>1. walk' = [on |-> TRUE, started |-> clock, window |-> Window, offset |-> slice.resume,
                   pages |-> 0, streak |-> 0, attempts |-> 0, throttles |-> 0, budget |-> RunBudget]
      BY DEF NoWalk
    <3>2. [on |-> TRUE, started |-> clock, window |-> Window, offset |-> slice.resume,
           pages |-> 0, streak |-> 0, attempts |-> 0, throttles |-> 0, budget |-> RunBudget] \in Walks
      BY ONLY <1>4, <2>1 DEF Walks
    <3> QED
      BY <3>1, <3>2, Zenon
  <2> QED
    BY <1>2, <1>3, <1>5, <2>2 DEF IInv, Shapes
<1>7. Sorted'
  BY <1>2, <1>3 DEF IInv, Sorted
<1>8. Reaches'
  BY <1>1, <1>2, <1>4 DEF Reaches, IInv, Shapes
<1>9. Places'
  <2>1. slice.last <= clock /\ UnderWay'
    BY <1>1 DEF IInv, Shapes, Walks, UnderWay, Never
  <2>2. news <= Burst
    BY DEF IInv, Places
  <2> QED
    BY <1>1, <1>2, <1>3, <2>1, <2>2 DEF IInv, Shapes, Walks, Places, Never, UnderWay
<1>10. Tops' /\ GoneIsExcused'
  <2>1. \A q \in Ids : q \in Nat /\ q <= Len(posts)
    BY LiveIsFinite DEF Ids, IInv
  <2>2. clock <= top'.at + MaxPause
    <3>1. clock \in Nat /\ slice.resume \in Nat /\ MaxPause \in Nat /\ top.at \in Nat
      BY Sizes DEF IInv, Shapes
    <3>2. slice.resume > 0 => clock <= top.at + MaxPause
      BY DEF IInv, Tops
    <3> QED
      BY <1>5, <3>1, <3>2
  <2>3. \A q \in Ids : ~(q <= top'.listed) => posts[q] >= top'.at
    BY <1>5, <2>1, LiveIsFinite DEF IInv, Tops, Owed
  <2> QED
    BY <1>2, <1>3, <1>5, <2>2, <2>3 DEF IInv, Tops, GoneIsExcused, Owed
<1>11. AtTheTop'
  <2>1. Place = 0 => \A q \in Open : Owed(q)'
    BY <1>3, <1>5, LiveIsFinite DEF Open, Live, Ids, IInv, Owed
  <2> QED
    BY <1>2, <1>3, <2>1 DEF IInv, AtTheTop, NoneBefore
<1>12. FurtherDown'
  <2>1. Place > 0 => top' = top
    BY <1>3, <1>5 DEF IInv, Shapes, Walks
  <2> QED
    BY <1>1, <1>2, <1>3, <2>1 DEF IInv, FurtherDown, NoneBefore, Owed
<1>13. CompleteMeansStored' /\ WindowHasTheRest'
  BY <1>2, <1>3 DEF IInv, CompleteMeansStored, WindowHasTheRest
<1> QED
  BY <1>6, <1>7, <1>8, <1>9, <1>10, <1>11, <1>12, <1>13 DEF IInv

\* A walk that stops short keeps its place.
LEMMA StopsShort ==
  ASSUME SourceWalkAssumption, IInv, walk.on, NEW stop \in Unfinished, Finish(stop, walk.offset),
         UNCHANGED <<posts, gone, stored, clock, top, excused>>
  PROVE  IInv'
<1> USE DEF Finish, Recorded
<1>1. /\ walk'.on = FALSE /\ walk'.started = 0 /\ walk'.window = 0 /\ walk'.offset = 0
      /\ walk'.pages = 0 /\ walk'.streak = 0
      /\ slice'.last = slice.last /\ slice'.resume = walk.offset /\ slice'.stop = stop
      /\ walk' = NoWalk
      /\ UNCHANGED <<posts, gone, stored, clock, top, covered, excused, news>>
  BY DEF NoWalk
<1>2. Place' = Place /\ Place = walk.offset /\ Live' = Live /\ Ids' = Ids /\ Open' = Open
  BY <1>1 DEF Place, Live, Ids, Open
<1>3. UnderWay /\ UnderWay'
  BY <1>1 DEF UnderWay
<1> HIDE DEF Finish, Recorded
<1>5. Shapes'
  <2>1. slice'.last \in Never..clock' /\ slice'.resume \in Nat
    BY <1>1 DEF IInv, Shapes, Walks
  <2>2. /\ posts' \in Seq(Nat) /\ clock' \in Nat /\ clock' <= MaxTime
        /\ gone' \subseteq Ids' /\ stored' \subseteq Ids' /\ news' \in Nat
        /\ top' \in [listed : Nat, at : Nat] /\ covered' \in Nat
    BY <1>1, <1>2 DEF IInv, Shapes
  <2> QED
    BY <1>1, <2>1, <2>2, NoWalkShape, Zenon DEF Shapes
<1>6. Sorted' /\ Reaches'
  BY <1>1, <1>2 DEF IInv, Sorted, Reaches
<1>7. Places'
  BY <1>1, <1>2, <1>3 DEF IInv, Places
<1>8. Tops' /\ GoneIsExcused'
  BY <1>1, <1>2 DEF IInv, Tops, GoneIsExcused, Owed
<1>9. AtTheTop'
  BY <1>1, <1>2 DEF IInv, AtTheTop, NoneBefore, Owed
<1>10. FurtherDown'
  <2>1. \A q \in Live : Rank(q, Live) \in Nat
    BY RankType, LiveIsFinite DEF IInv
  <2>2. stored \ gone \subseteq Live /\ news \in Nat /\ Place \in Nat /\ PageSize \in Nat
    BY <1>2, Sizes DEF IInv, Shapes, Walks, Live
  <2>3. ASSUME Place > 0, NEW p \in Open, Owed(p)
        PROVE  \A q \in stored \ gone : q > p => Rank(q, Live) <= Place + news
    BY <2>1, <2>2, <2>3 DEF IInv, FurtherDown
  <2> QED
    BY <1>1, <1>2, <2>2, <2>3 DEF IInv, FurtherDown, NoneBefore, Owed
<1>11. CompleteMeansStored' /\ WindowHasTheRest'
  BY <1>1, <1>2 DEF IInv, CompleteMeansStored, WindowHasTheRest
<1> QED
  BY <1>5, <1>6, <1>7, <1>8, <1>9, <1>10, <1>11 DEF IInv

\* A walk that is asked again or waits is where it was.
LEMMA WaitsKeep ==
  ASSUME IInv, walk.on, walk'.on, walk' \in Walks,
         walk'.started = walk.started, walk'.window = walk.window, walk'.offset = walk.offset,
         walk'.pages = walk.pages, walk'.streak = walk.streak,
         UNCHANGED <<posts, gone, stored, clock, slice, top, covered, excused, news>>
  PROVE  IInv'
<1>1. Place' = Place /\ Live' = Live /\ Ids' = Ids /\ Open' = Open /\ UnderWay' /\ UnderWay
  BY DEF Place, Live, Ids, Open, UnderWay
<1>2. /\ Shapes' /\ Sorted' /\ Reaches' /\ Tops' /\ GoneIsExcused'
      /\ CompleteMeansStored' /\ WindowHasTheRest'
  BY <1>1 DEF IInv, Shapes, Walks, Sorted, Reaches, Tops, GoneIsExcused, CompleteMeansStored,
              WindowHasTheRest, Owed
<1>3. Places' /\ AtTheTop' /\ FurtherDown'
  BY <1>1 DEF IInv, Places, AtTheTop, FurtherDown, NoneBefore, Owed
<1> QED
  BY <1>2, <1>3 DEF IInv

LEMMA AskingKeeps ==
  ASSUME SourceWalkAssumption, IInv, Broken \/ Throttled \/ Turned
  PROVE  IInv'
<1>1. walk.on /\ UNCHANGED <<posts, gone, stored, clock, top, excused>>
  BY DEF Broken, Throttled, Turned, Asking
<1>0. walk \in Walks
  BY DEF IInv, Shapes
<1>2. \/ \E stop \in Unfinished : Finish(stop, walk.offset)
      \/ /\ walk' \in Walks
         /\ walk'.on = walk.on /\ walk'.started = walk.started /\ walk'.window = walk.window
         /\ walk'.offset = walk.offset /\ walk'.pages = walk.pages /\ walk'.streak = walk.streak
         /\ UNCHANGED <<slice, covered, news>>
  <2>1. CASE Turned
    BY <2>1 DEF Turned, Unfinished
  <2>2. CASE Broken
    <3>1. CASE Finish("error", walk.offset)
      BY <3>1 DEF Unfinished
    <3>2. CASE walk' = [walk EXCEPT !.attempts = @ + 1] /\ UNCHANGED <<slice, covered, news>>
      BY <3>2, <1>0 DEF Walks
    <3> QED
      BY <2>2, <3>1, <3>2 DEF Broken
  <2>3. CASE Throttled
    <3>1. CASE Finish("rate_limited", walk.offset)
      BY <3>1 DEF Unfinished
    <3>2. ASSUME NEW wait \in 1..RunBudget + 1,
                 walk' = [walk EXCEPT !.throttles = @ + 1, !.budget = @ - wait],
                 UNCHANGED <<slice, covered, news>>
          PROVE  /\ walk' \in Walks /\ walk'.on = walk.on /\ walk'.started = walk.started
                 /\ walk'.window = walk.window /\ walk'.offset = walk.offset
                 /\ walk'.pages = walk.pages /\ walk'.streak = walk.streak
      <4>1. walk.on \in BOOLEAN /\ walk.started \in Nat /\ walk.window \in Nat /\ walk.offset \in Nat
            /\ walk.pages \in Nat /\ walk.streak \in Nat /\ walk.attempts \in Nat
            /\ walk.throttles + 1 \in Nat /\ walk.budget - wait \in Int
        BY <1>0, Sizes DEF Walks
      <4>2. walk' = [on |-> walk.on, started |-> walk.started, window |-> walk.window,
                     offset |-> walk.offset, pages |-> walk.pages, streak |-> walk.streak,
                     attempts |-> walk.attempts, throttles |-> walk.throttles + 1,
                     budget |-> walk.budget - wait]
        BY <3>2, <1>0 DEF Walks
      <4> QED
        BY <4>1, <4>2 DEF Walks
    <3> QED
      BY <2>3, <3>1, <3>2 DEF Throttled
  <2> QED
    BY <2>1, <2>2, <2>3
<1>3. CASE \E stop \in Unfinished : Finish(stop, walk.offset)
  BY <1>1, <1>3, StopsShort
<1>4. CASE /\ walk' \in Walks
           /\ walk'.on = walk.on /\ walk'.started = walk.started /\ walk'.window = walk.window
           /\ walk'.offset = walk.offset /\ walk'.pages = walk.pages /\ walk'.streak = walk.streak
           /\ UNCHANGED <<slice, covered, news>>
  BY <1>1, <1>4, WaitsKeep
<1> QED
  BY <1>2, <1>3, <1>4

\* What a walk owes and has not stored is behind its place.
LEMMA OwedIsMissed ==
  ASSUME IInv, walk.on, NEW p \in Open, Owed(p)
  PROVE  p \in Missed
<1>1. Live \in SUBSET Nat /\ IsFiniteSet(Live) /\ p \in Live /\ Rank(p, Live) \in Nat
  BY LiveIsFinite, RankType DEF Open, IInv
<1>2. Rank(p, Live) >= 1
  BY <1>1, RankFirst
<1>3. walk.offset \in Nat /\ Place = walk.offset
  BY DEF IInv, Shapes, Walks, Place
<1>4. Rank(p, Live) > walk.offset
  BY <1>1, <1>2, <1>3 DEF IInv, FurtherDown
<1> QED
  BY <1>4 DEF Open, Missed, Live

\* A run that loses its place gives up what was behind it, if it had read a page; if not, it is
\* where it began.
LEMMA PlaceIsLost ==
  ASSUME SourceWalkAssumption, IInv, walk.on, walk' = NoWalk, LosesPlace,
         slice'.last = slice.last, slice'.resume = slice.resume,
         slice'.stop \in {slice.stop} \union Unfinished,
         UNCHANGED <<posts, gone, stored, clock, top, covered, news>>
  PROVE  IInv'
<1>1. /\ walk'.on = FALSE /\ walk'.started = 0 /\ walk'.window = 0 /\ walk'.offset = 0
      /\ walk'.pages = 0 /\ walk'.streak = 0
  BY DEF NoWalk
<1>2. Place' = slice.resume /\ Live' = Live /\ Ids' = Ids /\ Place = walk.offset
  BY <1>1 DEF Place, Live, Ids
<1>3. excused \subseteq excused' /\ Open' \subseteq Open
  BY <1>2 DEF LosesPlace, Open
<1>4. UnderWay /\ (slice.resume > 0 => slice'.stop \in Unfinished)
  BY DEF UnderWay, IInv, Places
<1>5. Shapes'
  <2>1. slice'.last \in Never..clock' /\ slice'.resume \in Nat
    BY <1>2 DEF IInv, Shapes, Walks
  <2>2. /\ posts' \in Seq(Nat) /\ clock' \in Nat /\ clock' <= MaxTime
        /\ gone' \subseteq Ids' /\ stored' \subseteq Ids' /\ news' \in Nat
        /\ top' \in [listed : Nat, at : Nat] /\ covered' \in Nat
    BY <1>2 DEF IInv, Shapes, Walks
  <2> QED
    BY <2>1, <2>2, NoWalkShape, Zenon DEF Shapes
<1>6. Sorted' /\ Reaches'
  BY <1>1, <1>2 DEF IInv, Sorted, Reaches
<1>7. Places'
  BY <1>1, <1>2, <1>4 DEF IInv, Places
<1>8. Tops' /\ GoneIsExcused'
  BY <1>1, <1>2, <1>3 DEF IInv, Tops, GoneIsExcused, Owed
<1>9. CASE walk.pages = 0
  <2>1. Place = slice.resume /\ walk.streak = 0
    BY <1>2, <1>9 DEF IInv, Places
  <2> QED
    BY <1>1, <1>2, <1>3, <1>5, <1>6, <1>7, <1>8, <2>1
    DEF IInv, AtTheTop, FurtherDown, NoneBefore, Owed, CompleteMeansStored, WindowHasTheRest
<1>10. CASE walk.pages # 0
  <2>1. walk.pages > 0 /\ Place \in Nat
    BY <1>2, <1>10 DEF IInv, Shapes, Walks
  <2>2. Missed \subseteq excused'
    BY <2>1 DEF LosesPlace
  <2>3. ASSUME NEW p \in Open'
        PROVE  /\ p \in Open /\ ~Owed(p) /\ NoneBefore(p) /\ Rank(p, Live) <= news
    <3>1. p \in Open /\ p \notin Missed
      BY <1>3, <2>2, <2>3 DEF Open
    <3>2. ~Owed(p)
      BY <3>1, OwedIsMissed
    <3>3. Rank(p, Live) <= news /\ NoneBefore(p)
      BY <2>1, <3>1, <3>2 DEF IInv, AtTheTop, FurtherDown
    <3> QED
      BY <3>1, <3>2, <3>3
  <2>4. AtTheTop'
    BY <1>1, <1>2, <2>3 DEF AtTheTop, NoneBefore, Owed
  <2>5. FurtherDown'
    BY <1>1, <1>2, <2>3 DEF FurtherDown, NoneBefore, Owed
  <2> QED
    BY <1>2, <1>3, <1>5, <1>6, <1>7, <1>8, <2>4, <2>5
    DEF IInv, CompleteMeansStored, WindowHasTheRest
<1> QED
  BY <1>9, <1>10

LEMMA LossesKeep == ASSUME SourceWalkAssumption, IInv, Ignored \/ Die PROVE IInv'
<1>1. CASE Ignored
  <2>1. /\ walk.on /\ walk' = NoWalk /\ LosesPlace
        /\ slice'.last = slice.last /\ slice'.resume = slice.resume /\ slice'.stop = "error"
        /\ UNCHANGED <<posts, gone, stored, clock, top, covered, news>>
    BY <1>1 DEF Ignored, Asking, Finish, Recorded, Unfinished
  <2>2. slice'.stop \in Unfinished
    BY <2>1 DEF Unfinished
  <2> QED
    BY <2>1, <2>2, PlaceIsLost
<1>2. CASE Die
  <2>1. /\ walk.on /\ walk' = NoWalk /\ LosesPlace /\ slice' = slice
        /\ UNCHANGED <<posts, gone, stored, clock, top, covered, news>>
    BY <1>2 DEF Die
  <2> QED
    BY <2>1, PlaceIsLost
<1> QED
  BY <1>1, <1>2

\* Nothing is stored before an open posting that no walk owes.
LEMMA OthersAreNewer ==
  ASSUME IInv, NEW p \in Open, ~Owed(p)
  PROVE  NoneBefore(p)
<1>1. Place \in Nat
  BY DEF IInv, Shapes, Walks, Place
<1> QED
  BY <1>1 DEF IInv, AtTheTop, FurtherDown

\* A walk that reports the slice complete.
LEMMA Completes ==
  ASSUME SourceWalkAssumption, ShortPauses, IInv, walk.on, walk' = NoWalk, news' = 0,
         slice'.last = walk.started, slice'.resume = 0, covered' = top.listed,
         UNCHANGED <<posts, gone, clock, top>>, excused \subseteq excused',
         stored \subseteq stored', stored' \subseteq Ids,
         slice'.stop \in {"end_of_results", "known_page", "cap_hit"},
         \A p \in Open :
           Owed(p) \/ (\E q \in stored' \ gone : q > p) => p \in stored' \union excused'
  PROVE  IInv'
<1>1. /\ walk'.on = FALSE /\ walk'.started = 0 /\ walk'.window = 0 /\ walk'.offset = 0
      /\ walk'.pages = 0 /\ walk'.streak = 0
  BY DEF NoWalk
<1>2. Place' = 0 /\ Live' = Live /\ Ids' = Ids /\ ~UnderWay'
  BY <1>1 DEF Place, Live, Ids, UnderWay, Unfinished
<1>3. /\ walk.started \in Nat /\ walk.started <= clock /\ slice.last <= walk.started
      /\ slice.last \in Int /\ clock \in Nat /\ top.at \in Nat /\ top.listed \in Nat
      /\ clock <= top.at + MaxPause
  BY DEF IInv, Shapes, Walks, Places, Tops, Never
<1>4. Open' \subseteq Open /\ \A p \in Open' : p \in Ids /\ ~Owed(p)
  <2>1. Open' \subseteq Open
    BY <1>2 DEF Open
  <2>2. \A p \in Open' : p \notin stored' \union excused'
    BY DEF Open
  <2> QED
    BY <2>1, <2>2 DEF Open, Live
<1>5. Shapes'
  <2>1. slice'.last \in Never..clock' /\ slice'.resume \in Nat
    BY <1>3 DEF IInv, Shapes, Walks, Never
  <2>2. /\ posts' \in Seq(Nat) /\ clock' \in Nat /\ clock' <= MaxTime
        /\ gone' \subseteq Ids' /\ stored' \subseteq Ids' /\ news' \in Nat
        /\ top' \in [listed : Nat, at : Nat] /\ covered' \in Nat
    BY <1>2, <1>3 DEF IInv, Shapes, Walks
  <2> QED
    BY <2>1, <2>2, NoWalkShape, Zenon DEF Shapes
<1>6. Sorted' /\ Reaches'
  BY <1>1, <1>2 DEF IInv, Sorted, Reaches
<1>7. Places'
  BY <1>1, <1>2, Sizes DEF Places
<1>8. Tops' /\ GoneIsExcused'
  BY <1>1, <1>2 DEF IInv, Tops, GoneIsExcused, Owed
<1>9. AtTheTop'
  <2> SUFFICES ASSUME NEW p \in Open', NEW q \in stored' \ gone
               PROVE  q <= p
    BY <1>1 DEF AtTheTop, NoneBefore
  <2>1. p \in Open /\ p \notin stored' \union excused'
    BY <1>4 DEF Open
  <2>2. ~(q > p)
    BY <2>1
  <2>3. p \in Nat /\ q \in Nat
    BY <2>1, PostDays DEF Open, Live, IInv
  <2> QED
    BY <2>2, <2>3
<1>10. FurtherDown'
  BY <1>2 DEF FurtherDown
<1>11. CompleteMeansStored'
  <2> SUFFICES ASSUME NEW p \in 1..top.listed, p \notin Skipped, p \notin stored', p \notin excused'
               PROVE  FALSE
    BY DEF CompleteMeansStored
  <2>1. p \in Ids /\ Owed(p)
    BY <1>3, LiveIsFinite DEF IInv, Tops, Ids, Owed
  <2>2. p \in Open
    BY <2>1 DEF IInv, GoneIsExcused, Open, Live
  <2> QED
    BY <2>1, <2>2
\* What the walk did not owe appeared while it was unfinished, and that is not long ago.
<1>12. WindowHasTheRest'
  <2> SUFFICES ASSUME NEW p \in Ids, p \notin Skipped, p \notin stored', p \notin excused'
               PROVE  posts[p] >= walk.started - (Slack - DayLength)
    BY <1>2 DEF WindowHasTheRest
  <2>1. p \in Open'
    BY <1>2 DEF IInv, GoneIsExcused, Open, Live
  <2>2. posts[p] >= top.at /\ posts[p] \in Nat
    BY <1>4, <2>1, PostDays DEF IInv, Tops
  <2> QED
    BY <1>3, <2>2, Sizes DEF ShortPauses
<1> QED
  BY <1>5, <1>6, <1>7, <1>8, <1>9, <1>10, <1>11, <1>12 DEF IInv

\* A bound of the run or of the interface ends the walk: what it owed and did not store is
\* excused.
LEMMA CappedKeeps == ASSUME SourceWalkAssumption, ShortPauses, IInv, Capped PROVE IInv'
<1>1. /\ walk.on /\ walk' = NoWalk /\ news' = 0 /\ covered' = top.listed
      /\ slice'.last = walk.started /\ slice'.resume = 0 /\ slice'.stop = "cap_hit"
      /\ UNCHANGED <<posts, gone, stored, clock, top>>
      /\ excused' = excused \union Missed
  BY DEF Capped, Finish, Recorded, Unfinished
<1>2. stored \subseteq Ids
  BY DEF IInv, Shapes, Walks
<1>3. ASSUME NEW p \in Open, Owed(p) \/ \E q \in stored \ gone : q > p
      PROVE  p \in stored' \union excused'
  <2>1. Owed(p)
    <3>1. SUFFICES ASSUME ~Owed(p) PROVE FALSE
      OBVIOUS
    <3>2. PICK q \in stored \ gone : q > p
      BY <1>3, <3>1
    <3>3. q <= p
      BY <3>1, OthersAreNewer DEF NoneBefore
    <3>4. p \in Nat /\ q \in Nat
      BY <1>2, PostDays DEF Open, Live, IInv
    <3> QED
      BY <3>2, <3>3, <3>4
  <2> QED
    BY <1>1, <2>1, OwedIsMissed
<1> QED
  BY <1>1, <1>2, <1>3, Completes

\* What a page leaves open: a posting the walk owes ranks behind the page, one it does not owe
\* before everything the store will hold.
LEMMA PageLeaves ==
  ASSUME SourceWalkAssumption, FewNews, IInv, walk.on, NEW page, page = PageAt(walk.offset),
         NEW p \in Open, p \notin page
  PROVE  IF Owed(p)
         THEN Rank(p, Live) > walk.offset + PageSize /\ Cardinality(page) >= PageSize
         ELSE /\ Rank(p, Live) <= news
              /\ \A q \in (stored \ gone) \union page : q <= p
<1>1. /\ Live \in SUBSET Nat /\ IsFiniteSet(Live) /\ p \in Live /\ p \in Nat
      /\ Rank(p, Live) \in Nat /\ Rank(p, Live) >= 1
  BY LiveIsFinite, RankType, RankFirst DEF Open, IInv
<1>2. Place = walk.offset /\ walk.offset \in Nat /\ PageSize \in Nat /\ news \in Nat
      /\ news <= PageSize
  <2>1. walk \in Walks /\ news \in Nat /\ news <= Burst /\ Burst <= PageSize
    BY DEF IInv, Shapes, Places, FewNews
  <2>2. walk.offset \in Nat
    BY <2>1 DEF Walks
  <2> QED
    BY <2>1, <2>2, Sizes DEF Place
<1>3. page \subseteq Live /\ \A q \in page : walk.offset < Rank(q, Live) /\ Rank(q, Live) \in Nat
  BY PageFacts
<1>4. ~(walk.offset < Rank(p, Live) /\ Rank(p, Live) <= walk.offset + PageSize)
  BY PageFacts
<1>5. CASE Owed(p)
  <2>1. Rank(p, Live) > walk.offset
    BY <1>1, <1>2, <1>5 DEF IInv, FurtherDown
  <2>2. Rank(p, Live) > walk.offset + PageSize
    BY <2>1, <1>1, <1>2, <1>4
  <2>3. Cardinality(page) >= PageSize
    BY <2>2, PageFacts
  <2> QED
    BY <1>5, <2>2, <2>3
<1>6. CASE ~Owed(p)
  <2>1. Rank(p, Live) <= news
    BY <1>2, <1>6 DEF IInv, AtTheTop, FurtherDown
  <2>2. ~(walk.offset < Rank(p, Live))
    BY <2>1, <1>1, <1>2, <1>4
  <2>3. NoneBefore(p)
    BY <1>6, OthersAreNewer
  <2>4. ASSUME NEW q \in page, p < q PROVE FALSE
    <3>1. Rank(q, Live) < Rank(p, Live)
      BY <1>1, <1>3, <2>4, RankFalls
    <3> QED
      BY <3>1, <2>2, <1>1, <1>2, <1>3
  <2>5. \A q \in page : q \in Nat
    BY <1>1, <1>3
  <2> QED
    BY <1>1, <1>6, <2>1, <2>3, <2>4, <2>5 DEF NoneBefore
<1> QED
  BY <1>5, <1>6

\* Pages of known cards in a row that end a walk leave nothing open that it owes.
LEMMA KnownPageEnds ==
  ASSUME SourceWalkAssumption, FewNews, IInv, walk.on, NEW page, page = PageAt(walk.offset),
         Streak(page) >= KnownPages, NEW p \in Open, Owed(p)
  PROVE  p \in page
<1>1. SUFFICES ASSUME p \notin page PROVE FALSE
  OBVIOUS
<1>2. Rank(p, Live) > walk.offset + PageSize
  BY <1>1, PageLeaves
<1>3. /\ KnownPages \in Nat /\ KnownPages >= 2 /\ walk.streak \in Nat
      /\ PageSize \in Nat /\ news \in Nat /\ news <= PageSize
      /\ Place = walk.offset /\ walk.offset \in Nat
  <2>1. walk \in Walks /\ news \in Nat /\ news <= Burst /\ Burst <= PageSize /\ KnownPages >= 2
    BY DEF IInv, Shapes, Places, FewNews
  <2>2. walk.offset \in Nat /\ walk.streak \in Nat
    BY <2>1 DEF Walks
  <2> QED
    BY <2>1, <2>2, Sizes DEF Place
<1>4. PICK c \in page \ Skipped : c \in stored
  BY <1>3 DEF Streak
<1>5. walk.streak > 0
  BY <1>3 DEF Streak
<1>6. /\ c \in Live /\ Rank(c, Live) \in Nat /\ walk.offset < Rank(c, Live)
      /\ Rank(c, Live) <= walk.offset + PageSize
  BY PageFacts
<1>7. Live \in SUBSET Nat /\ IsFiniteSet(Live) /\ p \in Live /\ p \in Nat /\ c \in Nat
      /\ Rank(p, Live) \in Nat
  BY <1>6, LiveIsFinite, RankType DEF Open, IInv
<1>8. c > p
  <2>1. ~(c < p)
    <3> SUFFICES ASSUME c < p PROVE FALSE
      OBVIOUS
    <3>1. Rank(p, Live) < Rank(c, Live)
      BY <1>6, <1>7, RankFalls
    <3> QED
      BY <3>1, <1>2, <1>3, <1>6, <1>7
  <2>2. c # p
    BY <1>1
  <2> QED
    BY <2>1, <2>2, <1>7
<1>9. c \in stored \ gone
  BY <1>4, <1>6 DEF Live
<1>10. Place # 0
  <2>1. Place = 0 => c <= p
    BY <1>9 DEF IInv, AtTheTop, NoneBefore
  <2> QED
    BY <2>1, <1>7, <1>8
<1>11. Rank(c, Live) <= Place + news - PageSize
  BY <1>3, <1>5, <1>8, <1>9, <1>10 DEF IInv, FurtherDown
<1> QED
  BY <1>3, <1>6, <1>11

\* A page that leaves the walk under way: its cards are stored and its place moves behind them.
LEMMA ReadsOn ==
  ASSUME SourceWalkAssumption, FewNews, IInv, walk.on, NEW page, page = PageAt(walk.offset),
         Cardinality(page) >= PageSize,
         walk' = [walk EXCEPT !.offset = walk.offset + Cardinality(page), !.pages = @ + 1,
                              !.streak = Streak(page), !.attempts = 0, !.throttles = 0],
         stored' = stored \union (page \ Skipped),
         UNCHANGED <<posts, gone, clock, slice, top, covered, excused, news>>
  PROVE  IInv'
<1>1. Cardinality(page) = PageSize /\ PageSize \in Nat /\ PageSize > 0 /\ page \subseteq Live
  <2>1. Cardinality(page) \in Nat /\ Cardinality(page) <= PageSize /\ page \subseteq Live
    BY PageFacts
  <2> QED
    BY <2>1, Sizes
<1>2. walk \in Walks /\ Streak(page) \in Nat
  BY DEF IInv, Shapes, Walks, Streak
<1>3. walk' \in Walks
  <2>1. walk.on \in BOOLEAN /\ walk.started \in Nat /\ walk.window \in Nat /\ walk.budget \in Int
        /\ walk.offset + PageSize \in Nat /\ walk.pages + 1 \in Nat
    BY <1>1, <1>2 DEF Walks
  <2>2. walk' = [on |-> walk.on, started |-> walk.started, window |-> walk.window,
                 offset |-> walk.offset + PageSize, pages |-> walk.pages + 1,
                 streak |-> Streak(page), attempts |-> 0, throttles |-> 0,
                 budget |-> walk.budget]
    BY <1>1, <1>2 DEF Walks
  <2>3. 0 \in Nat
    OBVIOUS
  <2>4. [on |-> walk.on, started |-> walk.started, window |-> walk.window,
         offset |-> walk.offset + PageSize, pages |-> walk.pages + 1,
         streak |-> Streak(page), attempts |-> 0, throttles |-> 0, budget |-> walk.budget] \in Walks
    BY ONLY <1>2, <2>1, <2>3 DEF Walks
  <2> QED
    BY <2>2, <2>4, Zenon
<1>4. /\ walk'.on = walk.on /\ walk'.started = walk.started /\ walk'.window = walk.window
      /\ walk'.offset = walk.offset + PageSize /\ walk'.pages = walk.pages + 1
      /\ walk'.streak = Streak(page)
  BY <1>1, <1>2 DEF Walks
<1>5. Place' = walk.offset + PageSize /\ Place = walk.offset /\ walk.offset \in Nat
      /\ walk.pages \in Nat
  BY <1>2, <1>4 DEF Place, Walks
<1>6. Live' = Live /\ Ids' = Ids /\ UnderWay' /\ UnderWay
  BY <1>4 DEF Live, Ids, UnderWay
<1>7. Open' \subseteq Open \ page
  BY <1>6 DEF Open, Live
<1>8. Shapes'
  BY <1>1, <1>3, <1>6 DEF IInv, Shapes, Live
<1>9. Sorted' /\ Reaches'
  BY <1>4, <1>6 DEF IInv, Sorted, Reaches
<1>10. Places'
  BY <1>1, <1>4, <1>5 DEF IInv, Places
<1>11. Tops' /\ GoneIsExcused'
  BY <1>4, <1>6 DEF IInv, Tops, GoneIsExcused, Owed
<1>12. AtTheTop'
  BY <1>1, <1>5 DEF AtTheTop
<1>13. FurtherDown'
  <2> SUFFICES ASSUME NEW p \in Open'
               PROVE  IF Owed(p)
                      THEN /\ Rank(p, Live) > walk.offset + PageSize
                           /\ \A q \in stored' \ gone : q > p =>
                                Rank(q, Live) <= walk.offset + PageSize + news
                                  - (IF Streak(page) > 0 THEN PageSize ELSE 0)
                      ELSE (\A q \in stored' \ gone : q <= p) /\ Rank(p, Live) <= news
    BY <1>4, <1>5, <1>6 DEF FurtherDown, NoneBefore, Owed
  <2>1. p \in Open /\ p \notin page
    BY <1>7
  <2>2. CASE ~Owed(p)
    BY <2>1, <2>2, PageLeaves
  <2>3. CASE Owed(p)
    <3>1. Rank(p, Live) > walk.offset + PageSize
      BY <2>1, <2>3, PageLeaves
    <3>2. ASSUME NEW q \in stored' \ gone, q > p
          PROVE  Rank(q, Live) <= walk.offset + PageSize + news
                                    - (IF Streak(page) > 0 THEN PageSize ELSE 0)
      <4>1. q \in Live /\ Rank(q, Live) \in Nat /\ news \in Nat /\ p \in Nat /\ q \in Nat
        <5>1. q \in Live /\ p \in Live
          BY <1>1, <2>1 DEF IInv, Shapes, Live, Open
        <5> QED
          BY <5>1, LiveIsFinite, RankType DEF IInv, Shapes
      <4>2. q \in stored => Rank(q, Live) <= walk.offset + news
        <5>1. CASE Place = 0
          BY <2>1, <3>2, <4>1, <5>1 DEF IInv, AtTheTop, NoneBefore
        <5>2. CASE Place > 0
          BY <1>1, <1>5, <2>1, <2>3, <3>2, <4>1, <5>2 DEF IInv, FurtherDown
        <5> QED
          BY <1>5, <5>1, <5>2
      <4>3. Streak(page) > 0 => q \in stored
        BY <3>2 DEF Streak
      <4>4. q \notin stored => Rank(q, Live) <= walk.offset + PageSize
        BY <3>2, PageFacts
      <4> QED
        BY <1>1, <1>5, <4>1, <4>2, <4>3, <4>4
    <3> QED
      BY <2>3, <3>1, <3>2
  <2> QED
    BY <2>2, <2>3
<1>14. CompleteMeansStored' /\ WindowHasTheRest'
  BY <1>6 DEF IInv, CompleteMeansStored, WindowHasTheRest
<1> QED
  BY <1>8, <1>9, <1>10, <1>11, <1>12, <1>13, <1>14 DEF IInv

LEMMA AnsweredKeeps ==
  ASSUME SourceWalkAssumption, FewNews, ShortPauses, IInv, Answered
  PROVE  IInv'
<1> DEFINE page == PageAt(walk.offset)
<1>1. walk.on /\ stored' = stored \union (page \ Skipped)
      /\ UNCHANGED <<posts, gone, clock, top, excused>>
  BY DEF Answered, Asking
<1>2. page \subseteq Live /\ page \subseteq Ids /\ stored \subseteq Ids
  BY <1>1, PageFacts DEF Live, IInv, Shapes
<1>3. CASE \E stop \in {"end_of_results", "known_page"} :
             /\ Finish(stop, walk.offset + Cardinality(page))
             /\ stop = "end_of_results" => Cardinality(page) < PageSize
             /\ stop = "known_page" => Streak(page) >= KnownPages
  <2>1. PICK stop \in {"end_of_results", "known_page"} :
          /\ Finish(stop, walk.offset + Cardinality(page))
          /\ stop = "end_of_results" => Cardinality(page) < PageSize
          /\ stop = "known_page" => Streak(page) >= KnownPages
    BY <1>3
  <2>2. walk' = NoWalk /\ news' = 0 /\ slice'.last = walk.started /\ slice'.resume = 0
        /\ slice'.stop = stop /\ covered' = top.listed
    BY <2>1 DEF Finish, Recorded, Unfinished
  <2>3. ASSUME NEW p \in Open, Owed(p) \/ \E q \in stored' \ gone : q > p
        PROVE  p \in page
    <3>1. SUFFICES ASSUME p \notin page PROVE FALSE
      OBVIOUS
    <3>2. CASE Owed(p)
      <4>1. stop # "known_page"
        BY <1>1, <2>1, <3>1, <3>2, KnownPageEnds
      <4>2. Cardinality(page) >= PageSize /\ Cardinality(page) \in Nat /\ PageSize \in Nat
        BY <1>1, <3>1, <3>2, PageLeaves, PageFacts, Sizes
      <4> QED
        BY <2>1, <4>1, <4>2
    <3>3. CASE ~Owed(p)
      <4>1. PICK q \in stored' \ gone : q > p
        BY <2>3, <3>3
      <4>2. q <= p
        BY <1>1, <3>1, <3>3, PageLeaves
      <4>3. q \in Nat /\ p \in Nat
        BY <1>1, <1>2, PostDays DEF Open, Live, IInv
      <4> QED
        BY <4>1, <4>2, <4>3
    <3> QED
      BY <3>2, <3>3
  <2>4. \A p \in Open :
          Owed(p) \/ (\E q \in stored' \ gone : q > p) => p \in stored' \union excused'
    BY <1>1, <2>3 DEF Open
  <2>5. excused \subseteq excused' /\ stored \subseteq stored' /\ stored' \subseteq Ids
    BY <1>1, <1>2
  <2>6. slice'.stop \in {"end_of_results", "known_page", "cap_hit"}
    BY <2>1, <2>2
  <2> QED
    BY <1>1, <2>2, <2>4, <2>5, <2>6, Completes
<1>4. CASE /\ Cardinality(page) >= PageSize
           /\ walk' = [walk EXCEPT !.offset = walk.offset + Cardinality(page), !.pages = @ + 1,
                                   !.streak = Streak(page), !.attempts = 0, !.throttles = 0]
           /\ UNCHANGED <<slice, covered, news>>
  BY <1>1, <1>4, ReadsOn
<1>5. \/ Cardinality(page) < PageSize
           /\ Finish("end_of_results", walk.offset + Cardinality(page))
      \/ Streak(page) >= KnownPages /\ Finish("known_page", walk.offset + Cardinality(page))
      \/ /\ Cardinality(page) >= PageSize
         /\ walk' = [walk EXCEPT !.offset = walk.offset + Cardinality(page), !.pages = @ + 1,
                                 !.streak = Streak(page), !.attempts = 0, !.throttles = 0]
         /\ UNCHANGED <<slice, covered, news>>
  BY DEF Answered
<1> QED
  BY <1>3, <1>4, <1>5

\* A posting that appears is the first of the list and pushes the others back.
LEMMA PostKeeps == ASSUME SourceWalkAssumption, IInv, Post PROVE IInv'
<1> DEFINE n == Len(posts) + 1
<1>1. /\ posts' = Append(posts, clock) /\ posts \in Seq(Nat) /\ clock \in Nat /\ Len(posts) \in Nat
      /\ UNCHANGED <<gone, stored, clock, slice, walk, top, covered, excused>>
  BY DEF Post, IInv, Shapes
<1>2. /\ n \in Nat /\ Len(posts') = n /\ posts' \in Seq(Nat)
      /\ \A p \in 1..Len(posts) : posts'[p] = posts[p]
      /\ posts'[n] = clock
  BY <1>1
<1>3. Ids' = Ids \union {n} /\ n \notin Ids
  BY <1>1, <1>2 DEF Ids
<1>4. Place' = Place /\ UnderWay' = UnderWay /\ Place \in Nat /\ news \in Nat /\ Burst \in Nat
      /\ PageSize \in Nat
  BY <1>1, Sizes DEF Place, UnderWay, IInv, Shapes, Walks
<1>5. news' = IF UnderWay THEN news + 1 ELSE 0
  BY DEF Post
<1>6. gone \subseteq Ids /\ stored \subseteq Ids /\ ~Owed(n) /\ top.listed \in Nat
  BY <1>2 DEF IInv, Shapes, Tops, Owed
<1>7. Live' = Live \union {n} /\ n \notin Live
  BY <1>1, <1>3, <1>6 DEF Live
<1>8. Live \in SUBSET Nat /\ IsFiniteSet(Live) /\ \A q \in Live : q < n
  BY <1>1, LiveIsFinite DEF IInv, Live, Ids
<1>9. \A p \in Live : Rank(p, Live) \in Nat /\ Rank(p, Live') = Rank(p, Live) + 1
  BY <1>2, <1>7, <1>8, RankType, RankPushed
<1>10. Rank(n, Live') = 1
  BY <1>2, <1>7, <1>8, RankOfTheNewest
<1>11. \A p \in Open' : p = n \/ p \in Open
  <2> SUFFICES ASSUME NEW p \in Open', p # n PROVE p \in Open
    OBVIOUS
  <2>1. p \in Live /\ p \in 1..Len(posts)
    BY <1>3, <1>7 DEF Open, Live, Ids
  <2> QED
    BY <1>1, <1>2, <2>1 DEF Open
<1>12. Shapes'
  BY <1>1, <1>2, <1>3, <1>4, <1>5, <1>6 DEF IInv, Shapes
<1>13. Sorted'
  <2>1. \A p \in Ids : posts'[p] = posts[p] /\ posts[p] <= clock /\ p < n
    BY <1>1, <1>2 DEF IInv, Sorted, Ids
  <2>2. \A p, q \in Ids : p <= q => posts'[p] <= posts'[q]
    BY <2>1 DEF IInv, Sorted
  <2>3. ASSUME NEW q \in Ids, n <= q PROVE FALSE
    BY <2>3, <2>1, <1>1 DEF Ids
  <2> HIDE DEF n
  <2>4. \A p \in Ids : p <= n => posts'[p] <= posts'[n]
    <3>1. posts'[n] = clock
      BY <1>2
    <3> QED
      BY <2>1, <3>1
  <2>5. \A p \in Ids' : posts'[p] <= clock
    <3>1. posts'[n] <= clock
      BY <1>1, <1>2
    <3> QED
      BY <1>3, <2>1, <3>1, Zenon
  <2>6. posts'[n] <= posts'[n]
    BY <1>1, <1>2
  <2>7. \A p, q \in Ids' : p <= q => posts'[p] <= posts'[q]
    BY <1>3, <2>2, <2>3, <2>4, <2>6, Zenon
  <2> QED
    BY <1>1, <2>5, <2>7 DEF Sorted
<1>14. Reaches'
  BY <1>1 DEF IInv, Reaches
<1>15. Places'
  <2>1. news' <= Burst
    BY <1>4, <1>5 DEF Post
  <2> QED
    BY <1>1, <1>4, <2>1 DEF IInv, Places
<1>16. Tops' /\ GoneIsExcused'
  <2>1. \A q \in Ids : posts'[q] = posts[q] /\ (~Owed(q) => posts[q] >= top.at)
    BY <1>2 DEF IInv, Tops, Ids
  <2>2. posts'[n] >= top.at /\ top.listed <= n
    BY <1>1, <1>2 DEF IInv, Shapes, Tops
  <2>3. \A q \in Ids' : ~Owed(q) => posts'[q] >= top.at
    BY <1>3, <2>1, <2>2
  <2> QED
    BY <1>1, <1>2, <2>2, <2>3 DEF IInv, Tops, GoneIsExcused, Owed
<1>17. stored \ gone \subseteq Live /\ \A q \in stored \ gone : q \in Nat /\ q <= n
  BY <1>2, <1>6, <1>8 DEF Live
<1>18. AtTheTop'
  <2> SUFFICES ASSUME Place = 0, NEW p \in Open'
               PROVE  /\ \A q \in stored \ gone : q <= p
                      /\ walk.on /\ ~Owed(p) => Rank(p, Live') <= news'
    BY <1>1, <1>4 DEF AtTheTop, NoneBefore, Owed
  <2>1. walk.on => news' = news + 1
    BY <1>5 DEF UnderWay
  <2>2. CASE p = n
    BY <1>4, <1>10, <1>17, <2>1, <2>2
  <2>3. CASE p \in Open
    <3>1. p \in Live
      BY <2>3 DEF Open
    <3> QED
      BY <1>4, <1>9, <2>1, <2>3, <3>1 DEF IInv, AtTheTop, NoneBefore
  <2> QED
    BY <1>11, <2>2, <2>3
<1>19. FurtherDown'
  <2> SUFFICES ASSUME Place > 0, NEW p \in Open'
               PROVE  IF Owed(p)
                      THEN /\ Rank(p, Live') > Place
                           /\ \A q \in stored \ gone : q > p =>
                                Rank(q, Live') <= Place + news'
                                  - (IF walk.streak > 0 THEN PageSize ELSE 0)
                      ELSE (\A q \in stored \ gone : q <= p) /\ Rank(p, Live') <= news'
    BY <1>1, <1>4 DEF FurtherDown, NoneBefore, Owed
  <2>1. news' = news + 1
    BY <1>4, <1>5 DEF UnderWay, IInv, Places, Place
  <2>2. CASE p = n
    BY <1>3, <1>4, <1>6, <1>10, <1>17, <2>1, <2>2
  <2>3. CASE p \in Open
    <3>1. p \in Live
      BY <2>3 DEF Open
    <3>2. CASE Owed(p)
      <4>1. /\ Rank(p, Live) > Place
            /\ \A q \in stored \ gone : q > p =>
                 Rank(q, Live) <= Place + news - (IF walk.streak > 0 THEN PageSize ELSE 0)
        BY <2>3, <3>2 DEF IInv, FurtherDown
      <4> QED
        BY <1>4, <1>9, <1>17, <2>1, <3>1, <3>2, <4>1
    <3>3. CASE ~Owed(p)
      BY <1>4, <1>9, <2>1, <2>3, <3>1, <3>3 DEF IInv, FurtherDown, NoneBefore
    <3> QED
      BY <3>2, <3>3
  <2> QED
    BY <1>11, <2>2, <2>3
<1>20. CompleteMeansStored' /\ WindowHasTheRest'
  <2>1. \A q \in Ids : posts'[q] = posts[q]
    BY <1>2 DEF Ids
  <2>2. posts'[n] >= slice.last - (Slack - DayLength)
    <3>1. slice.last <= clock /\ slice.last \in Int
      BY DEF IInv, Shapes, Never
    <3>2. posts'[n] = clock
      BY <1>2
    <3>3. Slack \in Nat /\ DayLength \in Nat /\ Slack >= DayLength /\ clock \in Nat
      BY <1>1, Sizes
    <3>4. clock >= slice.last - (Slack - DayLength)
      BY ONLY <3>1, <3>3
    <3> QED
      BY <3>2, <3>4
  <2> QED
    BY <1>1, <1>3, <2>1, <2>2 DEF IInv, CompleteMeansStored, WindowHasTheRest
<1> QED
  BY <1>12, <1>13, <1>14, <1>15, <1>16, <1>18, <1>19, <1>20 DEF IInv

\* A posting that is withdrawn lets those behind it move up; the one that slips past the walk's
\* place is excused.
LEMMA WithdrawKeeps == ASSUME SourceWalkAssumption, IInv, Withdraw PROVE IInv'
<1>1. PICK g \in Live :
        /\ gone' = gone \union {g}
        /\ excused' = excused \union {g} \union
             (IF Rank(g, Live) <= Place
              THEN {q \in Live : Rank(q, Live) = Place + 1} ELSE {})
  BY DEF Withdraw, Live, Place
<1>2. UNCHANGED <<posts, stored, clock, slice, walk, top, covered, news>>
  BY DEF Withdraw
<1>3. Place' = Place /\ Ids' = Ids /\ UnderWay' = UnderWay /\ Live' = Live \ {g}
  BY <1>1, <1>2 DEF Place, Ids, UnderWay, Live
<1>4. Place \in Nat /\ news \in Nat /\ PageSize \in Nat /\ stored \subseteq Ids
  BY Sizes DEF Place, IInv, Shapes, Walks
<1>5. Live \in SUBSET Nat /\ IsFiniteSet(Live)
  BY LiveIsFinite DEF IInv
<1>6. \A p \in Live \ {g} :
        /\ Rank(p, Live) \in Nat
        /\ Rank(p, Live') = IF p < g THEN Rank(p, Live) - 1 ELSE Rank(p, Live)
  BY <1>3, <1>5, RankType, RankPulled
<1>7. Open' \subseteq Open \ {g}
  BY <1>1, <1>2, <1>3 DEF Open
<1>8. gone' \subseteq Ids /\ gone \subseteq gone' /\ excused \subseteq excused' /\ g \in excused'
  BY <1>1 DEF IInv, Shapes, Live
<1>9. Shapes'
  BY <1>2, <1>3, <1>8 DEF IInv, Shapes
<1>10. Sorted' /\ Reaches'
  BY <1>2, <1>3 DEF IInv, Sorted, Reaches
<1>11. Places'
  BY <1>2, <1>3 DEF IInv, Places
<1>12. Tops' /\ GoneIsExcused'
  BY <1>1, <1>2, <1>3, <1>8 DEF IInv, Tops, GoneIsExcused, Owed
<1>13. AtTheTop'
  <2> SUFFICES ASSUME Place = 0, NEW p \in Open'
               PROVE  /\ \A q \in stored \ gone' : q <= p
                      /\ walk.on /\ ~Owed(p) => Rank(p, Live') <= news
    BY <1>2, <1>3 DEF AtTheTop, NoneBefore, Owed
  <2>1. p \in Open /\ p \in Live \ {g}
    BY <1>7 DEF Open
  <2>2. \A q \in stored \ gone : q <= p
    BY <2>1 DEF IInv, AtTheTop, NoneBefore
  <2>3. walk.on /\ ~Owed(p) => Rank(p, Live) <= news
    BY <2>1 DEF IInv, AtTheTop
  <2> QED
    BY <1>4, <1>6, <1>8, <2>1, <2>2, <2>3
<1>14. FurtherDown'
  <2> SUFFICES ASSUME Place > 0, NEW p \in Open'
               PROVE  IF Owed(p)
                      THEN /\ Rank(p, Live') > Place
                           /\ \A q \in stored \ gone' : q > p =>
                                Rank(q, Live') <= Place + news
                                  - (IF walk.streak > 0 THEN PageSize ELSE 0)
                      ELSE (\A q \in stored \ gone' : q <= p) /\ Rank(p, Live') <= news
    BY <1>2, <1>3 DEF FurtherDown, NoneBefore, Owed
  <2>1. p \in Open /\ p \in Live \ {g} /\ p \notin excused'
    BY <1>7 DEF Open
  <2>2. CASE Owed(p)
    <3>1. /\ Rank(p, Live) > Place
          /\ \A q \in stored \ gone : q > p =>
               Rank(q, Live) <= Place + news - (IF walk.streak > 0 THEN PageSize ELSE 0)
      BY <2>1, <2>2 DEF IInv, FurtherDown
    <3>2. Rank(p, Live') > Place
      <4>1. CASE p < g /\ Rank(g, Live) <= Place
        <5>1. Rank(p, Live) # Place + 1
          BY <1>1, <2>1, <4>1
        <5> QED
          BY <1>4, <1>6, <2>1, <3>1, <4>1, <5>1
      <4>2. CASE p < g /\ ~(Rank(g, Live) <= Place)
        <5>1. Rank(g, Live) < Rank(p, Live) /\ Rank(g, Live) \in Nat
          BY <1>5, <2>1, <4>2, RankFalls, RankType
        <5> QED
          BY <1>4, <1>6, <2>1, <4>2, <5>1
      <4>3. CASE ~(p < g)
        BY <1>6, <2>1, <3>1, <4>3
      <4> QED
        BY <4>1, <4>2, <4>3
    <3>3. \A q \in stored \ gone' : q \in Live \ {g} /\ q \in stored \ gone
      BY <1>1, <1>4, <1>8 DEF Live
    <3>4. \A q \in Live \ {g} : Rank(q, Live') <= Rank(q, Live) /\ Rank(q, Live') \in Int
      BY <1>6
    <3>5. Place + news - (IF walk.streak > 0 THEN PageSize ELSE 0) \in Int
      BY <1>4
    <3> QED
      BY <1>6, <2>2, <3>1, <3>2, <3>3, <3>4, <3>5
  <2>3. CASE ~Owed(p)
    <3>1. (\A q \in stored \ gone : q <= p) /\ Rank(p, Live) <= news
      BY <2>1, <2>3 DEF IInv, FurtherDown, NoneBefore
    <3> QED
      BY <1>4, <1>6, <1>8, <2>1, <2>3, <3>1
  <2> QED
    BY <2>2, <2>3
<1>15. CompleteMeansStored' /\ WindowHasTheRest'
  BY <1>2, <1>3, <1>8 DEF IInv, CompleteMeansStored, WindowHasTheRest
<1> QED
  BY <1>9, <1>10, <1>11, <1>12, <1>13, <1>14, <1>15 DEF IInv

LEMMA ClockKeeps == ASSUME SourceWalkAssumption, IInv, Tick PROVE IInv'
<1>1. /\ clock < MaxTime /\ (walk.on => walk.started = clock) /\ clock' = clock + 1
      /\ UNCHANGED <<posts, gone, stored, slice, walk, top, covered, excused, news>>
  BY DEF Tick
<1>2. Place' = Place /\ Live' = Live /\ Ids' = Ids /\ Open' = Open /\ UnderWay' = UnderWay
  BY <1>1 DEF Place, Live, Ids, Open, UnderWay
<1>3. clock \in Nat /\ clock' \in Nat /\ clock' <= MaxTime /\ MaxTime \in Nat
  BY <1>1, Sizes, SMTT(60) DEF IInv, Shapes
<1>4. Shapes'
  BY <1>1, <1>2, <1>3 DEF IInv, Shapes, Never
<1>5. Sorted'
  <2>1. \A p \in Ids : posts[p] \in Nat /\ posts[p] <= clock
    BY PostDays DEF IInv, Sorted
  <2> QED
    BY <1>1, <1>2, <1>3, <2>1 DEF IInv, Sorted
<1>6. Reaches'
  <2>1. walk.on => walk.started \in Nat
    BY DEF IInv, Shapes, Walks
  <2> QED
    BY <1>1, <1>3, <2>1 DEF IInv, Reaches
<1>7. Places'
  <2>1. walk.started \in Nat
    BY DEF IInv, Shapes, Walks
  <2> QED
    BY <1>1, <1>2, <1>3, <2>1 DEF IInv, Places
<1>8. Tops' /\ GoneIsExcused'
  <2>1. top.at \in Nat /\ MaxPause \in Nat
    BY Sizes DEF IInv, Shapes
  <2>2. clock' <= top.at + MaxPause \/ ~(walk.on \/ slice.resume > 0)
    BY <1>1, <1>3, <2>1 DEF Tick
  <2> QED
    BY <1>1, <1>2, <1>3, <2>1, <2>2 DEF IInv, Tops, GoneIsExcused, Owed
<1>9. AtTheTop' /\ FurtherDown' /\ CompleteMeansStored' /\ WindowHasTheRest'
  BY <1>1, <1>2
  DEF IInv, AtTheTop, FurtherDown, CompleteMeansStored, WindowHasTheRest, NoneBefore, Owed
<1> QED
  BY <1>4, <1>5, <1>6, <1>7, <1>8, <1>9 DEF IInv

-----------------------------------------------------------------------------
\* Every posting there was when a complete walk began at the top is in the store, however many runs
\* the walk was spread over, and whatever appeared since is in the window of the next walk: as long
\* as fewer postings appear during an unfinished walk than a page holds, and no walk is unfinished
\* for longer than the window has to spare (walk_slice, posted_window_days, finish_source_walk).
THEOREM NoPostingIsLost ==
  ASSUME SourceWalkAssumption, FewNews, ShortPauses
  PROVE  Spec => []CompleteMeansStored /\ []WindowHasTheRest
<1>1. Init => IInv
  BY InitHolds
<1>2. IInv /\ [Next]_vars => IInv'
  <2> SUFFICES ASSUME IInv, [Next]_vars PROVE IInv'
    OBVIOUS
  <2>1. CASE Begin
    BY <2>1, BeginKeeps
  <2>2. CASE Answered
    BY <2>2, AnsweredKeeps
  <2>3. CASE Capped
    BY <2>3, CappedKeeps
  <2>4. CASE Broken \/ Throttled \/ Turned
    BY <2>4, AskingKeeps
  <2>5. CASE Ignored \/ Die
    BY <2>5, LossesKeep
  <2>6. CASE Post
    BY <2>6, PostKeeps
  <2>7. CASE Withdraw
    BY <2>7, WithdrawKeeps
  <2>8. CASE Tick
    BY <2>8, ClockKeeps
  <2>9. CASE UNCHANGED vars
    <3>1. /\ posts' = posts /\ gone' = gone /\ stored' = stored /\ clock' = clock /\ slice' = slice
          /\ walk' = walk /\ top' = top /\ covered' = covered /\ excused' = excused /\ news' = news
      BY <2>9 DEF vars
    <3>2. Place' = Place /\ Live' = Live /\ Ids' = Ids /\ Open' = Open /\ UnderWay' = UnderWay
      BY <3>1 DEF Place, Live, Ids, Open, UnderWay
    <3>3. /\ Shapes' /\ Sorted' /\ Reaches' /\ Tops' /\ GoneIsExcused'
          /\ CompleteMeansStored' /\ WindowHasTheRest'
      BY <3>1, <3>2 DEF IInv, Shapes, Sorted, Reaches, Tops, GoneIsExcused, CompleteMeansStored,
                        WindowHasTheRest, Owed
    <3>4. Places' /\ AtTheTop' /\ FurtherDown'
      BY <3>1, <3>2 DEF IInv, Places, AtTheTop, FurtherDown, NoneBefore, Owed
    <3> QED
      BY <3>3, <3>4 DEF IInv
  <2> QED
    BY <2>1, <2>2, <2>3, <2>4, <2>5, <2>6, <2>7, <2>8, <2>9 DEF Next
<1>3. IInv => CompleteMeansStored /\ WindowHasTheRest
  BY DEF IInv
<1> QED
  BY <1>1, <1>2, <1>3, PTL DEF Spec

-----------------------------------------------------------------------------
(* The types, which need no bound on the news.                             *)

WalkTypes ==
  [on : BOOLEAN, started : 0..MaxTime, window : 0..FirstPull + Slack + MaxTime,
   offset : 0..MaxOffset, pages : 0..MaxPages, streak : 0..KnownPages,
   attempts : 0..Retries, throttles : 0..Throttles, budget : 0..RunBudget]

Stops == Unfinished \union {"new", "end_of_results", "known_page", "cap_hit"}

Marks == [listed : 0..MaxPosts, at : 0..MaxTime]

TInv == TypeOK /\ slice.last <= clock /\ walk.started <= clock

LEMMA NoWalkTypes == ASSUME SourceWalkAssumption PROVE NoWalk \in WalkTypes
<1>1. /\ 0 \in 0..MaxTime /\ 0 \in 0..FirstPull + Slack + MaxTime /\ 0 \in 0..MaxOffset
      /\ 0 \in 0..MaxPages /\ 0 \in 0..KnownPages /\ 0 \in 0..Retries /\ 0 \in 0..Throttles
      /\ 0 \in 0..RunBudget /\ FALSE \in BOOLEAN
  BY Sizes
<1> QED
  BY ONLY <1>1 DEF NoWalk, WalkTypes

\* What TInv says, part by part.
LEMMA TypeParts ==
  ASSUME SourceWalkAssumption
  PROVE  TInv <=> /\ posts \in Seq(0..MaxTime) /\ Len(posts) <= MaxPosts
                  /\ gone \subseteq Ids /\ stored \subseteq Ids
                  /\ excused \subseteq Ids /\ top \in Marks /\ covered \in 0..MaxPosts
                  /\ clock \in 0..MaxTime
                  /\ slice.last \in Never..MaxTime /\ slice.resume \in 0..MaxOffset
                  /\ slice.stop \in Stops
                  /\ walk \in WalkTypes
                  /\ news \in 0..Burst /\ upsets \in 0..MaxUpsets
                  /\ slice.last <= clock /\ walk.started <= clock
<1>1. {gone, stored, excused} \subseteq SUBSET Ids
        <=> gone \subseteq Ids /\ stored \subseteq Ids /\ excused \subseteq Ids
  OBVIOUS
<1> QED
  BY <1>1, Zenon DEF TInv, TypeOK, WalkTypes, Stops, Marks

\* What the end of a walk does to the slice and the walk.
LEMMA FinishTypes ==
  ASSUME SourceWalkAssumption, TInv, NEW stop \in Stops, NEW next,
         Finish(stop, next), stop \in Unfinished => next \in 0..MaxOffset,
         UNCHANGED <<posts, gone, clock, top>>,
         stored' \subseteq Ids, excused' \subseteq Ids, upsets' \in 0..MaxUpsets
  PROVE  TInv'
<1>1. Ids' = Ids
  BY DEF Ids
<1>2. walk \in WalkTypes /\ slice.last \in Never..MaxTime /\ slice.last <= clock
      /\ walk.started <= clock /\ clock \in 0..MaxTime
  BY TypeParts
<1>3. walk.started \in 0..MaxTime
  BY <1>2 DEF WalkTypes
<1>4. slice'.last \in Never..MaxTime /\ slice'.last <= clock /\ slice'.resume \in 0..MaxOffset
      /\ slice'.stop = stop
  BY <1>2, <1>3, Sizes DEF Finish, Recorded, Never
<1>5. walk' \in WalkTypes /\ walk'.started = 0
  BY NoWalkTypes DEF Finish, NoWalk
<1>6. news' \in 0..Burst
  BY TypeParts, Sizes DEF Finish
<1>7. 0 <= clock'
  BY <1>2, Sizes
<1>8. /\ posts' \in Seq(0..MaxTime) /\ Len(posts') <= MaxPosts /\ gone' \subseteq Ids'
      /\ top' \in Marks /\ clock' \in 0..MaxTime
  BY <1>1, TypeParts
<1>9. covered' \in 0..MaxPosts
  BY TypeParts DEF Finish, Marks
<1>10. slice'.last <= clock' /\ walk'.started <= clock' /\ slice'.stop \in Stops
  BY <1>4, <1>5, <1>7
<1>11. {gone', stored', excused'} \subseteq SUBSET Ids'
  BY <1>1, <1>8
<1> QED
  BY <1>4, <1>5, <1>6, <1>8, <1>9, <1>10, <1>11, Zenon DEF TInv, TypeOK, WalkTypes, Stops, Marks

LEMMA PageTypes ==
  ASSUME SourceWalkAssumption, TInv
  PROVE  /\ PageAt(walk.offset) \subseteq Ids
         /\ Cardinality(PageAt(walk.offset)) \in Nat
         /\ Cardinality(PageAt(walk.offset)) <= PageSize
<1> DEFINE W == Listed(walk.window)
<1>1. Len(posts) \in Nat /\ walk \in WalkTypes
  BY TypeParts
<1>2. IsFiniteSet(1..Len(posts)) /\ 1..Len(posts) \subseteq Nat
  BY <1>1, FS_Interval
<1>3. W \in SUBSET (1..Len(posts))
  BY DEF Listed, Ids
<1>4. W \in SUBSET Nat /\ IsFiniteSet(W)
  BY <1>2, <1>3, FS_Subset
<1>5. walk.offset \in Nat
  BY <1>1, Sizes DEF WalkTypes
<1>6. PageAt(walk.offset) = {p \in W : Rank(p, W) \in walk.offset + 1 .. walk.offset + PageSize}
  BY DEF PageAt
<1> HIDE DEF W
<1>7. IsFiniteSet(PageAt(walk.offset)) /\ Cardinality(PageAt(walk.offset)) \in Nat
      /\ Cardinality(PageAt(walk.offset)) <= PageSize
  BY <1>4, <1>5, <1>6, PageFits
<1> QED
  BY <1>3, <1>6, <1>7 DEF Ids

\* A step that leaves the slice as it is and the walk well typed.
LEMMA WalkStepTypes ==
  ASSUME SourceWalkAssumption, TInv, walk' \in WalkTypes, walk'.started <= clock,
         UNCHANGED <<posts, gone, clock, slice, covered, news>>,
         stored' \subseteq Ids, top' \in Marks, excused' \subseteq Ids,
         upsets' \in 0..MaxUpsets
  PROVE  TInv'
<1>1. Ids' = Ids
  BY DEF Ids
<1>2. /\ posts' \in Seq(0..MaxTime) /\ Len(posts') <= MaxPosts /\ gone' \subseteq Ids'
      /\ clock' \in 0..MaxTime /\ slice'.last \in Never..MaxTime /\ slice'.resume \in 0..MaxOffset
      /\ slice'.stop \in Stops /\ slice'.last <= clock' /\ news' \in 0..Burst
      /\ covered' \in 0..MaxPosts
  BY <1>1, TypeParts
<1> QED
  BY <1>1, <1>2 DEF TInv, TypeOK, WalkTypes, Stops, Marks

LEMMA BeginTypes == ASSUME SourceWalkAssumption, TInv, Begin PROVE TInv'
<1>1. /\ walk' = [on |-> TRUE, started |-> clock, window |-> Window, offset |-> slice.resume,
                  pages |-> 0, streak |-> 0, attempts |-> 0, throttles |-> 0,
                  budget |-> RunBudget]
      /\ top' = IF slice.resume = 0 THEN [listed |-> Len(posts), at |-> clock] ELSE top
      /\ UNCHANGED <<posts, gone, stored, clock, slice, covered, excused, news, upsets>>
  BY DEF Begin, NoWalk
<1>2. clock \in 0..MaxTime /\ slice.resume \in 0..MaxOffset /\ slice.last \in Never..MaxTime
      /\ slice.last <= clock /\ stored \subseteq Ids /\ excused \subseteq Ids
      /\ top \in Marks /\ upsets \in 0..MaxUpsets
      /\ posts \in Seq(0..MaxTime) /\ Len(posts) <= MaxPosts
  BY TypeParts
<1>3. Window \in 0..FirstPull + Slack + MaxTime
  <2>1. CASE slice.last = Never
    BY <2>1, Sizes DEF Window
  <2>2. CASE slice.last # Never
    <3>1. clock - slice.last \in Nat /\ slice.last \in Nat
      BY <1>2, <2>2 DEF Never
    <3>2. Window = WholeDays(clock - slice.last) + Slack
      BY <2>2 DEF Window
    <3> QED
      <4>1. /\ WholeDays(clock - slice.last) \in Nat
            /\ WholeDays(clock - slice.last) <= clock - slice.last
        BY <3>1, WholeDaysAre
      <4>2. WholeDays(clock - slice.last) + Slack <= FirstPull + Slack + MaxTime
        <5>1. /\ clock \in Nat /\ clock <= MaxTime /\ MaxTime \in Nat /\ FirstPull \in Nat
              /\ Slack \in Nat
          BY <1>2, Sizes
        <5> QED
          BY ONLY <3>1, <4>1, <5>1
      <4> QED
        BY <3>2, <4>1, <4>2, Sizes
  <2> QED
    BY <2>1, <2>2
<1>4. /\ 0 \in 0..MaxPages /\ 0 \in 0..KnownPages /\ 0 \in 0..Retries /\ 0 \in 0..Throttles
      /\ RunBudget \in 0..RunBudget
  BY Sizes
<1>5. [on |-> TRUE, started |-> clock, window |-> Window, offset |-> slice.resume,
       pages |-> 0, streak |-> 0, attempts |-> 0, throttles |-> 0, budget |-> RunBudget]
        \in WalkTypes
  BY ONLY <1>2, <1>3, <1>4 DEF WalkTypes
<1>6. walk' \in WalkTypes
  BY <1>1, <1>5, Zenon
<1>7. walk'.started <= clock
  BY <1>1, <1>2, Sizes
<1>8. top' \in Marks
  <2>1. Len(posts) \in 0..MaxPosts
    BY <1>2, Sizes
  <2> QED
    BY <1>1, <1>2, <2>1 DEF Marks
<1> QED
  BY <1>1, <1>2, <1>6, <1>7, <1>8, WalkStepTypes

LEMMA AnsweredTypes == ASSUME SourceWalkAssumption, TInv, Answered PROVE TInv'
<1> DEFINE page == PageAt(walk.offset)
           next == walk.offset + Cardinality(page)
<1>1. /\ Asking /\ stored' = stored \union (page \ Skipped)
      /\ UNCHANGED <<posts, gone, clock, top, excused, upsets>>
  BY DEF Answered
<1>2. page \subseteq Ids /\ Cardinality(page) \in Nat /\ Cardinality(page) <= PageSize
  BY PageTypes
<1>3. stored' \subseteq Ids /\ top' \in Marks /\ excused' \subseteq Ids
      /\ upsets' \in 0..MaxUpsets
  BY <1>1, <1>2, TypeParts
<1>4. walk \in WalkTypes /\ walk.started <= clock
  BY TypeParts
<1>5. CASE \E stop \in {"end_of_results", "known_page"} : Finish(stop, next)
  BY <1>1, <1>3, <1>5, FinishTypes DEF Stops, Unfinished
<1>6. CASE /\ Streak(page) < KnownPages
           /\ walk' = [walk EXCEPT !.offset = next, !.pages = @ + 1, !.streak = Streak(page),
                                   !.attempts = 0, !.throttles = 0]
           /\ UNCHANGED <<slice, covered, news>>
  <2>1. /\ walk.on \in BOOLEAN /\ walk.started \in 0..MaxTime
        /\ walk.window \in 0..FirstPull + Slack + MaxTime /\ walk.budget \in 0..RunBudget
        /\ walk.offset \in 0..MaxOffset /\ walk.pages \in 0..MaxPages
        /\ walk.streak \in 0..KnownPages
    BY <1>4 DEF WalkTypes
  <2>2. next \in 0..MaxOffset
    BY <1>1, <1>2, <2>1, Sizes DEF Asking
  <2>3. walk.pages + 1 \in 0..MaxPages
    BY <1>1, <2>1, Sizes DEF Asking
  <2>4. Streak(page) \in 0..KnownPages
    BY <1>6, <2>1, Sizes DEF Streak
  <2>5. 0 \in 0..Retries /\ 0 \in 0..Throttles
    BY Sizes
  <2>6. walk' = [on |-> walk.on, started |-> walk.started, window |-> walk.window,
                 offset |-> next, pages |-> walk.pages + 1, streak |-> Streak(page),
                 attempts |-> 0, throttles |-> 0, budget |-> walk.budget]
    BY <1>4, <1>6 DEF WalkTypes
  <2>7. [on |-> walk.on, started |-> walk.started, window |-> walk.window,
         offset |-> next, pages |-> walk.pages + 1, streak |-> Streak(page),
         attempts |-> 0, throttles |-> 0, budget |-> walk.budget] \in WalkTypes
    BY ONLY <2>1, <2>2, <2>3, <2>4, <2>5 DEF WalkTypes
  <2>8. walk' \in WalkTypes /\ walk'.started = walk.started
    BY <2>6, <2>7
  <2> QED
    BY <1>1, <1>3, <1>4, <1>6, <2>8, WalkStepTypes
<1> QED
  BY <1>5, <1>6 DEF Answered

LEMMA AskingTypes ==
  ASSUME SourceWalkAssumption, TInv, Broken \/ Throttled \/ Turned \/ Ignored \/ Capped \/ Die
  PROVE  TInv'
<1>1. /\ walk.on /\ UNCHANGED <<posts, gone, stored, clock>>
  BY DEF Broken, Throttled, Turned, Asking, Ignored, Capped, Die
<1>2. /\ stored \subseteq Ids /\ top \in Marks /\ excused \subseteq Ids
      /\ upsets \in 0..MaxUpsets /\ walk \in WalkTypes /\ walk.started <= clock
      /\ clock \in 0..MaxTime /\ slice.resume \in 0..MaxOffset
  BY TypeParts
<1>3. walk.offset \in 0..MaxOffset
  BY <1>2 DEF WalkTypes
<1>4. ASSUME NEW stop \in {"error", "rate_limited"}, Finish(stop, walk.offset),
             UNCHANGED <<top, excused, upsets>>
      PROVE  TInv'
  BY <1>1, <1>2, <1>3, <1>4, FinishTypes DEF Stops, Unfinished
<1>5. ASSUME NEW w \in WalkTypes, walk' = w, w.started = walk.started,
             UNCHANGED <<slice, covered, news, top, excused, upsets>>
      PROVE  TInv'
  BY <1>1, <1>2, <1>5, WalkStepTypes
<1>6. CASE Turned
  BY <1>4, <1>6 DEF Turned
<1>7. CASE Broken
  <2>1. CASE walk.attempts < Retries /\ walk' = [walk EXCEPT !.attempts = @ + 1]
             /\ UNCHANGED <<slice, covered, news>>
    <3>1. [walk EXCEPT !.attempts = @ + 1] \in WalkTypes
      BY <1>2, <2>1, Sizes DEF WalkTypes
    <3>2. [walk EXCEPT !.attempts = @ + 1].started = walk.started
      BY <1>2 DEF WalkTypes
    <3> QED
      BY <1>5, <1>7, <2>1, <3>1, <3>2 DEF Broken
  <2> QED
    BY <1>4, <1>7, <2>1 DEF Broken
<1>8. CASE Throttled
  <2>1. ASSUME NEW wait \in 1..RunBudget + 1, walk.throttles < Throttles, wait <= walk.budget,
               walk' = [walk EXCEPT !.throttles = @ + 1, !.budget = @ - wait],
               UNCHANGED <<slice, covered, news>>
        PROVE  TInv'
    <3>1. walk.throttles \in 0..Throttles /\ walk.budget \in 0..RunBudget
      BY <1>2 DEF WalkTypes
    <3>2. walk.throttles + 1 \in 0..Throttles /\ walk.budget - wait \in 0..RunBudget
      BY <2>1, <3>1, Sizes
    <3>3. [walk EXCEPT !.throttles = walk.throttles + 1] \in WalkTypes
      BY <1>2, <3>2 DEF WalkTypes
    <3>4. [[walk EXCEPT !.throttles = walk.throttles + 1] EXCEPT !.budget = walk.budget - wait]
            \in WalkTypes
      BY <3>2, <3>3 DEF WalkTypes
    <3>5. walk' = [[walk EXCEPT !.throttles = walk.throttles + 1]
                      EXCEPT !.budget = walk.budget - wait]
      BY <1>2, <2>1 DEF WalkTypes
    <3>6. walk'.started = walk.started
      BY <1>2, <3>5 DEF WalkTypes
    <3> QED
      BY <1>5, <1>8, <2>1, <3>4, <3>5, <3>6 DEF Throttled
  <2>2. CASE Finish("rate_limited", walk.offset)
    BY <1>4, <1>8, <2>2 DEF Throttled
  <2> QED
    BY <1>8, <2>1, <2>2 DEF Throttled
<1>9. Missed \subseteq Ids
  BY DEF Missed
<1>10. LosesPlace => excused' \subseteq Ids /\ upsets' \in 0..MaxUpsets
  BY <1>2, <1>9, Sizes DEF LosesPlace
<1>11. CASE Ignored
  <2>1. Finish("error", slice.resume) /\ LosesPlace /\ top' = top
    BY <1>11 DEF Ignored
  <2> QED
    BY <1>1, <1>2, <1>10, <2>1, FinishTypes DEF Stops, Unfinished
<1>12. CASE Capped
  <2>1. Finish("cap_hit", walk.offset) /\ excused' = excused \union Missed
        /\ upsets' = upsets /\ top' = top
    BY <1>12 DEF Capped
  <2> QED
    BY <1>1, <1>2, <1>9, <2>1, FinishTypes DEF Stops, Unfinished
<1>13. CASE Die
  <2>1. walk' = NoWalk /\ LosesPlace /\ UNCHANGED <<slice, top, covered, news>>
    BY <1>13 DEF Die
  <2>2. walk' \in WalkTypes /\ walk'.started <= clock
    BY <1>2, <2>1, NoWalkTypes, Sizes DEF NoWalk
  <2> QED
    BY <1>1, <1>2, <1>10, <2>1, <2>2, WalkStepTypes
<1> QED
  BY <1>6, <1>7, <1>8, <1>11, <1>12, <1>13

LEMMA SourceTypesKeep == ASSUME SourceWalkAssumption, TInv, Post \/ Withdraw \/ Tick PROVE TInv'
<1>1. UNCHANGED <<stored, slice, walk, top, covered>>
  BY DEF Post, Withdraw, Tick
<1>2. /\ posts \in Seq(0..MaxTime) /\ Len(posts) <= MaxPosts
      /\ gone \subseteq Ids /\ stored \subseteq Ids /\ top \in Marks /\ covered \in 0..MaxPosts
      /\ excused \subseteq Ids /\ clock \in 0..MaxTime
      /\ slice.last \in Never..MaxTime /\ slice.resume \in 0..MaxOffset
      /\ slice.stop \in Stops /\ walk \in WalkTypes /\ news \in 0..Burst
      /\ upsets \in 0..MaxUpsets /\ slice.last <= clock /\ walk.started <= clock
  BY TypeParts
<1>3. walk.started \in 0..MaxTime
  BY <1>2 DEF WalkTypes
<1>4. /\ news \in 0..Burst /\ upsets \in 0..MaxUpsets /\ clock \in 0..MaxTime
      /\ slice.last \in Never..MaxTime /\ slice.last <= clock /\ walk.started <= clock
  BY <1>2
<1>5. MaxUpsets \in Nat /\ Burst \in Nat /\ MaxTime \in Nat
  BY Sizes
<1>6. CASE Post
  <2>1. posts' = Append(posts, clock) /\ Len(posts) < MaxPosts /\ Len(posts) \in Nat
        /\ UNCHANGED <<gone, clock, excused, upsets>>
    BY <1>2, <1>6 DEF Post
  <2>2. posts' \in Seq(0..MaxTime) /\ Len(posts') = Len(posts) + 1
    BY <1>2, <2>1
  <2>3. Len(posts') <= MaxPosts /\ Ids \subseteq Ids'
    BY <2>1, <2>2, Sizes, SMTT(30) DEF Ids
  <2>4. news' \in 0..Burst
    <3>1. news' = 0 \/ (news < Burst /\ news' = news + 1)
      BY <1>6 DEF Post
    <3> QED
      BY ONLY <1>4, <1>5, <3>1
  <2> QED
    BY <1>1, <1>2, <2>1, <2>2, <2>3, <2>4 DEF TInv, TypeOK, WalkTypes, Stops, Marks
<1>7. CASE Withdraw
  <2>1. UNCHANGED <<posts, clock, news>> /\ upsets < MaxUpsets /\ upsets' = upsets + 1
    BY <1>7 DEF Withdraw
  <2>2. Ids' = Ids
    BY <2>1 DEF Ids
  <2>3. gone' \subseteq Ids' /\ excused' \subseteq Ids'
    BY <1>2, <1>7, <2>2 DEF Withdraw
  <2>4. upsets' \in 0..MaxUpsets
    BY ONLY <1>4, <1>5, <2>1
  <2> QED
    BY <1>1, <1>2, <2>1, <2>2, <2>3, <2>4 DEF TInv, TypeOK, WalkTypes, Stops, Marks
<1>8. CASE Tick
  <2>1. UNCHANGED <<posts, gone, excused, news, upsets>> /\ clock < MaxTime /\ clock' = clock + 1
    BY <1>8 DEF Tick
  <2>2. Ids' = Ids
    BY <2>1 DEF Ids
  <2>3. clock' \in 0..MaxTime /\ slice'.last <= clock' /\ walk'.started <= clock'
    <3>1. slice'.last = slice.last /\ walk'.started = walk.started /\ slice.last \in Int
      BY <1>1, <1>4 DEF Never
    <3> QED
      BY ONLY <1>3, <1>4, <1>5, <2>1, <3>1
  <2> QED
    BY <1>1, <1>2, <2>1, <2>2, <2>3 DEF TInv, TypeOK, WalkTypes, Stops, Marks
<1> QED
  BY <1>6, <1>7, <1>8

\* The variables of the slice and its walks keep their types: places within what the interface
\* serves, pages, waits and attempts within their bounds (base.py, freehire.py, himalayas.py).
THEOREM SourceWalkTypes == ASSUME SourceWalkAssumption PROVE Spec => []TypeOK
<1>1. Init => TInv
  <2> SUFFICES ASSUME Init PROVE TInv
    OBVIOUS
  <2>1. walk \in WalkTypes /\ walk.started = 0
    BY NoWalkTypes DEF Init, NoWalk
  <2>2. posts \in Seq(0..MaxTime) /\ Len(posts) = Initially
    BY Sizes, SMTT(60) DEF Init
  <2>3. /\ 0 \in 0..MaxTime /\ 0 \in 0..MaxOffset /\ 0 \in 0..Burst /\ 0 \in 0..MaxUpsets
        /\ Never \in Never..MaxTime /\ Never <= 0 /\ 0 <= 0 /\ Initially <= MaxPosts
    BY Sizes DEF Never
  <2>4. slice.last = Never /\ slice.resume = 0 /\ slice.stop \in Stops
    BY DEF Init, Stops
  <2>5. gone = {} /\ stored = {} /\ top \in Marks /\ covered = 0 /\ excused = {} /\ clock = 0 /\ news = 0
        /\ upsets = 0
    BY Sizes DEF Init, Marks
  <2>6. gone \subseteq Ids /\ stored \subseteq Ids /\ excused \subseteq Ids /\ covered \in 0..MaxPosts
    BY <2>5, Sizes
  <2>7. Len(posts) <= MaxPosts
    BY <2>2, <2>3
  <2> QED
    BY <2>1, <2>2, <2>3, <2>4, <2>5, <2>6, <2>7, TypeParts
<1>2. TInv /\ [Next]_vars => TInv'
  <2> SUFFICES ASSUME TInv, [Next]_vars PROVE TInv'
    OBVIOUS
  <2>1. CASE UNCHANGED vars
    BY <2>1 DEF vars, TInv, TypeOK, Ids
  <2> QED
    BY <2>1, BeginTypes, AnsweredTypes, AskingTypes, SourceTypesKeep DEF Next
<1>3. TInv => TypeOK
  BY DEF TInv
<1> QED
  BY <1>1, <1>2, <1>3, PTL DEF Spec

-----------------------------------------------------------------------------
(* The days of a source: its timers, the walks it owes and its heartbeat.   *)

CONSTANTS Slices, Day, ResumeAt, DaySlack, MaxSlots, DayUpsets
VARIABLES now, stop, due, beat, run, owed, failing, last, torn, late

T == INSTANCE SourceDay WITH Slack <- DaySlack, MaxUpsets <- DayUpsets

\* The types the proofs need.
DayShapes ==
  /\ now \in Nat
  /\ stop \in [Slices -> T!Unfinished \union {"new", "finished"}] /\ due \in [Slices -> Nat]
  /\ beat \in [at : Nat, state : {"none", "starting", "ok", "idle", "error"}, crashed : BOOLEAN]
  /\ run \in [on : BOOLEAN, daily : BOOLEAN, since : Nat, walked : SUBSET Slices,
              error : BOOLEAN, recovered : BOOLEAN]
  /\ owed \in BOOLEAN /\ torn \in BOOLEAN /\ failing \subseteq Slices
  /\ last \in Nat /\ late \in 0..2

\* The slot of the last daily timer.
Morning == now - T!Phase(now)

\* A run lasts half an hour: a resume run never meets the daily timer, and a daily run that the
\* timer meets began late.
RunsAreShort ==
  run.on =>
    /\ run.since = now \/ run.since + 1 = now
    /\ ~run.daily => T!Phase(run.since) \in ResumeAt
    /\ run.daily /\ late < 2 => T!Phase(run.since) = 0 /\ ~(owed /\ T!Phase(now) = 0)
    /\ run.daily /\ owed => T!Phase(now) = 0 /\ run.since # now

\* When a slice is due at the latest: in the morning, if the daily runs are on time.
Latest ==
  IF late = 2 THEN Morning + (IF owed THEN Day ELSE 2 * Day)
  ELSE Morning + (IF owed /\ T!Phase(now) = 0 THEN 0 ELSE Day)
DueInTime == \A s \in Slices : due[s] <= Latest

\* A daily run that is on time walks every slice.
Unwalked ==
  run.on /\ run.daily /\ late = 0 => \A s \in Slices \ run.walked : due[s] <= run.since

\* A slice that failed is known by its stop reason; what the daily run at work has walked and
\* failed is in its heartbeat.
FailureIsRecorded ==
  /\ \A s \in failing : stop[s] = "error"
  /\ run.on /\ run.daily =>
       /\ \A s \in failing \cap run.walked : run.error
       /\ run.error => beat.state = "error"

\* ErrorsStayVisible, and while a resume run is at work.
ErrorIsShown ==
  ~(run.on /\ run.daily) /\ beat.state \in {"ok", "idle"} /\ ~torn /\ late = 0 => failing = {}

DayInv == DayShapes /\ RunsAreShort /\ DueInTime /\ Unwalked /\ FailureIsRecorded /\ ErrorIsShown
        /\ T!SilenceIsTheDailyRuns

-----------------------------------------------------------------------------
\* A remainder is unique.
LEMMA Remainder ==
  ASSUME NEW d \in Nat, d > 0, NEW a \in Nat, NEW q \in Int, NEW r \in 0..d - 1, a = d * q + r
  PROVE  a % d = r
<1> DEFINE p == a \div d
           m == a % d
<1>1. p \in Int /\ m \in 0..d - 1 /\ a = d * p + m
  OBVIOUS
<1> HIDE DEF p, m
<1>2. d * (p - q) = r - m
  <2>1. d * (p - q) = d * p - d * q
    BY <1>1
  <2> QED
    BY <1>1, <2>1
<1>3. ~(p - q >= 1)
  <2> SUFFICES ASSUME p - q >= 1 PROVE FALSE
    OBVIOUS
  <2>1. d * (p - q) >= d
    BY <1>1
  <2> QED
    BY <1>1, <1>2, <2>1
<1>4. ~(q - p >= 1)
  <2> SUFFICES ASSUME q - p >= 1 PROVE FALSE
    OBVIOUS
  <2>1. d * (q - p) >= d
    BY <1>1
  <2>2. d * (q - p) = m - r
    BY <1>1, <1>2
  <2> QED
    BY <1>1, <2>1, <2>2
<1>5. p = q
  BY <1>1, <1>3, <1>4
<1> QED
  BY <1>1, <1>5 DEF m

\* The phase moves with the slot.
LEMMA Phases ==
  ASSUME T!SourceDayAssumption, NEW n \in Nat
  PROVE  /\ T!Phase(n) \in 0..Day - 1 /\ T!Phase(n) <= n
         /\ T!Phase(n + 1) = IF T!Phase(n) + 1 = Day THEN 0 ELSE T!Phase(n) + 1
<1> DEFINE q == n \div Day
<1>1. Day \in Nat /\ Day > 0
  BY DEF T!SourceDayAssumption
<1>2. q \in Int /\ T!Phase(n) \in 0..Day - 1 /\ n = Day * q + T!Phase(n) /\ q >= 0
  BY <1>1 DEF T!Phase
<1>3. Day * q >= 0
  BY <1>1, <1>2
<1>4. CASE T!Phase(n) + 1 = Day
  <2>1. n + 1 = Day * (q + 1) + 0 /\ 0 \in 0..Day - 1 /\ n + 1 \in Nat /\ q + 1 \in Int
    BY <1>1, <1>2, <1>4
  <2>2. (n + 1) % Day = 0
    BY <1>1, <2>1, Remainder
  <2> QED
    BY <1>1, <1>2, <1>3, <1>4, <2>2 DEF T!Phase
<1>5. CASE T!Phase(n) + 1 # Day
  <2>1. n + 1 = Day * q + (T!Phase(n) + 1) /\ T!Phase(n) + 1 \in 0..Day - 1
    BY <1>1, <1>2, <1>5
  <2>2. (n + 1) % Day = T!Phase(n) + 1
    <3>1. n + 1 \in Nat
      OBVIOUS
    <3> HIDE DEF q
    <3> QED
      BY <1>1, <1>2, <2>1, <3>1, Remainder
  <2> QED
    BY <1>1, <1>2, <1>3, <1>5, <2>2 DEF T!Phase
<1> QED
  BY <1>4, <1>5

LEMMA DayInit == ASSUME T!SourceDayAssumption PROVE T!Init => DayInv
<1> SUFFICES ASSUME T!Init PROVE DayInv
  OBVIOUS
<1>1. T!Phase(0) = 0 /\ 0 \in Nat /\ Day \in Nat
  BY Phases DEF T!SourceDayAssumption
<1> QED
  <2>1. DayShapes
    <3>1. stop \in [Slices -> T!Unfinished \union {"new", "finished"}] /\ due \in [Slices -> Nat]
      BY <1>1 DEF T!Init
    <3>2. /\ beat \in [at : Nat, state : {"none", "starting", "ok", "idle", "error"}, crashed : BOOLEAN]
          /\ run \in [on : BOOLEAN, daily : BOOLEAN, since : Nat, walked : SUBSET Slices,
                      error : BOOLEAN, recovered : BOOLEAN]
      BY <1>1 DEF T!Init, T!NoRun
    <3>3. now = 0 /\ owed = TRUE /\ torn = FALSE /\ failing = {} /\ last = 0 /\ late = 0
      BY DEF T!Init
    <3> QED
      BY <1>1, <3>1, <3>2, <3>3, 0 \in 0..2, Zenon DEF DayShapes
  <2>2. DueInTime
    <3>1. now = 0 /\ T!Phase(now) = 0 /\ late = 0 /\ owed
      BY <1>1 DEF T!Init
    <3>2. Latest = 0
      BY <3>1 DEF Latest, Morning
    <3>3. due = [s \in Slices |-> 0]
      BY DEF T!Init
    <3> QED
      BY <1>1, <3>2, <3>3, 0 <= 0 DEF DueInTime
  <2> QED
    BY <2>1, <2>2 DEF T!Init, DayInv, RunsAreShort, Unwalked, FailureIsRecorded, ErrorIsShown,
       T!SilenceIsTheDailyRuns, T!NoRun

\* The slots and the latest slot at which a slice is due, as numbers.
LEMMA Numbers ==
  ASSUME T!SourceDayAssumption, DayInv
  PROVE  /\ now \in Nat /\ Day \in Nat /\ Day > 0 /\ DaySlack \in Nat /\ DaySlack > 0 /\ DaySlack < Day
         /\ T!Phase(now) \in 0..Day - 1 /\ T!Phase(now) <= now /\ Morning \in Nat /\ Latest \in Nat
BY Phases, SMTT(30) DEF T!SourceDayAssumption, DayInv, DayShapes, Morning, Latest

\* The daily run starts: on time, it finds every slice due.
LEMMA StartDailyKeeps == ASSUME T!SourceDayAssumption, DayInv, T!StartDaily PROVE DayInv'
<1>1. PICK l \in 0..2 : /\ late' = l /\ now' = now /\ due' = due /\ owed' = FALSE /\ torn' = FALSE
                        /\ l = (IF T!Phase(now) # 0 THEN 2 ELSE IF late > 0 THEN late - 1 ELSE 0)
                        /\ last' = now /\ beat' = [at |-> now, state |-> "starting", crashed |-> FALSE]
                        /\ stop' = stop /\ failing' = failing
  BY DEF T!StartDaily, DayInv, DayShapes
<1>2. run' = [on |-> TRUE, daily |-> TRUE, since |-> now, walked |-> {}, error |-> FALSE, recovered |-> FALSE]
  BY DEF T!StartDaily, T!NoRun
<1>3. owed = TRUE
  BY DEF T!StartDaily, DayInv, DayShapes
<1>4. DayShapes'
  BY <1>1, <1>2 DEF DayInv, DayShapes
<1>5. RunsAreShort'
  BY <1>1, <1>2, Numbers DEF RunsAreShort, T!Phase
<1>6. DueInTime'
  <2>1. Latest <= Latest' /\ Latest' \in Nat
    BY <1>1, <1>3, Numbers DEF Latest, Morning, DayInv, DayShapes
  <2> QED
    BY <1>1, <2>1, Numbers DEF DayInv, DueInTime, DayShapes
<1>7. Unwalked'
  <2> SUFFICES ASSUME l = 0 PROVE \A s \in Slices : due[s] <= now
    BY <1>1, <1>2 DEF Unwalked
  <2>1. Latest = now
    BY <1>1, <1>3, Numbers DEF Latest, Morning, DayInv, DayShapes
  <2> QED
    BY <2>1 DEF DayInv, DueInTime
<1>8. FailureIsRecorded' /\ ErrorIsShown' /\ T!SilenceIsTheDailyRuns'
  BY <1>1, <1>2 DEF FailureIsRecorded, ErrorIsShown, T!SilenceIsTheDailyRuns, DayInv
<1> QED
  BY <1>4, <1>5, <1>6, <1>7, <1>8 DEF DayInv

\* The lock is taken: the timer is forgotten.
LEMMA LockedOutKeeps == ASSUME T!SourceDayAssumption, DayInv, T!LockedOut PROVE DayInv'
<1>1. owed = TRUE /\ owed' = FALSE /\ UNCHANGED <<now, stop, due, beat, run, failing, last, torn, late>>
  BY DEF T!LockedOut, DayInv, DayShapes
<1>2. DayShapes'
  BY <1>1 DEF DayInv, DayShapes
<1>3. DueInTime'
  <2>1. Latest <= Latest' /\ Latest' \in Nat
    BY <1>1, Numbers DEF Latest, Morning, DayInv, DayShapes
  <2> QED
    BY <1>1, <2>1, Numbers DEF DayInv, DueInTime, DayShapes
<1> QED
  BY <1>1, <1>2, <1>3 DEF DayInv, RunsAreShort, Unwalked, FailureIsRecorded, ErrorIsShown,
     T!SilenceIsTheDailyRuns, T!Phase

LEMMA StartResumeKeeps == ASSUME T!SourceDayAssumption, DayInv, T!StartResume PROVE DayInv'
<1>1. /\ T!Phase(now) \in ResumeAt /\ ~run.on
      /\ run' = [on |-> TRUE, daily |-> FALSE, since |-> now, walked |-> {}, error |-> FALSE, recovered |-> FALSE]
      /\ UNCHANGED <<now, stop, due, beat, owed, failing, last, torn, late>>
  BY DEF T!StartResume, T!NoRun
<1>2. DayShapes'
  BY <1>1 DEF DayInv, DayShapes
<1> QED
  BY <1>1, <1>2 DEF DayInv, RunsAreShort, DueInTime, Latest, Morning, Unwalked, FailureIsRecorded,
     ErrorIsShown, T!SilenceIsTheDailyRuns, T!Phase

\* When the next walk of a slice is due: by the next morning, or the one after it if the run is late.
LEMMA NextDueInTime ==
  ASSUME T!SourceDayAssumption, DayInv, run.on, NEW outcome
  PROVE  T!NextDue(outcome) \in Nat /\ T!NextDue(outcome) <= Latest /\ T!NextDue(outcome) <= now + Day
<1>1. now \in Nat /\ Day \in Nat /\ DaySlack \in Nat /\ DaySlack > 0 /\ DaySlack < Day /\ Day > 1
      /\ T!Phase(now) \in 0..Day - 1 /\ T!Phase(now) <= now
  BY Numbers
<1>2. (DaySlack \div 2) \in Nat /\ (DaySlack \div 2) <= DaySlack
  BY <1>1
<1>3. T!NextDue(outcome) \in {now + 1, now + Day - DaySlack, now + (DaySlack \div 2)}
      /\ (~run.daily => T!NextDue(outcome) \in {now + 1, now + (DaySlack \div 2)})
      /\ (run.daily => T!NextDue(outcome) \in {now + 1, now + Day - DaySlack})
  BY DEF T!NextDue
<1>4. T!NextDue(outcome) \in Nat /\ T!NextDue(outcome) <= now + Day
  BY <1>1, <1>2, <1>3
<1>5. run.since \in Nat /\ (run.since = now \/ run.since + 1 = now) /\ late \in 0..2 /\ owed \in BOOLEAN
      /\ run.daily \in BOOLEAN
  BY DEF DayInv, DayShapes, RunsAreShort
<1>6. CASE ~run.daily
  <2>1. T!Phase(run.since) \in ResumeAt
    BY <1>6 DEF DayInv, RunsAreShort
  <2>2. T!Phase(run.since) \in Nat /\ T!Phase(run.since) > 0 /\ T!Phase(run.since) + 2 <= Day
        /\ T!Phase(run.since) + 1 + (DaySlack \div 2) <= Day
    <3>1. ResumeAt \subseteq 0..Day - 1
          /\ \A r \in ResumeAt : r > 0 /\ r + 2 <= Day /\ r + 1 + (DaySlack \div 2) <= Day
      BY DEF T!SourceDayAssumption
    <3>2. T!Phase(run.since) \in 0..Day - 1
      BY <2>1, <3>1
    <3> QED
      BY <1>1, <2>1, <3>1, <3>2
  <2>3. T!Phase(now) = T!Phase(run.since) \/ T!Phase(now) = T!Phase(run.since) + 1
    BY <1>1, <1>5, <2>2, Phases
  <2>4. T!NextDue(outcome) <= now - T!Phase(now) + Day
    BY <1>1, <1>2, <1>3, <1>6, <2>2, <2>3
  <2>5. Latest >= now - T!Phase(now) + Day
    BY <1>1, <1>5, <2>2, <2>3 DEF Latest, Morning
  <2> QED
    BY <1>1, <1>4, <2>4, <2>5, Numbers
<1>7. CASE run.daily /\ late < 2
  <2>1. T!Phase(run.since) = 0 /\ (T!Phase(now) = 0 \/ T!Phase(now) = 1) /\ ~(owed /\ T!Phase(now) = 0)
    BY <1>1, <1>5, <1>7, Phases DEF DayInv, RunsAreShort
  <2>2. Latest = now - T!Phase(now) + Day
    BY <1>1, <1>5, <1>7, <2>1 DEF Latest, Morning
  <2> QED
    BY <1>1, <1>3, <1>4, <1>7, <2>1, <2>2
<1>8. CASE run.daily /\ late = 2
  <2>1. owed => T!Phase(now) = 0
    BY <1>8 DEF DayInv, RunsAreShort
  <2>2. Latest = now - T!Phase(now) + (IF owed THEN Day ELSE 2 * Day)
    BY <1>8 DEF Latest, Morning
  <2> QED
    BY <1>1, <1>3, <1>4, <1>5, <1>8, <2>1, <2>2
<1> QED
  BY <1>5, <1>6, <1>7, <1>8

LEMMA WalkSliceKeeps == ASSUME T!SourceDayAssumption, DayInv, T!WalkSlice PROVE DayInv'
<1>1. PICK s \in T!Claimable, outcome \in {"finished"} \union T!Unfinished :
        LET error == run.error \/ outcome = "error"
        IN /\ stop' = [stop EXCEPT ![s] = outcome]
           /\ due' = [due EXCEPT ![s] = T!NextDue(outcome)]
           /\ run' = [run EXCEPT !.walked = @ \union {s}, !.error = error,
                                 !.recovered = @ \/ outcome \notin T!Unfinished]
           /\ beat' = T!BeatAfter(error)
           /\ failing' = IF outcome # "error" THEN failing \ {s}
                         ELSE IF run.daily THEN failing \union {s} ELSE failing
           /\ last' = IF run.daily THEN now ELSE last
  BY DEF T!WalkSlice
<1> DEFINE error == run.error \/ outcome = "error"
<1>2. run.on /\ UNCHANGED <<now, owed, torn, late>>
  BY DEF T!WalkSlice
<1>3. s \in Slices /\ outcome \in {"finished", "rate_limited", "error"}
  BY DEF T!Claimable, T!Unfinished
<1>4. /\ run'.on /\ run'.daily = run.daily /\ run'.since = run.since /\ run'.walked = run.walked \union {s}
      /\ run'.error = error
  BY <1>1, <1>2 DEF DayInv, DayShapes
<1>5. T!NextDue(outcome) \in Nat /\ T!NextDue(outcome) <= Latest
  BY <1>2, NextDueInTime
<1>6. run' \in [on : BOOLEAN, daily : BOOLEAN, since : Nat, walked : SUBSET Slices,
                error : BOOLEAN, recovered : BOOLEAN]
  BY <1>1, <1>3 DEF DayInv, DayShapes
<1>7. beat' \in [at : Nat, state : {"none", "starting", "ok", "idle", "error"}, crashed : BOOLEAN]
  BY <1>1 DEF T!BeatAfter, DayInv, DayShapes
<1>8. stop' \in [Slices -> T!Unfinished \union {"new", "finished"}] /\ due' \in [Slices -> Nat]
  BY <1>1, <1>3, <1>5 DEF DayInv, DayShapes
<1>9. failing' \subseteq Slices /\ last' \in Nat
  BY <1>1, <1>3 DEF DayInv, DayShapes
<1>10. DayShapes'
  BY <1>2, <1>6, <1>7, <1>8, <1>9 DEF DayInv, DayShapes
<1>11. RunsAreShort'
  BY <1>2, <1>4 DEF DayInv, RunsAreShort
<1>12. DueInTime'
  <2>1. Latest' = Latest
    BY <1>2 DEF Latest, Morning
  <2> QED
    BY <1>1, <1>5, <2>1 DEF DayInv, DueInTime, DayShapes
<1>13. Unwalked'
  BY <1>1, <1>2, <1>4 DEF DayInv, Unwalked, DayShapes
<1>14. \A x \in failing' : stop'[x] = "error"
  BY <1>1, <1>3 DEF DayInv, FailureIsRecorded, DayShapes
<1>15. CASE run.daily
  <2>1. beat' = [at |-> now, state |-> IF error THEN "error" ELSE "ok", crashed |-> FALSE] /\ last' = now
    BY <1>1, <1>15 DEF T!BeatAfter
  <2>2. \A x \in failing' \cap run'.walked : error
    BY <1>1, <1>3, <1>4, <1>15 DEF DayInv, FailureIsRecorded, DayShapes
  <2> QED
    BY <1>2, <1>4, <1>10, <1>11, <1>12, <1>13, <1>14, <1>15, <2>1, <2>2 DEF DayInv, FailureIsRecorded,
       ErrorIsShown, T!SilenceIsTheDailyRuns
<1>16. CASE ~run.daily
  <2>1. beat' = beat /\ last' = last /\ failing' \subseteq failing
    BY <1>1, <1>16 DEF T!BeatAfter
  <2> QED
    BY <1>2, <1>4, <1>10, <1>11, <1>12, <1>13, <1>14, <1>16, <2>1 DEF DayInv, FailureIsRecorded,
       ErrorIsShown, T!SilenceIsTheDailyRuns
<1> QED
  BY <1>15, <1>16

\* The end of a run, whatever ends it.
LEMMA OverKeeps ==
  ASSUME T!SourceDayAssumption, DayInv, run' = T!NoRun, run.on,
         UNCHANGED <<now, stop, due, owed, failing, late>>,
         beat' \in [at : Nat, state : {"none", "starting", "ok", "idle", "error"}, crashed : BOOLEAN],
         torn' \in BOOLEAN, last' \in Nat, ErrorIsShown', T!SilenceIsTheDailyRuns'
  PROVE  DayInv'
<1>1. ~run'.on /\ run' \in [on : BOOLEAN, daily : BOOLEAN, since : Nat, walked : SUBSET Slices,
                            error : BOOLEAN, recovered : BOOLEAN]
  BY DEF T!NoRun
<1>2. DayShapes'
  BY <1>1 DEF DayInv, DayShapes
<1>3. DueInTime'
  BY DEF DayInv, DueInTime, Latest, Morning
<1> QED
  BY <1>1, <1>2, <1>3 DEF DayInv, RunsAreShort, Unwalked, FailureIsRecorded

LEMMA EndKeeps == ASSUME T!SourceDayAssumption, DayInv, T!End PROVE DayInv'
<1>1. /\ run.on /\ T!Claimable = {} /\ run' = T!NoRun /\ ~run'.on
      /\ UNCHANGED <<now, stop, due, owed, failing, torn, late>>
  BY DEF T!End, T!NoRun
<1>2. CASE ~run.daily
  <2>1. beat' = T!ClearedBeat /\ last' = last
    BY <1>2 DEF T!End
  <2>2. beat' = beat \/ (beat' = [beat EXCEPT !.state = "ok"] /\ \A s \in Slices : stop[s] # "error")
    BY <2>1 DEF T!ClearedBeat
  <2>3. /\ beat'.at = beat.at
        /\ beat' \in [at : Nat, state : {"none", "starting", "ok", "idle", "error"}, crashed : BOOLEAN]
    BY <2>2 DEF DayInv, DayShapes
  <2>4. T!SilenceIsTheDailyRuns'
    BY <2>1, <2>3 DEF DayInv, T!SilenceIsTheDailyRuns
  <2>5. ErrorIsShown'
    <3>1. CASE beat' = beat
      BY <1>1, <1>2, <3>1 DEF DayInv, ErrorIsShown
    <3>2. CASE \A s \in Slices : stop[s] # "error"
      BY <1>1, <3>2 DEF DayInv, ErrorIsShown, FailureIsRecorded, DayShapes
    <3> QED
      BY <2>2, <3>1, <3>2
  <2> QED
    BY <1>1, <2>1, <2>3, <2>4, <2>5, OverKeeps DEF DayInv, DayShapes
<1>3. CASE run.daily
  <2>1. /\ beat' = IF run.walked = {} THEN [at |-> now, state |-> "idle", crashed |-> FALSE] ELSE beat
        /\ last' = IF run.walked = {} THEN now ELSE last
    BY <1>3 DEF T!End
  <2>2. /\ beat' \in [at : Nat, state : {"none", "starting", "ok", "idle", "error"}, crashed : BOOLEAN]
        /\ last' \in Nat /\ T!SilenceIsTheDailyRuns'
    BY <2>1 DEF DayInv, DayShapes, T!SilenceIsTheDailyRuns
  <2>3. ErrorIsShown'
    <3> SUFFICES ASSUME late = 0, beat'.state \in {"ok", "idle"}, failing # {} PROVE FALSE
      BY <1>1 DEF ErrorIsShown
    <3>1. run.since \in Nat /\ now \in Nat /\ run.since <= now /\ due \in [Slices -> Nat] /\ run.walked \subseteq Slices
      BY <1>1 DEF DayInv, DayShapes, RunsAreShort
    <3>2. \A s \in Slices : ~(due[s] <= now)
      BY <1>1, <1>3 DEF T!Claimable
    <3>3. \A s \in Slices \ run.walked : due[s] <= run.since
      BY <1>1, <1>3 DEF DayInv, Unwalked
    <3>4. Slices \subseteq run.walked
      BY <3>1, <3>2, <3>3
    <3>5. run.error /\ beat.state = "error" /\ run.walked # {}
      BY <1>1, <1>3, <3>4 DEF DayInv, FailureIsRecorded, DayShapes
    <3> QED
      BY <2>1, <3>5
  <2> QED
    BY <1>1, <2>2, <2>3, OverKeeps DEF DayInv, DayShapes
<1> QED
  BY <1>2, <1>3

LEMMA RaiseKeeps == ASSUME T!SourceDayAssumption, DayInv, T!Raise PROVE DayInv'
<1>1. /\ run.on /\ run' = T!NoRun /\ ~run'.on
      /\ UNCHANGED <<now, stop, due, owed, failing, torn, late>>
      /\ beat' = IF run.daily THEN [at |-> now, state |-> "error", crashed |-> TRUE] ELSE beat
      /\ last' = IF run.daily THEN now ELSE last
  BY DEF T!Raise, T!NoRun
<1>2. /\ beat' \in [at : Nat, state : {"none", "starting", "ok", "idle", "error"}, crashed : BOOLEAN]
      /\ last' \in Nat /\ T!SilenceIsTheDailyRuns'
  BY <1>1 DEF DayInv, DayShapes, T!SilenceIsTheDailyRuns
<1>3. ErrorIsShown'
  BY <1>1 DEF DayInv, ErrorIsShown
<1> QED
  BY <1>1, <1>2, <1>3, OverKeeps DEF DayInv, DayShapes

LEMMA KillKeeps == ASSUME T!SourceDayAssumption, DayInv, T!Kill PROVE DayInv'
<1>1. /\ run.on /\ run' = T!NoRun /\ ~run'.on
      /\ UNCHANGED <<now, stop, due, beat, owed, failing, last, late>>
      /\ torn' = (torn \/ run.daily)
  BY DEF T!Kill, T!NoRun
<1>2. torn' \in BOOLEAN
  BY <1>1 DEF DayInv, DayShapes
<1>3. ErrorIsShown'
  BY <1>1 DEF DayInv, ErrorIsShown
<1>4. T!SilenceIsTheDailyRuns'
  BY <1>1 DEF DayInv, T!SilenceIsTheDailyRuns
<1> QED
  BY <1>1, <1>2, <1>3, <1>4, OverKeeps DEF DayInv, DayShapes

\* A slot ends; in the morning the timer fires.
LEMMA TickKeeps == ASSUME T!SourceDayAssumption, DayInv, T!Tick PROVE DayInv'
<1>1. /\ now' = now + 1 /\ (run.on => run.since = now)
      /\ owed' = (owed \/ T!Phase(now + 1) = 0)
      /\ UNCHANGED <<stop, due, beat, run, failing, last, torn, late>>
  BY DEF T!Tick
<1>2. now \in Nat /\ Day \in Nat /\ Day > 0 /\ T!Phase(now) \in 0..Day - 1 /\ T!Phase(now) <= now /\ late \in 0..2
      /\ owed \in BOOLEAN /\ owed' \in BOOLEAN
  BY <1>1, Numbers DEF DayInv, DayShapes
<1>3. T!Phase(now') = IF T!Phase(now) + 1 = Day THEN 0 ELSE T!Phase(now) + 1
  BY <1>1, <1>2, Phases
<1>4. DayShapes'
  BY <1>1, <1>2 DEF DayInv, DayShapes
<1>5. RunsAreShort'
  <2> SUFFICES ASSUME run.on PROVE RunsAreShort'
    BY <1>1 DEF RunsAreShort
  <2>1. run.since = now /\ run'.since + 1 = now' /\ run' = run /\ run.daily \in BOOLEAN
    BY <1>1 DEF DayInv, DayShapes
  <2>2. ~run.daily => T!Phase(run'.since) \in ResumeAt
    BY <1>1, <2>1 DEF DayInv, RunsAreShort
  <2>3. ASSUME run.daily, late < 2 PROVE T!Phase(now) = 0 /\ ~(owed' /\ T!Phase(now') = 0)
    <3>1. T!Phase(now) = 0
      BY <2>1, <2>3 DEF DayInv, RunsAreShort
    <3>2. Day > 1
      BY Numbers
    <3> QED
      BY <1>2, <1>3, <3>1, <3>2
  <2>4. ASSUME run.daily, owed' PROVE T!Phase(now') = 0
    <3>1. ~owed
      <4> SUFFICES ASSUME owed PROVE FALSE
        OBVIOUS
      <4>1. run.since # now
        BY <2>1, <2>4 DEF DayInv, RunsAreShort
      <4> QED
        BY <2>1, <4>1
    <3> QED
      BY <1>1, <2>4, <3>1
  <2> QED
    BY <1>1, <2>1, <2>2, <2>3, <2>4 DEF RunsAreShort
<1>6. DueInTime'
  <2>1. Latest <= Latest' /\ Latest' \in Nat
    BY <1>1, <1>2, <1>3 DEF Latest, Morning
  <2> QED
    BY <1>1, <2>1, Numbers DEF DayInv, DueInTime, DayShapes
<1> QED
  BY <1>1, <1>4, <1>5, <1>6 DEF DayInv, Unwalked, FailureIsRecorded, ErrorIsShown, T!SilenceIsTheDailyRuns

LEMMA DayStep == ASSUME T!SourceDayAssumption, DayInv, [T!Next]_(T!vars) PROVE DayInv'
<1>1. CASE UNCHANGED T!vars
  BY <1>1 DEF T!vars, DayInv, DayShapes, RunsAreShort, DueInTime, Latest, Morning, Unwalked, FailureIsRecorded,
     ErrorIsShown, T!SilenceIsTheDailyRuns
<1> QED
  BY <1>1, StartDailyKeeps, LockedOutKeeps, StartResumeKeeps, WalkSliceKeeps, EndKeeps, RaiseKeeps,
     KillKeeps, TickKeeps DEF T!Next

-----------------------------------------------------------------------------
\* A daily run that is on time finds every slice due, an ok or idle heartbeat hides no failed
\* slice, and a resume run does not freshen it: the age of the beat is that of the last daily run
\* (service.py collect_due_slices, main).
THEOREM DaysAreKept == ASSUME T!SourceDayAssumption PROVE T!Spec => []T!SourceDaySafe
<1>1. T!Init => DayInv
  BY DayInit
<1>2. DayInv /\ [T!Next]_(T!vars) => DayInv'
  BY DayStep
<1>3. DayInv => T!SourceDaySafe
  <2> SUFFICES ASSUME DayInv PROVE T!SourceDaySafe
    OBVIOUS
  <2>1. T!NoDaySkipped
    <3> SUFFICES ASSUME run.on, run.daily, run.walked = {}, now = run.since, late = 0
                 PROVE  \A s \in Slices : due[s] <= now
      BY DEF T!NoDaySkipped
    <3>1. \A s \in Slices \ run.walked : due[s] <= run.since
      BY DEF DayInv, Unwalked
    <3> QED
      BY <3>1
  <2> QED
    BY <2>1 DEF T!SourceDaySafe, DayInv, ErrorIsShown, T!ErrorsStayVisible
<1> QED
  BY <1>1, <1>2, <1>3, PTL DEF T!Spec

-----------------------------------------------------------------------------
\* With the bounds, the type invariant.
Bounds ==
  /\ now <= MaxSlots /\ beat.at <= MaxSlots /\ run.since <= MaxSlots /\ last <= MaxSlots
  /\ \A s \in Slices : due[s] <= MaxSlots + Day
  /\ upsets \in 0..DayUpsets

LEMMA BoundsKeep ==
  ASSUME T!SourceDayAssumption, DayInv, DayInv', Bounds, T!Next
  PROVE  Bounds'
<1>1. MaxSlots \in Nat /\ DayUpsets \in Nat /\ Day \in Nat /\ 0 \in Nat /\ now \in Nat /\ now <= MaxSlots
  BY DEF T!SourceDayAssumption, DayInv, DayShapes, Bounds
<1>2. upsets' \in 0..DayUpsets
  <2>1. upsets' = upsets \/ (upsets < DayUpsets /\ upsets' = upsets + 1)
    BY Zenon DEF T!Next, T!StartDaily, T!LockedOut, T!StartResume, T!WalkSlice, T!End, T!Raise, T!Kill, T!Tick
  <2> QED
    BY <1>1, <2>1 DEF Bounds
<1>3. now' \in Nat /\ now' <= MaxSlots /\ now <= now'
  <2>1. now' = now \/ (now < MaxSlots /\ now' = now + 1)
    BY Zenon DEF T!Next, T!StartDaily, T!LockedOut, T!StartResume, T!WalkSlice, T!End, T!Raise, T!Kill, T!Tick
  <2> QED
    BY <1>1, <2>1
<1>4. last' = last \/ last' = now
  BY DEF T!Next, T!StartDaily, T!LockedOut, T!StartResume, T!WalkSlice, T!End, T!Raise, T!Kill, T!Tick
<1>5. run'.since \in {0, run.since, now}
  <2>1. CASE T!StartDaily \/ T!StartResume \/ T!End \/ T!Raise \/ T!Kill
    <3>1. run' = T!NoRun \/ \E d \in BOOLEAN : run' = [on |-> TRUE, daily |-> d, since |-> now, walked |-> {},
                                                    error |-> FALSE, recovered |-> FALSE]
      BY <2>1 DEF T!StartDaily, T!StartResume, T!End, T!Raise, T!Kill, T!NoRun
    <3> QED
      BY <3>1 DEF T!NoRun
  <2>2. CASE T!WalkSlice
    BY <2>2 DEF T!WalkSlice, DayInv, DayShapes
  <2>3. CASE T!LockedOut \/ T!Tick
    BY <2>3 DEF T!LockedOut, T!Tick
  <2> QED
    BY <2>1, <2>2, <2>3 DEF T!Next
<1>6. \A s \in Slices : due'[s] <= MaxSlots + Day
  <2>1. CASE T!WalkSlice
    <3>1. PICK x \in Slices, outcome \in {"finished"} \union T!Unfinished : due' = [due EXCEPT ![x] = T!NextDue(outcome)]
      BY <2>1 DEF T!WalkSlice, T!Claimable
    <3>2. T!NextDue(outcome) \in Nat /\ T!NextDue(outcome) <= MaxSlots + Day
      BY <1>1, <2>1, NextDueInTime DEF T!WalkSlice
    <3> QED
      BY <3>1, <3>2 DEF DayInv, DayShapes, Bounds
  <2>2. CASE due' = due
    BY <2>2 DEF Bounds
  <2> QED
    BY <2>1, <2>2 DEF T!Next, T!StartDaily, T!LockedOut, T!StartResume, T!End, T!Raise, T!Kill, T!Tick
<1>7. beat'.at = last'
  BY DEF DayInv, T!SilenceIsTheDailyRuns
<1> QED
  BY <1>1, <1>2, <1>3, <1>4, <1>5, <1>6, <1>7 DEF Bounds

\* The variables of the day keep their types; the slots at which slices are due stay within the
\* slots explored and one day more (base.py finish_source_walk).
THEOREM DayTypes == ASSUME T!SourceDayAssumption PROVE T!Spec => []T!TypeOK
<1>1. T!Init => DayInv /\ Bounds
  <2> SUFFICES ASSUME T!Init PROVE DayInv /\ Bounds
    OBVIOUS
  <2>1. MaxSlots \in Nat /\ DayUpsets \in Nat /\ Day \in Nat /\ 0 \in Nat
    BY DEF T!SourceDayAssumption
  <2>2. now = 0 /\ beat.at = 0 /\ run.since = 0 /\ last = 0 /\ upsets = 0 /\ \A s \in Slices : due[s] = 0
    BY DEF T!Init, T!NoRun
  <2> QED
    BY <2>1, <2>2, DayInit DEF Bounds
<1>2. (DayInv /\ Bounds) /\ [T!Next]_(T!vars) => (DayInv /\ Bounds)'
  <2> SUFFICES ASSUME DayInv /\ Bounds, [T!Next]_(T!vars) PROVE (DayInv /\ Bounds)'
    OBVIOUS
  <2>1. DayInv'
    BY DayStep
  <2>2. CASE UNCHANGED T!vars
    BY <2>1, <2>2 DEF T!vars, Bounds
  <2> QED
    BY <2>1, <2>2, BoundsKeep
<1>3. DayInv /\ Bounds => T!TypeOK
  <2> SUFFICES ASSUME DayInv, Bounds PROVE T!TypeOK
    OBVIOUS
  <2>1. MaxSlots \in Nat /\ Day \in Nat
    BY DEF T!SourceDayAssumption
  <2>2. now \in 0..MaxSlots /\ last \in 0..MaxSlots
    BY <2>1 DEF DayInv, DayShapes, Bounds
  <2>3. due \in [Slices -> 0..MaxSlots + Day]
    <3>0. due \in [Slices -> Nat] /\ \A s \in Slices : due[s] <= MaxSlots + Day
      BY DEF DayInv, DayShapes, Bounds
    <3>1. ASSUME NEW s \in Slices PROVE due[s] \in 0..MaxSlots + Day
      <4>1. due[s] \in Nat /\ due[s] <= MaxSlots + Day
        BY <3>0
      <4> QED
        BY <2>1, <4>1
    <3> QED
      BY <3>0, <3>1
  <2>4. beat \in [at : 0..MaxSlots, state : {"none", "starting", "ok", "idle", "error"}, crashed : BOOLEAN]
    <3>0. beat.at \in Nat /\ beat.at <= MaxSlots
      BY DEF DayInv, DayShapes, Bounds
    <3>1. beat.at \in 0..MaxSlots
      BY <2>1, <3>0
    <3> QED
      BY <3>1 DEF DayInv, DayShapes
  <2>5. run \in [on : BOOLEAN, daily : BOOLEAN, since : 0..MaxSlots, walked : SUBSET Slices,
                 error : BOOLEAN, recovered : BOOLEAN]
    <3>1. run.since \in Nat /\ run.since <= MaxSlots
      BY DEF DayInv, DayShapes, Bounds
    <3>2. run.since \in 0..MaxSlots
      BY <2>1, <3>1
    <3> QED
      BY <3>2 DEF DayInv, DayShapes
  <2>6. {owed, torn} \subseteq BOOLEAN
    BY DEF DayInv, DayShapes
  <2> QED
    BY <2>2, <2>3, <2>4, <2>5, <2>6 DEF DayInv, DayShapes, Bounds, T!TypeOK
<1> QED
  BY <1>1, <1>2, <1>3, PTL DEF T!Spec

-----------------------------------------------------------------------------
(* The loop of a service and its watchdog: the lock keeps those that asked  *)
(* for it apart, and the ledger spaces the alerts.                          *)

CONSTANTS Procs, Unit, DownAfter, Repeat, WatchUpsets
VARIABLES store, at, conn, lock, age, ledger, file, watch, looked, told, toldOf, quiet

H == INSTANCE Watch WITH MaxUpsets <- WatchUpsets

\* The types the proofs need.
Times == Nat \cup {H!None}
WatchShapes ==
  /\ at \in [Procs -> {"off", "loop", "init", "lock", "tick", "failed"}]
  /\ conn \in [Procs -> H!Live \cup {"none", "broken"}]
  /\ ledger \in Times /\ watch \in [at : {"idle", "commit"}, ledger : Times]
  /\ looked \in BOOLEAN /\ quiet \in 0..Repeat

\* A session in which the lock was taken and that is still alive holds it.
LockIsHeld == \A p \in Procs : conn[p] = "locked" => lock = p

\* An alert that counts is on record, or about to be, since no longer than it was sent.
Covers(since) == quiet = Repeat \/ (since # H!None /\ since <= quiet)
OnRecord == Covers(IF watch.at = "idle" THEN ledger ELSE watch.ledger)

\* An alert of this slot was sent by this slot's check.
OneLook == quiet = 0 => looked

WatchInv == WatchShapes /\ LockIsHeld /\ OnRecord /\ OneLook

-----------------------------------------------------------------------------
LEMMA WatchInit == ASSUME H!WatchAssumption PROVE H!Init => WatchInv
<1> SUFFICES ASSUME H!Init PROVE WatchInv
  OBVIOUS
<1>1. at \in [Procs -> {"off", "loop", "init", "lock", "tick", "failed"}]
  BY DEF H!Init
<1>2. conn \in [Procs -> H!Live \cup {"none", "broken"}] /\ LockIsHeld
  BY DEF H!Init, LockIsHeld
<1>3. ledger \in Times /\ watch \in [at : {"idle", "commit"}, ledger : Times] /\ looked \in BOOLEAN
  <2>1. H!None \in Times
    BY DEF Times
  <2> QED
    BY <2>1 DEF H!Init
<1>4. quiet \in 0..Repeat /\ quiet # 0 /\ OnRecord
  BY DEF H!Init, H!WatchAssumption, OnRecord, Covers
<1> QED
  BY <1>1, <1>2, <1>3, <1>4 DEF WatchInv, WatchShapes, OneLook

\* A step of the loop, of systemd or of the store leaves the watchdog alone.
LEMMA LoopKeeps ==
  ASSUME H!WatchAssumption, WatchInv, NEW p \in Procs,
         \/ H!Loop(p) \/ H!SchemaDeadlock(p) \/ H!Pulse(p) \/ H!TickRaises(p) \/ H!Crash(p) \/ H!StartTwice(p)
         \/ H!Restart \/ H!StoreFails \/ H!StoreReturns
  PROVE  WatchInv'
<1>1. UNCHANGED <<ledger, watch, looked, quiet>>
  BY DEF H!Loop, H!Connect, H!Again, H!InitStore, H!AcquireLock, H!TickDone, H!Failed, H!SchemaDeadlock, H!Pulse,
     H!TickRaises, H!Crash, H!StartTwice, H!Restart, H!StoreFails, H!StoreReturns, H!dog
<1>2. OnRecord' /\ OneLook'
  BY <1>1 DEF WatchInv, OnRecord, Covers, OneLook
<1>3. at' \in [Procs -> {"off", "loop", "init", "lock", "tick", "failed"}]
  <2> DEFINE Points == {"off", "loop", "init", "lock", "tick", "failed"}
  <2>1. at' = at \/ \E q \in Procs, place \in Points : at' = [at EXCEPT ![q] = place]
    <3>1. CASE H!Pulse(p) \/ H!StoreFails \/ H!StoreReturns
      BY <3>1 DEF H!Pulse, H!StoreFails, H!StoreReturns, H!loop
    <3>2. CASE H!Connect(p) \/ H!Again(p) \/ H!InitStore(p)
      BY <3>2 DEF H!Connect, H!Again, H!InitStore, H!Goto
    <3>3. CASE H!AcquireLock(p)
      BY <3>3 DEF H!AcquireLock, H!Goto
    <3>4. CASE H!TickDone(p) \/ H!Failed(p) \/ H!SchemaDeadlock(p) \/ H!TickRaises(p)
      BY <3>4 DEF H!TickDone, H!Failed, H!SchemaDeadlock, H!TickRaises, H!Goto
    <3>5. CASE H!Crash(p) \/ H!StartTwice(p) \/ H!Restart
      BY <3>5 DEF H!Crash, H!StartTwice, H!Restart, H!Goto, H!WatchAssumption
    <3> QED
      BY <3>1, <3>2, <3>3, <3>4, <3>5 DEF H!Loop
  <2>2. at \in [Procs -> Points]
    BY DEF WatchInv, WatchShapes
  <2> QED
    BY <2>1, <2>2
<1>4. conn' \in [Procs -> H!Live \cup {"none", "broken"}] /\ LockIsHeld'
  <2>1. CASE H!AcquireLock(p)
    <3>1. CASE /\ lock \in {H!Nobody, p} /\ lock' = p
               /\ conn' = [conn EXCEPT ![p] = "locked"]
      BY <3>1 DEF WatchInv, WatchShapes, LockIsHeld, H!Live, H!WatchAssumption
    <3>2. CASE lock' = lock /\ (conn' = [conn EXCEPT ![p] = "none"] \/ conn' = conn)
      BY <3>2 DEF WatchInv, WatchShapes, LockIsHeld, H!Live
    <3> QED
      BY <2>1, <3>1, <3>2 DEF H!AcquireLock, H!MayRun
  <2>2. CASE H!Connect(p) \/ H!Failed(p) \/ H!Crash(p) \/ H!StoreFails
    BY <2>2 DEF H!Connect, H!Failed, H!Crash, H!StoreFails, WatchInv, WatchShapes, LockIsHeld, H!Live
  <2>3. CASE \/ H!Again(p) \/ H!InitStore(p) \/ H!TickDone(p) \/ H!SchemaDeadlock(p) \/ H!Pulse(p) \/ H!TickRaises(p)
             \/ H!StartTwice(p) \/ H!Restart \/ H!StoreReturns
    <3>1. UNCHANGED <<conn, lock>>
      BY <2>3 DEF H!Again, H!InitStore, H!TickDone, H!SchemaDeadlock, H!Pulse, H!TickRaises, H!StartTwice, H!Restart,
         H!StoreReturns, H!loop
    <3> QED
      BY <3>1 DEF WatchInv, WatchShapes, LockIsHeld
  <2> QED
    BY <2>1, <2>2, <2>3 DEF H!Loop
<1> QED
  BY <1>1, <1>2, <1>3, <1>4 DEF WatchInv, WatchShapes

\* A check writes its record with the message it stands for, and commits both or neither.
LEMMA WatchdogKeeps ==
  ASSUME H!WatchAssumption, WatchInv, H!Look \/ H!Commit \/ H!WatchdogDies \/ H!LookWithoutStore \/ H!Tick
  PROVE  WatchInv'
<1>1. UNCHANGED H!loop
  BY DEF H!Look, H!Commit, H!WatchdogDies, H!LookWithoutStore, H!Tick
<1>2. CASE H!Look
  <2>1. watch.at = "idle" /\ looked' = TRUE /\ UNCHANGED ledger
    BY <1>2 DEF H!Look
  <2>2. PICK since \in Times :
          /\ watch' = [at |-> "commit", ledger |-> since]
          /\ \/ since = H!Noted /\ quiet' = 0
             \/ since = H!Cleared /\ quiet' = Repeat
             \/ since = ledger /\ quiet' = quiet
    <3>1. H!Noted \in Times /\ H!Cleared \in Times /\ ledger \in Times
      BY DEF H!Noted, H!Cleared, Times, WatchInv, WatchShapes
    <3>2. CASE H!Silent /\ H!Due(ledger)
      <4>1. PICK ok \in BOOLEAN : /\ watch' = [at |-> "commit", ledger |-> IF ok THEN H!Noted ELSE ledger]
                                  /\ quiet' = IF ok THEN 0 ELSE quiet
        BY <1>2, <3>2 DEF H!Look
      <4> QED
        BY <3>1, <4>1
    <3>3. CASE ~H!Silent /\ ledger # H!None
      <4>1. PICK ok \in BOOLEAN : /\ watch' = [at |-> "commit", ledger |-> IF ok THEN H!Cleared ELSE ledger]
                                  /\ quiet' = IF ok THEN Repeat ELSE quiet
        BY <1>2, <3>3 DEF H!Look
      <4> QED
        BY <3>1, <4>1
    <3>4. CASE IF H!Silent THEN ~H!Due(ledger) ELSE ledger = H!None
      BY <1>2, <3>1, <3>4 DEF H!Look
    <3> QED
      BY <3>2, <3>3, <3>4
  <2>3. WatchShapes'
    BY <1>1, <2>1, <2>2 DEF WatchInv, WatchShapes, H!loop, H!WatchAssumption
  <2>4. OnRecord'
    <3>1. watch'.at = "commit" /\ watch'.ledger = since
      BY <2>2
    <3>2. Covers(ledger)
      BY <2>1 DEF WatchInv, OnRecord
    <3>3. quiet' = Repeat \/ (since # H!None /\ since <= quiet')
      BY <2>2, <3>2 DEF Covers, H!None, H!Noted
    <3> QED
      BY <3>1, <3>3 DEF OnRecord, Covers
  <2> QED
    BY <1>1, <2>1, <2>3, <2>4 DEF WatchInv, LockIsHeld, OneLook, H!loop
<1>3. CASE H!Commit
  <2>1. /\ watch.at = "commit" /\ watch' = [at |-> "idle", ledger |-> H!None] /\ UNCHANGED looked
        /\ \/ ledger' = watch.ledger /\ UNCHANGED quiet
           \/ quiet' = Repeat /\ UNCHANGED ledger
    BY <1>3 DEF H!Commit
  <2>2. WatchShapes'
    <3>1. H!None \in Times /\ watch.ledger \in Times
      BY DEF Times, WatchInv, WatchShapes
    <3> QED
      BY <1>1, <2>1, <3>1 DEF WatchInv, WatchShapes, H!loop, H!WatchAssumption
  <2>3. OnRecord'
    <3>1. watch'.at = "idle" /\ Covers(watch.ledger)
      BY <2>1 DEF WatchInv, OnRecord
    <3>2. quiet' = Repeat \/ (ledger' # H!None /\ ledger' <= quiet')
      BY <2>1, <3>1 DEF Covers
    <3> QED
      BY <3>1, <3>2 DEF OnRecord, Covers, H!None
  <2>4. OneLook'
    BY <2>1 DEF WatchInv, OneLook, H!WatchAssumption
  <2> QED
    BY <1>1, <2>2, <2>3, <2>4 DEF WatchInv, LockIsHeld, H!loop
<1>4. CASE H!WatchdogDies
  <2>1. H!None \in Times
    BY DEF Times
  <2>2. watch' = [at |-> "idle", ledger |-> H!None] /\ quiet' = Repeat /\ UNCHANGED <<ledger, looked>>
    BY <1>4 DEF H!WatchdogDies
  <2> QED
    BY <1>1, <2>1, <2>2 DEF WatchInv, WatchShapes, LockIsHeld, OnRecord, Covers, OneLook, H!loop, H!WatchAssumption
<1>5. CASE H!LookWithoutStore
  BY <1>1, <1>5 DEF H!LookWithoutStore, WatchInv, WatchShapes, LockIsHeld, OnRecord, Covers, OneLook, H!loop
<1>6. CASE H!Tick
  <2>1. /\ watch.at = "idle" /\ looked' = FALSE /\ watch' = watch
        /\ ledger' = H!Older(ledger, Repeat) /\ quiet' = H!Older(quiet, Repeat)
    BY <1>6 DEF H!Tick
  <2>2. quiet' \in 1..Repeat /\ ledger' \in Times
    <3>1. H!Older(quiet, Repeat) = IF quiet = H!None \/ quiet >= Repeat THEN quiet ELSE quiet + 1
      BY DEF H!Older
    <3>3. quiet \in 0..Repeat /\ ledger \in Times /\ Repeat \in Nat \ {0}
      BY DEF WatchInv, WatchShapes, H!WatchAssumption
    <3>4. quiet # H!None
      BY <3>3 DEF H!None
    <3>5. H!Older(ledger, Repeat) \in Times
      BY <3>3 DEF H!Older, Times
    <3> QED
      BY <2>1, <3>1, <3>3, <3>4, <3>5
  <2>3. OnRecord'
    <3>1. Covers(ledger)
      BY <2>1 DEF WatchInv, OnRecord
    <3>2. quiet \in 0..Repeat /\ ledger \in Times /\ Repeat \in Nat \ {0}
      BY DEF WatchInv, WatchShapes, H!WatchAssumption
    <3>3. CASE quiet = Repeat
      BY <2>1, <3>2, <3>3 DEF H!Older, OnRecord, Covers
    <3>4. CASE quiet # Repeat /\ ledger # H!None /\ ledger <= quiet
      <4>1. quiet' = quiet + 1
        BY <2>1, <3>2, <3>4 DEF H!Older, H!None
      <4>2. ledger' = ledger + 1
        BY <2>1, <3>2, <3>4 DEF H!Older, Times
      <4>3. ledger' # H!None
        BY <3>2, <3>4, <4>2 DEF H!None, Times
      <4> QED
        BY <2>1, <3>2, <3>4, <4>1, <4>2, <4>3 DEF OnRecord, Covers, Times
    <3> QED
      BY <3>1, <3>3, <3>4 DEF Covers
  <2> QED
    <3>1. quiet' # 0 /\ quiet' \in 0..Repeat
      BY <2>2
    <3>2. WatchShapes'
      BY <1>1, <2>1, <2>2, <3>1 DEF WatchInv, WatchShapes, H!loop
    <3> QED
      BY <1>1, <2>3, <3>1, <3>2 DEF WatchInv, LockIsHeld, OneLook, H!loop
<1> QED
  BY <1>2, <1>3, <1>4, <1>5, <1>6

LEMMA WatchStep == ASSUME H!WatchAssumption PROVE WatchInv /\ [H!Next]_(H!vars) => WatchInv'
<1> SUFFICES ASSUME WatchInv, [H!Next]_(H!vars) PROVE WatchInv'
  OBVIOUS
<1>1. CASE UNCHANGED H!vars
  BY <1>1 DEF H!vars, H!loop, H!dog, WatchInv, WatchShapes, LockIsHeld, OnRecord, Covers, OneLook
<1>2. ASSUME NEW p \in Procs,
             H!Loop(p) \/ H!SchemaDeadlock(p) \/ H!Pulse(p) \/ H!TickRaises(p) \/ H!Crash(p) \/ H!StartTwice(p)
      PROVE  WatchInv'
  BY <1>2, LoopKeeps
<1>3. CASE H!Restart \/ H!StoreFails \/ H!StoreReturns
  <2>1. Unit \in Procs
    BY DEF H!WatchAssumption
  <2> QED
    BY <1>3, <2>1, LoopKeeps
<1> QED
  BY <1>1, <1>2, <1>3, WatchdogKeeps DEF H!Next

-----------------------------------------------------------------------------
\* Copies of a service that asked for its lock never work in parallel, through restarts of the
\* store, crashes and the unit's restarts (runner.py:57-62, 96-101).
THEOREM LockKeepsApart == ASSUME H!WatchAssumption PROVE H!Spec => []H!LockedWork
<1>1. H!Init => WatchInv
  BY WatchInit
<1>2. WatchInv /\ [H!Next]_(H!vars) => WatchInv'
  BY WatchStep
<1>3. WatchInv => H!LockedWork
  BY DEF WatchInv, LockIsHeld, H!LockedWork
<1> QED
  BY <1>1, <1>2, <1>3, PTL DEF H!Spec

\* The operator is not alerted again before the repeat time, unless the service was reported
\* healthy in between or a check could not save what it had sent (health.py:279-310).
THEOREM AlertsStaySpaced == ASSUME H!WatchAssumption PROVE H!Spec => H!AlertsAreSpaced
<1>1. H!Init => WatchInv
  BY WatchInit
<1>2. WatchInv /\ [H!Next]_(H!vars) => WatchInv'
  BY WatchStep
<1>3. WatchInv /\ [H!Next]_(H!vars) => [H!Spaced]_(H!vars)
  <2> SUFFICES ASSUME WatchInv, H!Look, told' = "alert", quiet' = 0 PROVE quiet >= Repeat
    BY DEF H!Spaced
  <2>1. watch.at = "idle" /\ ~looked
    BY DEF H!Look
  <2>2. quiet # 0 /\ quiet \in 0..Repeat /\ Repeat \in Nat \ {0} /\ ledger \in Times
    BY <2>1 DEF WatchInv, OneLook, WatchShapes, H!WatchAssumption
  <2>3. H!Due(ledger)
    BY <2>2 DEF H!Look
  <2> QED
    BY <2>1, <2>2, <2>3 DEF H!Due, WatchInv, OnRecord, Covers, H!None, Times
<1> QED
  BY <1>1, <1>2, <1>3, PTL DEF H!Spec, H!AlertsAreSpaced

-----------------------------------------------------------------------------
\* What is left of the types.
Reports ==
  /\ store \in BOOLEAN /\ lock \in Procs \cup {H!Nobody} /\ age \in 0..DownAfter + 1
  /\ {ledger, file} \subseteq H!None..Repeat /\ watch.ledger \in H!None..Repeat
  /\ {told, toldOf} \subseteq {"nothing", "alert", "ok"} /\ upsets \in 0..WatchUpsets

LEMMA ReportsBegin == ASSUME H!WatchAssumption, H!Init PROVE Reports
BY DEF H!WatchAssumption, H!Init, Reports, H!None

\* An upset is one of those the bound allows.
LEMMA UpsetIsCounted ==
  ASSUME H!WatchAssumption, upsets \in 0..WatchUpsets,
         \/ H!Upset
         \/ \E ok \in BOOLEAN : H!Send(ok) /\ H!Sent(ok)
         \/ UNCHANGED upsets
  PROVE  upsets' \in 0..WatchUpsets
BY DEF H!WatchAssumption, H!Upset, H!Send, H!Sent

LEMMA LoopReports ==
  ASSUME H!WatchAssumption, Reports, NEW p \in Procs,
         \/ H!Loop(p) \/ H!SchemaDeadlock(p) \/ H!Pulse(p) \/ H!TickRaises(p) \/ H!Crash(p) \/ H!StartTwice(p)
         \/ H!Restart \/ H!StoreFails \/ H!StoreReturns
  PROVE  Reports'
<1>1. UNCHANGED <<ledger, file, watch, told, toldOf>>
  BY DEF H!Loop, H!Connect, H!Again, H!InitStore, H!AcquireLock, H!TickDone, H!Failed, H!SchemaDeadlock, H!Pulse,
     H!TickRaises, H!Crash, H!StartTwice, H!Restart, H!StoreFails, H!StoreReturns, H!dog
<1>2. age' \in {age, 0} /\ lock' \in {lock, p, H!Nobody} /\ store' \in {store, TRUE, FALSE}
  BY DEF H!Loop, H!Connect, H!Again, H!InitStore, H!AcquireLock, H!TickDone, H!Failed, H!SchemaDeadlock, H!Pulse,
     H!TickRaises, H!Crash, H!StartTwice, H!Restart, H!StoreFails, H!StoreReturns, H!loop
<1>3. H!Upset \/ UNCHANGED upsets
  BY DEF H!Loop, H!Connect, H!Again, H!InitStore, H!AcquireLock, H!TickDone, H!Failed, H!SchemaDeadlock, H!Pulse,
     H!TickRaises, H!Crash, H!StartTwice, H!Restart, H!StoreFails, H!StoreReturns
<1>4. upsets' \in 0..WatchUpsets
  BY <1>3, UpsetIsCounted DEF Reports
<1>5. store' \in BOOLEAN /\ lock' \in Procs \cup {H!Nobody}
  BY <1>2 DEF Reports
<1>6. age' \in 0..DownAfter + 1
  <2>1. age \in 0..DownAfter + 1 /\ DownAfter \in Nat
    BY DEF Reports, H!WatchAssumption
  <2> QED
    BY <1>2, <2>1
<1>7. {ledger', file'} \subseteq H!None..Repeat /\ watch'.ledger \in H!None..Repeat
  <2>1. ledger' = ledger /\ file' = file /\ watch' = watch
    BY <1>1
  <2> QED
    BY <2>1 DEF Reports
<1>8. {told', toldOf'} \subseteq {"nothing", "alert", "ok"}
  BY <1>1 DEF Reports
<1> QED
  BY <1>4, <1>5, <1>6, <1>7, <1>8 DEF Reports, H!None

LEMMA WatchdogReports ==
  ASSUME H!WatchAssumption, Reports, H!Look \/ H!Commit \/ H!WatchdogDies \/ H!LookWithoutStore \/ H!Tick
  PROVE  Reports'
<1>1. UNCHANGED <<store, lock>>
  BY DEF H!Look, H!Commit, H!WatchdogDies, H!LookWithoutStore, H!Tick, H!loop
<1>2. {-1, 0} \subseteq H!None..Repeat
  BY DEF H!WatchAssumption, H!None
<1>3. upsets' \in 0..WatchUpsets
  <2>1. \/ H!Upset \/ UNCHANGED upsets
        \/ \E ok \in BOOLEAN : H!Send(ok) /\ H!Sent(ok)
    BY DEF H!Look, H!Commit, H!WatchdogDies, H!LookWithoutStore, H!Tick
  <2> QED
    BY <2>1, UpsetIsCounted DEF Reports
<1>4. {told', toldOf'} \subseteq {"nothing", "alert", "ok"}
  BY DEF H!Look, H!Commit, H!WatchdogDies, H!LookWithoutStore, H!Tick, Reports
<1>5. /\ age' \in 0..DownAfter + 1
      /\ {ledger', file'} \subseteq H!None..Repeat
      /\ watch'.ledger \in H!None..Repeat
  <2>1. CASE H!Look
    <3>1. watch'.ledger \in {0, -1, ledger}
      BY <2>1 DEF H!Look, H!Noted, H!Cleared, H!None
    <3> QED
      BY <2>1, <3>1, <1>2 DEF H!Look, Reports
  <2>2. CASE H!Commit
    <3>1. watch'.ledger = -1 /\ ledger' \in {ledger, watch.ledger} /\ file' \in {file, -1} /\ age' = age
      BY <2>2 DEF H!Commit, H!None
    <3> QED
      BY <3>1, <1>2 DEF Reports
  <2>3. CASE H!WatchdogDies
    <3>1. watch'.ledger = -1 /\ UNCHANGED <<age, ledger, file>>
      BY <2>3 DEF H!WatchdogDies, H!None
    <3> QED
      BY <3>1, <1>2 DEF Reports
  <2>4. CASE H!LookWithoutStore
    <3>1. file' \in {file, 0} /\ UNCHANGED <<age, ledger, watch>>
      BY <2>4 DEF H!LookWithoutStore
    <3> QED
      BY <3>1, <1>2 DEF Reports
  <2>5. CASE H!Tick
    BY <2>5 DEF H!Tick, H!Older, H!None, Reports, H!WatchAssumption
  <2> QED
    BY <2>1, <2>2, <2>3, <2>4, <2>5
<1> QED
  BY <1>1, <1>3, <1>4, <1>5 DEF Reports

LEMMA ReportsStay == H!WatchAssumption /\ Reports /\ [H!Next]_(H!vars) => Reports'
<1> SUFFICES ASSUME H!WatchAssumption, Reports, [H!Next]_(H!vars) PROVE Reports'
  OBVIOUS
<1>1. CASE UNCHANGED H!vars
  BY <1>1 DEF H!vars, H!loop, H!dog, Reports
<1>2. ASSUME NEW p \in Procs,
             H!Loop(p) \/ H!SchemaDeadlock(p) \/ H!Pulse(p) \/ H!TickRaises(p) \/ H!Crash(p) \/ H!StartTwice(p)
      PROVE  Reports'
  BY <1>2, LoopReports
<1>3. CASE H!Restart \/ H!StoreFails \/ H!StoreReturns
  BY <1>3, LoopReports DEF H!WatchAssumption
<1> QED
  BY <1>1, <1>2, <1>3, WatchdogReports DEF H!Next

\* The loop is at one of its points, a connection in one of its states, and the ages of heartbeats and
\* alerts stay in their bounds (runner.py, health.py).
THEOREM WatchTypes == ASSUME H!WatchAssumption PROVE H!Spec => []H!TypeOK
<1>1. H!Init => WatchInv /\ Reports
  BY WatchInit, ReportsBegin
<1>2. (WatchInv /\ Reports) /\ [H!Next]_(H!vars) => (WatchInv /\ Reports)'
  BY WatchStep, ReportsStay
<1>3. WatchInv /\ Reports => H!TypeOK
  <2> SUFFICES ASSUME WatchInv, Reports PROVE H!TypeOK
    OBVIOUS
  <2>1. watch \in [at : {"idle", "commit"}, ledger : H!None..Repeat]
    BY DEF WatchInv, WatchShapes, Reports
  <2> QED
    BY <2>1 DEF WatchInv, WatchShapes, Reports, H!TypeOK
<1> QED
  BY <1>1, <1>2, <1>3, PTL DEF H!Spec
=============================================================================
