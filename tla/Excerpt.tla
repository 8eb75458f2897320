------------------------------- MODULE Excerpt -------------------------------
(***************************************************************************)
(* What a model is shown of a posting (src/remote_verifier.py,             *)
(* _description_for_prompt): the start of the text and, when it is too      *)
(* long, the passages around the words about the place of work.  The        *)
(* radius of the passages shrinks until they fit; words too dense for that  *)
(* are thinned out.                                                         *)
(*                                                                         *)
(* A text is its length and the places of its keywords, a passage the pair  *)
(* of its first place and the place after its last.    Keywords are one     *)
(* place long.                                                              *)
(***************************************************************************)
EXTENDS Integers, FiniteSets, FiniteSetsExt

CONSTANTS
    MaxLength,  \* bound: the longest text
    Window,     \* _EXCERPT_WINDOW
    Intro,      \* _EXCERPT_INTRO_CHARS
    Joiner,     \* length of a separator
    Budgets,    \* what a prompt leaves for one posting
    Appendix    \* Appendix[b]: what of a budget the passages may take

ExcerptAssumption ==
    /\ {MaxLength, Window, Intro, Joiner} \subseteq Nat \ {0}
    /\ Budgets \subseteq 1..MaxLength
    /\ \A b \in Budgets : Appendix[b] \in 1..b /\ b > Appendix[b] + Joiner

VARIABLES
    length,    \* of the description
    keywords,  \* places of the keywords
    budget,
    radius,    \* of the passages tried next; 0 once the words are thinned out
    step,      \* the stride of the thinning
    passages,  \* the excerpt, once it fits
    shown,     \* the passages of the prompt, once it is built
    at

vars == <<length, keywords, budget, radius, step, passages, shown, at>>

-----------------------------------------------------------------------------
Lower(a, b) == IF a < b THEN a ELSE b

Places(spans) == UNION {s[1]..(s[2] - 1) : s \in spans}
Joined(spans) == IF spans = {} THEN 0 ELSE Cardinality(spans) - 1
Size(spans) == Cardinality(Places(spans)) + Joiner * Joined(spans)
Rank(spans, s) == Cardinality({x \in spans : x[1] < s[1]})
LastOf(spans) == CHOOSE s \in spans : \A x \in spans : x[1] <= s[1]

\* _merge_anchors: the windows of a radius around the keywords; those that touch become one passage.
Near(p, r) == p \in 0..(length - 1) /\ \E k \in keywords : p \in (k - r)..(k + r)
Merge(r) == {s \in (0..(length - 1)) \X (1..length) :
    /\ s[1] < s[2] /\ \A p \in s[1]..(s[2] - 1) : Near(p, r)
    /\ ~Near(s[1] - 1, r) /\ ~Near(s[2], r)}

WithIntro(spans) ==
    LET first == Min({s[1] : s \in spans}) IN
    IF first > 0 THEN spans \cup {<<0, Lower(Intro, first)>>} ELSE spans

\* Mutant: the excerpt is filled from the front.
FromTheFront(spans, n) == {s \in spans : Rank(spans, s) = 0}

\* Every n-th passage and the last.
Strided(spans, n) == {s \in spans : Rank(spans, s) % n = 0} \cup {LastOf(spans)}
Prefix(span, n) == {<<span[1], Lower(span[2], span[1] + n)>>}

-----------------------------------------------------------------------------
Init ==
    /\ length \in 1..MaxLength
    /\ keywords \in SUBSET (0..(length - 1))
    /\ budget \in Budgets
    /\ radius = Window /\ step = 1
    /\ passages = {} /\ shown = [body |-> 0, excerpt |-> {}]
    /\ at = "shrink"

\* A text within its budget is shown whole; one without keywords has a prefix, which its body contains.
Whole ==
    /\ at = "shrink" /\ radius = Window
    /\ length <= budget \/ keywords = {}
    /\ shown' = [body |-> Lower(length, budget), excerpt |-> {}]
    /\ at' = "done"
    /\ UNCHANGED <<length, keywords, budget, radius, step, passages>>

Fits(spans) == Size(spans) <= Appendix[budget]
Excerpted(spans) == passages' = spans /\ at' = "prompt" /\ UNCHANGED <<radius, step>>

\* The windows of this radius, or half of it.
Shrink ==
    /\ at = "shrink" /\ length > budget /\ keywords # {} /\ radius > 0
    /\ \E spans \in {WithIntro(Merge(radius))} :
       \/ Fits(spans) /\ Excerpted(spans)
       \/ ~Fits(spans) /\ radius' = radius \div 2 /\ UNCHANGED <<step, passages, at>>
    /\ UNCHANGED <<length, keywords, budget, shown>>

\* The bare words, every step-th of them and the last; at the very end a piece of the last.
Thin ==
    /\ at = "shrink" /\ radius = 0
    /\ \E spans \in {Merge(0)} : \E picked \in {Strided(spans, step)} :
       \/ Fits(picked) /\ Excerpted(picked)
       \/ ~Fits(picked) /\ step < Cardinality(spans) /\ step' = step + 1 /\ UNCHANGED <<radius, passages, at>>
       \/ ~Fits(picked) /\ step = Cardinality(spans) /\ Excerpted(Prefix(LastOf(spans), Appendix[budget]))
    /\ UNCHANGED <<length, keywords, budget, shown>>

\* The body gives way to the excerpt, unless it contains it.
Body(excerpt) ==
    IF Cardinality(excerpt) = 1 /\ LastOf(excerpt)[2] <= budget THEN [body |-> budget, excerpt |-> {}]
    ELSE [body |-> budget - Joiner - Size(excerpt), excerpt |-> excerpt]
Prompt ==
    /\ at = "prompt"
    /\ shown' = Body(passages)
    /\ at' = "done"
    /\ UNCHANGED <<length, keywords, budget, radius, step, passages>>

Next == Whole \/ Shrink \/ Thin \/ Prompt
Spec == Init /\ [][Next]_vars

-----------------------------------------------------------------------------
(* Properties.                                                              *)

Spans == (0..MaxLength) \X (1..MaxLength)
TypeOK ==
    /\ length \in 1..MaxLength /\ keywords \subseteq 0..(length - 1) /\ budget \in Budgets
    /\ radius \in 0..Window /\ step \in 1..MaxLength
    /\ passages \subseteq Spans
    /\ shown.body \in 0..budget /\ shown.excerpt \subseteq Spans
    /\ at \in {"shrink", "prompt", "done"}

\* Words that touch are one passage, and one that is larger than the appendix is cut.
LastRun == LET spans == Merge(0) IN LastOf(spans)[2] - LastOf(spans)[1]
ShownLength == shown.body + (IF shown.excerpt = {} THEN 0 ELSE Joiner + Size(shown.excerpt))

\* The sentence that decides at the end of a posting is shown, within the budget, however long the text and
\* dense its keywords are: earlier passages never crowd the last one out (only words that touch and are
\* together longer than the appendix are cut).
LateSentenceIsShown ==
    at = "done" =>
        /\ ShownLength <= budget
        /\ keywords # {} /\ (length <= budget \/ LastRun <= Appendix[budget]) =>
              Max(keywords) \in 0..(shown.body - 1) \cup Places(shown.excerpt)

=============================================================================
