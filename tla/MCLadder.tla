------------------------------ MODULE MCLadder ------------------------------
(* Small instances of Ladder: three levels, the last or the last two of them *)
(* above 3x.  A day is two ticks.                                            *)
EXTENDS Ladder

IdealSignals == [fresh |-> TRUE, demand |-> 2, llm |-> "free", ceiling |-> FALSE,
                 slower |-> FALSE]

\* One input at a time is not ideal.
MCSignals ==
  {IdealSignals,
   [IdealSignals EXCEPT !.fresh = FALSE],
   [IdealSignals EXCEPT !.demand = 0],
   [IdealSignals EXCEPT !.llm = "above4x"],
   [IdealSignals EXCEPT !.ceiling = TRUE]}

\* Two clean requests convince; one refusal needs a third request.
MCCautious == {<<2, 0>>, <<3, 0>>, <<3, 1>>}
=============================================================================
