----------------------------- MODULE MCMultiSeed -----------------------------
EXTENDS MultiSeed

Sim(timedOut, lines, total) == [timed_out |-> timedOut, lines |-> lines, total |-> total]

\* Two ways to pass, and every way to fail, the ones where deadline, TIMEOUT
\* line and INCORRECT line meet included.
MCSimResults ==
  {Sim(FALSE, {"OK"}, 3), Sim(FALSE, {"OK"}, 5),
   Sim(FALSE, {"INCORRECT"}, 2), Sim(FALSE, {"TIMEOUT"}, 2), Sim(FALSE, {}, NoTotal),
   Sim(TRUE, {}, NoTotal), Sim(TRUE, {"OK"}, 3), Sim(TRUE, {"INCORRECT"}, 2)}

MCNone == {}
=============================================================================
