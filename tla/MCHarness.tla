------------------------------ MODULE MCHarness ------------------------------
EXTENDS Harness

MCNone == {}

\* No case, one that must be done at once, three of at most two cycles, two of
\* at most three.
MCVectorSets == {<<0, 2>>, <<1, 1>>, <<3, 2>>, <<2, 3>>}

\* A line of no meaning, every marker, and a total no run has.
MCDesignLines ==
  {Line("OTHER", 0), Line("OK", 0), Line("INCORRECT", 0), Line("TIMEOUT", 0),
   Line("TOTAL_CYCLES", 0)}
=============================================================================
