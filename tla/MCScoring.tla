------------------------------ MODULE MCScoring ------------------------------
EXTENDS Scoring

MCMeasures == 0 .. 8
MCBonus == Frac(1, 5)
=============================================================================
