------------------------------- MODULE Grading -------------------------------
(***************************************************************************)
(* The pure part of FPGAEnvironment: what one stage of the pipeline and    *)
(* one simulation of a submission mean for the verdict, and how the        *)
(* simulations of all seeds of an episode become one GradingResult.        *)
(*                                                                         *)
(* A score is kept as the cycle counts it is the mean of (one per seed)    *)
(* and whether the format bonus was added: module Scoring says which       *)
(* number that is.  The score 0.0 of a rejected submission is ZeroScore.   *)
(***************************************************************************)
EXTENDS Integers, Sequences

CONSTANTS
  NValidationSeeds,   \* n_validation_seeds of the environment
  FormatBonus,        \* whether format_bonus > 0.0
  Submissions,        \* the submissions sessions send
  StageResults,       \* the SandboxResults lint and build can return
  SimResults          \* the SandboxResults one simulation can return

Verdict == {"OK", "COMPILE_ERROR", "INCORRECT", "TIMEOUT", "MEMORY_LIMIT",
            "FORBIDDEN", "INTERNAL_ERROR"}

\* The lines of the harness protocol that parse_sim_output looks for, and the
\* value of total_cycles when no TOTAL_CYCLES line was printed.
Marker == {"OK", "INCORRECT", "TIMEOUT"}
NoTotal == -1

StageResult == [returncode : Int, timed_out : BOOLEAN]
SimResult   == [timed_out : BOOLEAN, lines : SUBSET Marker, total : Nat \cup {NoTotal}]

(***************************************************************************)
(* A submission as parse_submission and check_verilog see it.  had_answer  *)
(* says whether the text had an <answer> block, guard what                 *)
(* check_verilog found: nothing, a missing `module dut` (whatever else was *)
(* blocked), or only forbidden constructs.                                 *)
(***************************************************************************)
Submission == [guard : {"clean", "missing_dut", "forbidden"}, had_answer : BOOLEAN]

ASSUME GradingAssumption ==
  /\ NValidationSeeds \in Nat
  /\ FormatBonus \in BOOLEAN
  /\ Submissions \subseteq Submission
  /\ StageResults \subseteq StageResult
  /\ SimResults \subseteq SimResult

Score         == [cycles : Seq(Nat), bonus : BOOLEAN]
ZeroScore     == [cycles |-> << >>, bonus |-> FALSE]
GradingResult == [verdict : Verdict, score : Score]

Rejected(v) == [verdict |-> v, score |-> ZeroScore]

GuardResult(sub) ==
  Rejected(IF sub.guard = "missing_dut" THEN "COMPILE_ERROR" ELSE "FORBIDDEN")

StagePassed(r) == r.returncode = 0 /\ ~r.timed_out

-----------------------------------------------------------------------------
(***************************************************************************)
(* parse_sim_output: an OK line counts only without an INCORRECT or a      *)
(* TIMEOUT line.                                                           *)
(***************************************************************************)
Parse(r) ==
  [ok        |-> "OK" \in r.lines /\ {"INCORRECT", "TIMEOUT"} \cap r.lines = {},
   timed_out |-> "TIMEOUT" \in r.lines,
   incorrect |-> "INCORRECT" \in r.lines,
   total     |-> r.total]

TimedOut(r) == r.timed_out \/ Parse(r).timed_out
Wrong(r)    == Parse(r).incorrect \/ ~Parse(r).ok
Fails(r)    == TimedOut(r) \/ Wrong(r)

\* float(report.total_cycles or 0)
Cycles(r) == IF Parse(r).total = NoTotal THEN 0 ELSE Parse(r).total

FailureVerdict(r) == IF TimedOut(r) THEN "TIMEOUT" ELSE "INCORRECT"

(***************************************************************************)
(* _validation_seeds: the primary seed and the n that follow it.           *)
(***************************************************************************)
SimIndex == 1 .. NValidationSeeds + 1
ValidationSeeds(primary) == [i \in SimIndex |-> primary + i - 1]

(***************************************************************************)
(* The loop over raw_results after the sort: the first index whose         *)
(* simulation fails decides; the score is the mean over all of them.       *)
(***************************************************************************)
FirstFailure(results) ==
  CHOOSE i \in SimIndex :
    /\ Fails(results[i])
    /\ \A j \in SimIndex : Fails(results[j]) => i <= j

\* Faulty variants: only the primary seed decides; a timeout of any seed goes
\* before the failure of an earlier one.
PrimarySeedResult(results) ==
  IF Fails(results[1])
  THEN Rejected(FailureVerdict(results[1]))
  ELSE [verdict |-> "OK",
        score   |-> [cycles |-> [i \in SimIndex |-> Cycles(results[i])], bonus |-> FALSE]]

TimeoutFirstResult(results) ==
  IF \E i \in SimIndex : TimedOut(results[i])
  THEN Rejected("TIMEOUT")
  ELSE IF \E i \in SimIndex : Wrong(results[i])
  THEN Rejected("INCORRECT")
  ELSE PrimarySeedResult(results)

MultiSeedResult(results) ==
  IF \E i \in SimIndex : Fails(results[i])
  THEN Rejected(FailureVerdict(results[FirstFailure(results)]))
  ELSE [verdict |-> "OK",
        score   |-> [cycles |-> [i \in SimIndex |-> Cycles(results[i])], bonus |-> FALSE]]

\* _apply_format_bonus under the conditions _grade and _grade_async apply it.
WithFormatBonus(g, sub) ==
  IF g.verdict = "OK" /\ FormatBonus /\ sub.had_answer
  THEN [g EXCEPT !.score.bonus = TRUE]
  ELSE g

\* The score step and step_async report: 0.0 unless the verdict is OK.
GatedScore(g) == IF g.verdict = "OK" THEN g.score ELSE ZeroScore
=============================================================================
