------------------------------- MODULE Harness -------------------------------
(***************************************************************************)
(* The generated testbench (sim_main.cpp) driving a design through the     *)
(* cases of one seed, and what run_sim hands to parse_sim_output of it.    *)
(*                                                                         *)
(* The design is whatever the session wrote: whether it raises done after  *)
(* a clock tick, and whether its data_out is the expected word then, is    *)
(* open.  So is what it prints: the guard names $display, $write and       *)
(* $monitor, which are not all there is, and parse_sim_output takes every  *)
(* line that begins with the prefix of the protocol for one of the         *)
(* testbench.  Open is also how the process ends: it may run to its end,   *)
(* or be killed anywhere by the deadline or a resource limit, and then a   *)
(* line of its output may be cut.                                          *)
(*                                                                         *)
(* right, ticks and displayed are history: what the design has done, was   *)
(* given and has printed, against which the result is judged.              *)
(***************************************************************************)
EXTENDS Grading, FiniteSetsExt

CONSTANTS
  VectorSets,     \* the <<n_cases, max_cycles_per_case>> of vectors files
  MaxOutputLines, \* what the sandbox keeps of the output, in lines
  DesignLines,    \* the lines the design may print itself
  MaxDisplays     \* bound: how many of them

OutLine == [kind : {"CASE", "TOTAL_CYCLES", "INCORRECT", "TIMEOUT", "OK", "OTHER"}, n : Nat]

ASSUME HarnessAssumption ==
  /\ VectorSets \subseteq Nat \X Nat
  /\ DesignLines \subseteq OutLine
  /\ MaxOutputLines \in Nat /\ MaxDisplays \in Nat

VARIABLES
  pc,
  n_cases,  \* hdr[0], NotRead until the vectors file has been read
  max_cycles_per_case,
  case,     \* c
  cycles,   \* ticks of this case
  done,     \* top.done as sampled after the last tick
  total,    \* total_cycles
  out,      \* the lines printed
  right,    \* the cases whose result was right
  ticks,    \* the clock ticks the design was given from start to done
  displayed, \* the lines that are the design's own
  result    \* what the sandbox returned of the run

file == <<n_cases, max_cycles_per_case>>
vars == <<pc, file, case, cycles, done, total, out, right, ticks, displayed, result>>

NotRead == -1

NoResult == [timed_out |-> FALSE, lines |-> {}, total |-> NoTotal]

Init ==
  /\ pc = "start" /\ n_cases = NotRead /\ max_cycles_per_case = 0
  /\ case = 0 /\ cycles = 0 /\ done = FALSE /\ total = 0
  /\ out = << >> /\ right = {} /\ ticks = 0 /\ displayed = << >>
  /\ result = NoResult

\* The vectors file is read and the design brought up.
ReadVectors ==
  /\ pc = "start"
  /\ pc' = "case"
  /\ \E v \in VectorSets : n_cases' = v[1] /\ max_cycles_per_case' = v[2]
  /\ UNCHANGED <<case, cycles, done, total, out, right, ticks, displayed, result>>

\* It cannot be opened, or is too short: a complaint on stderr, return 1.
BadVectors ==
  /\ pc = "start"
  /\ pc' = "exiting"
  /\ UNCHANGED <<file, case, cycles, done, total, out, right, ticks, displayed, result>>

-----------------------------------------------------------------------------
\* Faulty variants: one case too many; the tick with start is not charged.
StartOneMore ==
  /\ pc = "case" /\ case <= n_cases
  /\ pc' = "wait"
  /\ cycles' = 1 /\ ticks' = ticks + 1
  /\ done' \in BOOLEAN
  /\ UNCHANGED <<file, case, total, out, right, displayed, result>>

StartUncharged ==
  /\ pc = "case" /\ case < n_cases
  /\ pc' = "wait"
  /\ cycles' = 0 /\ ticks' = ticks + 1
  /\ done' \in BOOLEAN
  /\ UNCHANGED <<file, case, total, out, right, displayed, result>>

\* Reset, input, start: the tick with start asserted is the first cycle.
StartCase ==
  /\ pc = "case" /\ case < n_cases
  /\ pc' = "wait"
  /\ cycles' = 1 /\ ticks' = ticks + 1
  /\ done' \in BOOLEAN
  /\ UNCHANGED <<file, case, total, out, right, displayed, result>>

\* Faulty variant: no limit, and a counter that wraps around.
TickWraps ==
  /\ pc = "wait" /\ ~done
  /\ cycles' = (cycles % max_cycles_per_case) + 1
  /\ done' \in BOOLEAN
  /\ UNCHANGED <<pc, file, case, total, out, right, ticks, displayed, result>>

Tick ==
  /\ pc = "wait" /\ ~done /\ cycles < max_cycles_per_case
  /\ cycles' = cycles + 1 /\ ticks' = ticks + 1
  /\ done' \in BOOLEAN
  /\ UNCHANGED <<pc, file, case, total, out, right, displayed, result>>

Line(kind, n) == [kind |-> kind, n |-> n]

Prints(lines) == out' = out \o lines

\* Output of the design itself, at bring-up or in one of the ticks.  It prints
\* whole lines: what prints without ending its line, the guard does name.
Display ==
  /\ pc \in {"case", "wait"} /\ (case < n_cases \/ case = 0)
  /\ Len(displayed) < MaxDisplays
  /\ \E l \in DesignLines : Prints(<<l>>) /\ displayed' = Append(displayed, l)
  /\ UNCHANGED <<pc, file, case, cycles, done, total, right, ticks, result>>

\* Faulty variant: done after the last tick comes too late.
NotFinishedAtLimit ==
  /\ pc = "wait" /\ cycles >= max_cycles_per_case
  /\ Prints(<<Line("TIMEOUT", case), Line("TOTAL_CYCLES", total)>>)
  /\ pc' = "exiting"
  /\ UNCHANGED <<file, case, cycles, done, total, right, ticks, displayed, result>>

NotFinished ==
  /\ pc = "wait" /\ ~done /\ cycles >= max_cycles_per_case
  /\ Prints(<<Line("TIMEOUT", case), Line("TOTAL_CYCLES", total)>>)
  /\ pc' = "exiting"
  /\ UNCHANGED <<file, case, cycles, done, total, right, ticks, displayed, result>>

WrongOutput ==
  /\ pc = "wait" /\ done
  /\ Prints(<<Line("CASE", cycles), Line("INCORRECT", case), Line("TOTAL_CYCLES", total)>>)
  /\ pc' = "exiting"
  /\ UNCHANGED <<file, case, cycles, done, total, right, ticks, displayed, result>>

RightOutput ==
  /\ pc = "wait" /\ done
  /\ Prints(<<Line("CASE", cycles)>>)
  /\ total' = total + cycles
  /\ case' = case + 1
  /\ right' = right \cup {case}
  /\ pc' = "case"
  /\ UNCHANGED <<file, cycles, done, ticks, displayed, result>>

\* Faulty variant: OK before the total.
OkBeforeTotal ==
  /\ pc = "case" /\ case = n_cases
  /\ Prints(<<Line("OK", 0), Line("TOTAL_CYCLES", total)>>)
  /\ pc' = "exiting"
  /\ UNCHANGED <<file, case, cycles, done, total, right, ticks, displayed, result>>

AllCasesPassed ==
  /\ pc = "case" /\ case = n_cases
  /\ Prints(<<Line("TOTAL_CYCLES", total), Line("OK", 0)>>)
  /\ pc' = "exiting"
  /\ UNCHANGED <<file, case, cycles, done, total, right, ticks, displayed, result>>

-----------------------------------------------------------------------------
(***************************************************************************)
(* What the searches of parse_sim_output find in the lines o.  A line that *)
(* is cut may still match if digits of its number are left: a total is     *)
(* then a smaller number, a marker is a marker; an OK is one as long as    *)
(* only the end of its line is missing.                                    *)
(***************************************************************************)
Kinds(o) == {o[i].kind : i \in DOMAIN o}

FirstTotal(o) ==
  LET totals == {i \in DOMAIN o : o[i].kind = "TOTAL_CYCLES"} IN
  IF totals = {} THEN NoTotal ELSE o[Min(totals)].n

\* Faulty variant: the first marker decides.
FoundFirst(timedOut, o) ==
  LET markers == {i \in DOMAIN o : o[i].kind \in Marker} IN
  [timed_out |-> timedOut,
   lines |-> IF markers = {} THEN {} ELSE {o[Min(markers)].kind},
   total |-> FirstTotal(o)]

Found(timedOut, o) ==
  [timed_out |-> timedOut, lines |-> Kinds(o) \cap Marker, total |-> FirstTotal(o)]

CutLine(l) ==
  IF l.kind = "OK" THEN {<< >>, <<l>>} ELSE {<< >>} \cup {<<Line(l.kind, n)>> : n \in 0 .. l.n}

\* The outputs that may be left when everything after line k of o is gone.
Cut(o, k) ==
  {SubSeq(o, 1, k) \o rest : rest \in IF k < Len(o) THEN CutLine(o[k + 1]) ELSE {<< >>}}

\* _truncate_bytes
Truncations(o) ==
  IF Len(o) <= MaxOutputLines THEN {o} ELSE Cut(o, MaxOutputLines)

Exit ==
  /\ pc = "exiting"
  /\ pc' = "exited"
  /\ \E o \in Truncations(out) : result' = Found(FALSE, o)
  /\ UNCHANGED <<file, case, cycles, done, total, out, right, ticks, displayed>>

\* Killed by a limit, or by itself: a prefix of the output is left.  Killed at the
\* deadline: run_async may have lost the beginning as well.
Killed ==
  /\ pc \in {"start", "case", "wait", "exiting"}
  /\ pc' = "killed"
  /\ \/ \E k \in 0 .. Len(out) : \E o \in Cut(out, k) : \E t \in Truncations(o) :
          result' = Found(FALSE, t)
     \/ \E i, j \in 1 .. Len(out) + 1 :
          result' = Found(TRUE, SubSeq(out, i, j - 1))
  /\ UNCHANGED <<file, case, cycles, done, total, out, right, ticks, displayed>>

Run ==
  \/ ReadVectors \/ BadVectors
  \/ StartCase \/ Tick \/ NotFinished \/ WrongOutput \/ RightOutput
  \/ AllCasesPassed \/ Exit

Next == Run \/ Display \/ Killed

Spec == Init /\ [][Next]_vars

\* The process is scheduled, and top.eval() returns.
FairSpec == Spec /\ WF_vars(Run)

-----------------------------------------------------------------------------

TypeOK ==
  /\ pc \in {"start", "case", "wait", "exiting", "exited", "killed"}
  /\ n_cases \in Nat \cup {NotRead} /\ max_cycles_per_case \in Nat
  /\ case \in Nat /\ (case = 0 \/ case <= n_cases)
  /\ cycles \in Nat /\ done \in BOOLEAN /\ total \in Nat
  /\ out \in Seq(OutLine)
  /\ right \in SUBSET Nat /\ ticks \in Nat /\ displayed \in Seq(OutLine)
  /\ result \in SimResult

Over     == pc \in {"exited", "killed"}
Accepted == Over /\ ~Fails(result)

AllRight == n_cases # NotRead /\ right = 0 .. n_cases - 1

\* The design itself has printed a line that reads as one of that kind.
Displayed(kind) == kind \in Kinds(displayed)

(***************************************************************************)
(* Of a design that has printed no OK of its own, a simulation the         *)
(* environment accepts is one in which every case finished in time with    *)
(* the right result; and if it has printed no total either, it is charged  *)
(* exactly the ticks it was given for that, wherever the process was       *)
(* killed and wherever its output was cut (README: only on OK is a         *)
(* performance score computed).  Lines of any other kind do it no good.    *)
(***************************************************************************)
AcceptedIsEarned ==
  (Accepted /\ ~Displayed("OK")) =>
    AllRight /\ (Displayed("TOTAL_CYCLES") \/ Cycles(result) = ticks)

(***************************************************************************)
(* What AcceptedIsEarned says without the premises: "A DUT that prints     *)
(* fake CASE/OK lines via $display cannot trick the parser"                *)
(* (test_reward_hacking.py, TestSubmissionOutputInjection), "Stdout never  *)
(* enters the correctness decision" (README, "Pin-level checking").        *)
(***************************************************************************)
OnlyHarnessLinesCount == Accepted => AllRight /\ Cycles(result) = ticks

(***************************************************************************)
(* A failure the testbench has found stands: when the process ends by      *)
(* itself and its output is whole, no line the design has printed, OK and  *)
(* totals included, takes back a late, wrong or missing case.              *)
(***************************************************************************)
FailureIsFinal ==
  (pc = "exited" /\ Len(out) <= MaxOutputLines /\ ~AllRight) => ~Accepted

(***************************************************************************)
(* A case is charged at least the cycle that start takes and at most       *)
(* max_cycles_per_case: no accepted simulation of a non-empty vector set   *)
(* has the measure 0 that scores 1.0, unless the design prints a total or  *)
(* an OK.                                                                  *)
(***************************************************************************)
MeasureInRange ==
  (Accepted /\ ~Displayed("OK") /\ ~Displayed("TOTAL_CYCLES")) =>
    /\ n_cases <= Cycles(result)
    /\ max_cycles_per_case > 0 => Cycles(result) <= n_cases * max_cycles_per_case

(***************************************************************************)
(* The other direction: a design that is right on every case is accepted   *)
(* when its process ends, unless it prints a failure itself; one that is   *)
(* not gets the verdict of the case it stopped at, unless it prints that   *)
(* it was late.  A vectors file that cannot be read counts as a wrong      *)
(* result.                                                                 *)
(***************************************************************************)
EarnedIsAccepted ==
  (pc = "exited" /\ Len(out) <= MaxOutputLines) =>
    IF AllRight
    THEN Accepted \/ Displayed("INCORRECT") \/ Displayed("TIMEOUT")
    ELSE \/ Displayed("TIMEOUT")
         \/ FailureVerdict(result) = IF done \/ n_cases = NotRead THEN "INCORRECT" ELSE "TIMEOUT"

(***************************************************************************)
(* A design that never raises done does not keep the testbench running, as *)
(* long as every top.eval() returns.                                       *)
(***************************************************************************)
Ends == <>Over
=============================================================================
