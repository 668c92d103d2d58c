------------------------------ MODULE MCFPGAEnv ------------------------------
(***************************************************************************)
(* Small instances of FPGAEnv: what the sandbox can return, and the two    *)
(* ways sessions are given environments.                                   *)
(***************************************************************************)
EXTENDS FPGAEnv

CONSTANTS s1, s2, e1, e2

\* Passed, rejected, and cut off by the deadline although the tool exited 0
\* (a process it left behind kept its output open).
MCStageResults ==
  {[returncode |-> 0, timed_out |-> FALSE],
   [returncode |-> 1, timed_out |-> FALSE],
   [returncode |-> 0, timed_out |-> TRUE]}

Sim(timedOut, lines, total) == [timed_out |-> timedOut, lines |-> lines, total |-> total]

\* All cases right; a wrong case; no done in time; cut off by the deadline
\* before and after the OK line; killed before it printed anything.
MCSimResults ==
  {Sim(FALSE, {"OK"}, 3),
   Sim(FALSE, {"INCORRECT"}, 2),
   Sim(FALSE, {"TIMEOUT"}, 2),
   Sim(TRUE, {}, NoTotal),
   Sim(TRUE, {"OK"}, 3),
   Sim(FALSE, {}, NoTotal)}

MCSubmissions == Submission

\* Fewer of each, for the instances with several sessions.
MCFewStageResults == {r \in MCStageResults : r.returncode = 0}
MCFewSimResults   == {Sim(FALSE, {"OK"}, 3), Sim(FALSE, {"INCORRECT"}, 2)}
MCFewSubmissions  == {sub \in Submission : sub.guard # "missing_dut" /\ ~sub.had_answer}

\* One environment each (LocalEnv), one environment for all (server/app.py).
MCOwnEnv    == [s \in Session |-> IF s = s1 THEN e1 ELSE e2]
MCSharedEnv == [s \in Session |-> e1]
=============================================================================
