------------------------------ MODULE MultiSeed ------------------------------
(***************************************************************************)
(* One submission on all seeds of an episode, graded by the two drivers of *)
(* FPGAEnvironment: _run_multi_seed simulates one seed after the other and *)
(* stops at the first failure, _run_multi_seed_async starts all            *)
(* simulations, lets them end in any order, and looks at the results once  *)
(* it has them all.  Both see the same simulations: run[i] is what seed i  *)
(* gives, or Crash where run_sim raises instead of returning.              *)
(***************************************************************************)
EXTENDS Grading

CONSTANT Crash

ASSUME MultiSeedAssumption == Crash \notin SimResult

VARIABLES
  run,      \* what the simulation of each seed gives
  next,     \* _run_multi_seed: the index it simulates next
  scored,   \* _run_multi_seed: the cycles behind seed_scores
  syncOut,  \* _run_multi_seed: what it has returned so far
  ended,    \* _run_multi_seed_async: the simulations that have ended
  asyncOut  \* _run_multi_seed_async: what it has returned so far

vars == <<run, next, scored, syncOut, ended, asyncOut>>

\* What a driver leaves with: a GradingResult, or the exception of a crash.
Result(g)  == [status |-> "returned", graded |-> g]
Exception  == [status |-> "raised"]
Unfinished == [status |-> "running"]

Running(out)  == out.status = "running"
Returned(out) == out.status = "returned"
HasRaised(out) == out.status = "raised"

Init ==
  /\ run \in [SimIndex -> SimResults \cup {Crash}]
  /\ next = 1 /\ scored = << >> /\ syncOut = Unfinished
  /\ ended = {} /\ asyncOut = Unfinished

-----------------------------------------------------------------------------
SyncCrash ==
  /\ Running(syncOut) /\ next \in SimIndex
  /\ run[next] = Crash
  /\ syncOut' = Exception
  /\ UNCHANGED <<run, next, scored, ended, asyncOut>>

\* The body of the loop, in its order: deadline, harness timeout, wrong case.
SyncFail ==
  /\ Running(syncOut) /\ next \in SimIndex
  /\ run[next] # Crash
  /\ LET r == run[next] IN
     \/ /\ r.timed_out \/ Parse(r).timed_out
        /\ syncOut' = Result(Rejected("TIMEOUT"))
     \/ /\ ~r.timed_out /\ ~Parse(r).timed_out
        /\ Parse(r).incorrect \/ ~Parse(r).ok
        /\ syncOut' = Result(Rejected("INCORRECT"))
  /\ UNCHANGED <<run, next, scored, ended, asyncOut>>

\* Faulty variant: every other seed is left out.
SyncPassSkips ==
  /\ Running(syncOut) /\ next \in SimIndex
  /\ run[next] # Crash
  /\ ~Fails(run[next])
  /\ scored' = Append(scored, Cycles(run[next]))
  /\ next' = next + 2
  /\ UNCHANGED <<run, syncOut, ended, asyncOut>>

SyncPass ==
  /\ Running(syncOut) /\ next \in SimIndex
  /\ run[next] # Crash
  /\ ~Fails(run[next])
  /\ scored' = Append(scored, Cycles(run[next]))
  /\ next' = next + 1
  /\ UNCHANGED <<run, syncOut, ended, asyncOut>>

SyncMean ==
  /\ Running(syncOut) /\ next = NValidationSeeds + 2
  /\ syncOut' = Result([verdict |-> "OK", score |-> [cycles |-> scored, bonus |-> FALSE]])
  /\ UNCHANGED <<run, next, scored, ended, asyncOut>>

-----------------------------------------------------------------------------
AsyncEnd(i) ==
  /\ Running(asyncOut)
  /\ i \notin ended
  /\ run[i] # Crash
  /\ ended' = ended \cup {i}
  /\ UNCHANGED <<run, next, scored, syncOut, asyncOut>>

\* gather passes on the first exception; it does not wait for the others.
AsyncCrash(i) ==
  /\ Running(asyncOut)
  /\ i \notin ended
  /\ run[i] = Crash
  /\ asyncOut' = Exception
  /\ UNCHANGED <<run, next, scored, syncOut, ended>>

\* Faulty variant: the first failure to end is taken, the rest not waited for.
AsyncFirstEnded ==
  /\ Running(asyncOut)
  /\ \/ /\ ended = SimIndex
        /\ asyncOut' = Result(MultiSeedResult(run))
     \/ \E i \in ended :
          /\ Fails(run[i])
          /\ asyncOut' = Result(Rejected(FailureVerdict(run[i])))
  /\ UNCHANGED <<run, next, scored, syncOut, ended>>

AsyncGather ==
  /\ Running(asyncOut)
  /\ ended = SimIndex
  /\ asyncOut' = Result(MultiSeedResult(run))
  /\ UNCHANGED <<run, next, scored, syncOut, ended>>

Next ==
  \/ SyncCrash \/ SyncFail \/ SyncPass \/ SyncMean
  \/ \E i \in SimIndex : AsyncEnd(i) \/ AsyncCrash(i)
  \/ AsyncGather

Spec == Init /\ [][Next]_vars

-----------------------------------------------------------------------------
TypeOK ==
  /\ run \in [SimIndex -> SimResults \cup {Crash}]
  /\ next \in 1 .. NValidationSeeds + 2
  /\ scored \in Seq(Nat)
  /\ ended \subseteq SimIndex
  /\ {syncOut.status, asyncOut.status} \subseteq {"running", "returned", "raised"}

(***************************************************************************)
(* step and step_async grade alike: when both drivers return, verdict and  *)
(* score are the same, although one stops at the first failure and the     *)
(* other lets the simulations end in any order.                            *)
(***************************************************************************)
DriversAgree ==
  (Returned(syncOut) /\ Returned(asyncOut)) => syncOut.graded = asyncOut.graded

(***************************************************************************)
(* Where the drivers differ: a crash the early return never gets to.  When *)
(* one raises and the other returns, it is the async one that raised, and  *)
(* the sync one had rejected the submission before reaching the crash.     *)
(***************************************************************************)
OnlyAsyncRaises ==
  /\ ~(HasRaised(syncOut) /\ Returned(asyncOut))
  /\ (HasRaised(asyncOut) /\ Returned(syncOut)) => syncOut.graded.verdict # "OK"

\* What the two drivers know about the simulations they have been through.
DriverInv ==
  /\ \A i \in SimIndex : i < next => run[i] # Crash /\ ~Fails(run[i])
  /\ Len(scored) = next - 1
  /\ \A i \in SimIndex : i < next => scored[i] = Cycles(run[i])
  /\ \A i \in ended : run[i] # Crash
  /\ (HasRaised(syncOut) \/ HasRaised(asyncOut)) => \E i \in SimIndex : run[i] = Crash
  /\ Returned(syncOut) =>
       \/ /\ next = NValidationSeeds + 2
          /\ syncOut.graded = [verdict |-> "OK", score |-> [cycles |-> scored, bonus |-> FALSE]]
       \/ /\ next \in SimIndex
          /\ run[next] # Crash /\ Fails(run[next])
          /\ syncOut.graded = Rejected(FailureVerdict(run[next]))
  /\ Returned(asyncOut) =>
       /\ \A i \in SimIndex : run[i] # Crash
       /\ asyncOut.graded = MultiSeedResult(run)
=============================================================================
