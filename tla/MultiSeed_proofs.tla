--------------------------- MODULE MultiSeed_proofs ---------------------------
(***************************************************************************)
(* The two drivers of FPGAEnvironment agree, for any number of seeds and   *)
(* anything a simulation can return.                                       *)
(***************************************************************************)
EXTENDS MultiSeed, SequenceTheorems, TLAPS

\* The type invariant of the two drivers: the loop of _run_multi_seed stays
\* within the seeds and one position past the last.
THEOREM TypeCorrect == Spec => []TypeOK
<1> USE GradingAssumption DEF TypeOK, SimIndex
<1>1. Init => TypeOK
  BY DEF Init, Unfinished
<1>2. TypeOK /\ [Next]_vars => TypeOK'
  <2> SUFFICES ASSUME TypeOK, [Next]_vars PROVE TypeOK'
    OBVIOUS
  <2>1. CASE SyncPass
    <3>1. run[next] \in SimResult
      BY <2>1 DEF SyncPass
    <3>2. Cycles(run[next]) \in Nat
      BY <3>1 DEF Cycles, Parse, SimResult, NoTotal
    <3>3. scored' \in Seq(Nat) /\ next' \in 1 .. NValidationSeeds + 2
      BY <2>1, <3>2, AppendProperties DEF SyncPass
    <3> QED
      BY <2>1, <3>3 DEF SyncPass
  <2>2. CASE SyncCrash \/ SyncFail \/ SyncMean
    <3>1. syncOut'.status \in {"returned", "raised"}
      BY <2>2 DEF SyncCrash, SyncFail, SyncMean, Exception, Result
    <3> QED
      BY <2>2, <3>1 DEF SyncCrash, SyncFail, SyncMean
  <2>3. ASSUME NEW i \in SimIndex, AsyncEnd(i) \/ AsyncCrash(i)
        PROVE  TypeOK'
    <3>1. CASE AsyncEnd(i)
      BY <3>1 DEF AsyncEnd
    <3>2. CASE AsyncCrash(i)
      <4>1. asyncOut'.status = "raised"
        BY <3>2 DEF AsyncCrash, Exception
      <4> QED
        BY <3>2, <4>1 DEF AsyncCrash
    <3> QED
      BY <2>3, <3>1, <3>2
  <2>4. CASE AsyncGather
    BY <2>4 DEF AsyncGather, Result
  <2>5. CASE UNCHANGED vars
    BY <2>5 DEF vars
  <2> QED
    BY <2>1, <2>2, <2>3, <2>4, <2>5 DEF Next
<1> QED
  BY <1>1, <1>2, PTL DEF Spec

-----------------------------------------------------------------------------
\* If a set of seeds fails, FirstFailure is the least of them, so a failing
\* seed with only passing ones before it is the one that decides.
LEMMA FirstFailureIs ==
  ASSUME NEW results, NEW k \in SimIndex,
         Fails(results[k]),
         \A i \in SimIndex : i < k => ~Fails(results[i])
  PROVE  FirstFailure(results) = k
<1> USE GradingAssumption DEF SimIndex
<1> DEFINE First(i) == /\ Fails(results[i])
                       /\ \A j \in SimIndex : Fails(results[j]) => i <= j
<1>1. First(k)
  OBVIOUS
<1>2. \A i \in SimIndex : First(i) => i = k
  OBVIOUS
<1> HIDE DEF First
<1>3. (CHOOSE i \in SimIndex : First(i)) = k
  BY <1>1, <1>2
<1> QED
  BY <1>3 DEF FirstFailure, First

\* DriverInv holds initially and every step of either driver keeps it.
THEOREM DriverInvariant == Spec => []DriverInv
<1> USE GradingAssumption DEF SimIndex
<1>1. Init => DriverInv
  BY DEF Init, DriverInv, Returned, HasRaised, Unfinished
<1>2. TypeOK /\ DriverInv /\ [Next]_vars => DriverInv'
  <2> SUFFICES ASSUME TypeOK, DriverInv, [Next]_vars PROVE DriverInv'
    OBVIOUS
  <2> USE DEF TypeOK, DriverInv, HasRaised, Running
  <2>1. CASE SyncCrash
    BY <2>1 DEF SyncCrash, Exception, Returned
  <2>2. CASE SyncFail
    <3>1. syncOut' = Result(Rejected(FailureVerdict(run[next]))) /\ Fails(run[next])
      BY <2>2 DEF SyncFail, FailureVerdict, TimedOut, Fails, Wrong
    <3> QED
      BY <2>2, <3>1 DEF SyncFail, Result, Returned
  <2>3. CASE SyncPass
    <3>1. run[next] \in SimResult
      BY <2>3 DEF SyncPass
    <3>2. Cycles(run[next]) \in Nat
      BY <3>1 DEF Cycles, Parse, SimResult, NoTotal
    <3>3. /\ Len(scored') = next
          /\ \A i \in 1 .. next - 1 : scored'[i] = scored[i]
          /\ scored'[next] = Cycles(run[next])
      BY <2>3, <3>2, AppendProperties DEF SyncPass
    <3>4. UNCHANGED <<run, syncOut, ended, asyncOut>> /\ next' = next + 1
      BY <2>3 DEF SyncPass
    <3>5. \A i \in SimIndex : i < next' => i < next \/ i = next
      BY <3>4
    <3>6. run[next] # Crash /\ ~Fails(run[next])
      BY <2>3 DEF SyncPass
    <3>7. ~Returned(syncOut)
      BY <2>3 DEF SyncPass, Returned, Running
    <3> QED
      BY <3>3, <3>4, <3>5, <3>6, <3>7 DEF Returned
  <2>4. CASE SyncMean
    BY <2>4 DEF SyncMean, Result, Returned
  <2>5. ASSUME NEW i \in SimIndex, AsyncEnd(i)
        PROVE  DriverInv'
    BY <2>5 DEF AsyncEnd, Returned
  <2>6. ASSUME NEW i \in SimIndex, AsyncCrash(i)
        PROVE  DriverInv'
    BY <2>6 DEF AsyncCrash, Exception, Returned
  <2>7. CASE AsyncGather
    BY <2>7 DEF AsyncGather, Result, Returned
  <2>8. CASE UNCHANGED vars
    BY <2>8 DEF vars, Returned
  <2> QED
    BY <2>1, <2>2, <2>3, <2>4, <2>5, <2>6, <2>7, <2>8 DEF Next
<1> QED
  BY <1>1, <1>2, TypeCorrect, PTL DEF Spec

-----------------------------------------------------------------------------
\* step and step_async grade alike: what the two drivers return is the same
\* GradingResult, for every number of validation seeds.
THEOREM DriversAlwaysAgree == Spec => []DriversAgree
<1> USE GradingAssumption DEF SimIndex
<1>1. TypeOK /\ DriverInv => DriversAgree
  <2> SUFFICES ASSUME TypeOK, DriverInv, Returned(syncOut), Returned(asyncOut)
               PROVE  syncOut.graded = asyncOut.graded
    BY DEF DriversAgree
  <2>1. asyncOut.graded = MultiSeedResult(run)
    BY DEF DriverInv
  <2>2. CASE next = NValidationSeeds + 2
    <3>1. \A i \in SimIndex : ~Fails(run[i]) /\ scored[i] = Cycles(run[i])
      BY <2>2 DEF DriverInv, TypeOK
    <3>2. scored = [i \in SimIndex |-> Cycles(run[i])]
      BY <2>2, <3>1 DEF DriverInv, TypeOK
    <3>3. syncOut.graded = [verdict |-> "OK", score |-> [cycles |-> scored, bonus |-> FALSE]]
      BY <2>2 DEF DriverInv
    <3> QED
      BY <2>1, <3>1, <3>2, <3>3 DEF MultiSeedResult
  <2>3. CASE next # NValidationSeeds + 2
    <3>1. /\ next \in SimIndex /\ Fails(run[next])
          /\ syncOut.graded = Rejected(FailureVerdict(run[next]))
      BY <2>3 DEF DriverInv
    <3>2. \A i \in SimIndex : i < next => ~Fails(run[i])
      BY DEF DriverInv
    <3>3. FirstFailure(run) = next
      BY <3>1, <3>2, FirstFailureIs
    <3> QED
      BY <2>1, <3>1, <3>3 DEF MultiSeedResult
  <2> QED
    BY <2>2, <2>3
<1> QED
  BY <1>1, TypeCorrect, DriverInvariant, PTL

\* Only the async driver can raise where the other one returns, and only on a
\* submission the sync driver rejects before it reaches the crash.
THEOREM OnlyAsyncRaisesAlways == Spec => []OnlyAsyncRaises
<1>1. TypeOK /\ DriverInv => OnlyAsyncRaises
  <2> SUFFICES ASSUME TypeOK, DriverInv,
                      NEW i \in SimIndex, run[i] = Crash
               PROVE  ~Returned(asyncOut) /\ (Returned(syncOut) => syncOut.graded.verdict # "OK")
    BY DEF OnlyAsyncRaises, DriverInv
  <2>1. ~Returned(asyncOut)
    BY DEF DriverInv
  <2>2. ASSUME Returned(syncOut)
        PROVE  syncOut.graded.verdict # "OK"
    <3>1. next # NValidationSeeds + 2
      BY GradingAssumption DEF DriverInv, SimIndex
    <3> QED
      BY <2>2, <3>1 DEF DriverInv, Rejected, FailureVerdict
  <2> QED
    BY <2>1, <2>2
<1> QED
  BY <1>1, TypeCorrect, DriverInvariant, PTL
=============================================================================
