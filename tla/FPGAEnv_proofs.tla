--------------------------- MODULE FPGAEnv_proofs ---------------------------
(***************************************************************************)
(* Theorems about FPGAEnv for any sessions, environments, tasks, seeds and *)
(* number of validation seeds.                                             *)
(***************************************************************************)
EXTENDS FPGAEnv, SequenceTheorems, WellFoundedInduction, TLAPS

-----------------------------------------------------------------------------
(***************************************************************************)
(* What the operators of Grading return, for every number of validation    *)
(* seeds.                                                                  *)
(***************************************************************************)
\* float(report.total_cycles or 0) is a count, and never the marker of a
\* missing TOTAL_CYCLES line.
LEMMA CyclesType ==
  ASSUME NEW r \in SimResult
  PROVE  Cycles(r) \in Nat
BY DEF Cycles, Parse, SimResult, NoTotal

\* _validation_seeds gives one seed per simulation.
LEMMA ValidationSeedsType ==
  ASSUME NEW p \in Nat
  PROVE  ValidationSeeds(p) \in Seq(Nat)
<1>1. ValidationSeeds(p) \in [1 .. NValidationSeeds + 1 -> Nat]
  BY GradingAssumption DEF ValidationSeeds, SimIndex
<1> QED
  BY <1>1, SeqDef, GradingAssumption

LEMMA RejectedType ==
  ASSUME NEW v \in Verdict
  PROVE  Rejected(v) \in GradingResult
<1>1. << >> \in Seq(Nat)
  BY EmptySeq
<1> QED
  BY <1>1 DEF Rejected, GradingResult, ZeroScore, Score

\* check_verilog's refusals carry one of two verdicts and no score.
LEMMA GuardResultType ==
  ASSUME NEW sub
  PROVE  GuardResult(sub) \in GradingResult
BY RejectedType DEF GuardResult, Verdict

\* The scan over the results of all seeds is a GradingResult, and says OK
\* exactly when no seed fails.
LEMMA MultiSeedResultType ==
  ASSUME NEW results \in [SimIndex -> SimResults]
  PROVE  /\ MultiSeedResult(results) \in GradingResult
         /\ MultiSeedResult(results).verdict = "OK" <=> \A i \in SimIndex : ~Fails(results[i])
<1>1. CASE \E i \in SimIndex : Fails(results[i])
  <2> DEFINE v == FailureVerdict(results[FirstFailure(results)])
  <2>1. v \in {"TIMEOUT", "INCORRECT"}
    BY DEF FailureVerdict
  <2>2. MultiSeedResult(results) = Rejected(v)
    BY <1>1 DEF MultiSeedResult
  <2> QED
    BY <1>1, <2>1, <2>2, RejectedType DEF Verdict, Rejected
<1>2. CASE ~ \E i \in SimIndex : Fails(results[i])
  <2> DEFINE cs == [i \in SimIndex |-> Cycles(results[i])]
  <2>1. cs \in [1 .. NValidationSeeds + 1 -> Nat]
    BY CyclesType, GradingAssumption DEF SimIndex
  <2>2. cs \in Seq(Nat)
    BY <2>1, SeqDef, GradingAssumption
  <2>3. MultiSeedResult(results)
          = [verdict |-> "OK", score |-> [cycles |-> cs, bonus |-> FALSE]]
    BY <1>2 DEF MultiSeedResult
  <2> HIDE DEF cs
  <2> QED
    BY <1>2, <2>2, <2>3 DEF GradingResult, Score, Verdict
<1> QED
  BY <1>1, <1>2

\* When a seed fails, the scan finds the least one that does: FirstFailure is
\* a seed, it fails, and no seed before it does.
LEMMA FirstFailureFails ==
  ASSUME NEW results, \E i \in SimIndex : Fails(results[i])
  PROVE  /\ FirstFailure(results) \in SimIndex
         /\ Fails(results[FirstFailure(results)])
         /\ \A j \in SimIndex : Fails(results[j]) => FirstFailure(results) <= j
<1> DEFINE T == {i \in SimIndex : Fails(results[i])}
<1>1. T \subseteq Nat /\ T # {}
  BY GradingAssumption DEF SimIndex
<1>2. PICK i \in T : \A j \in T : <<j, i>> \notin OpToRel(<, Nat)
  BY <1>1, WFMin, NatLessThanWellFounded, Zenon
<1>3. \A j \in T : i <= j
  <2> SUFFICES ASSUME NEW j \in T, j < i
               PROVE  FALSE
    BY <1>1
  <2> QED
    BY <1>1, <1>2 DEF OpToRel
<1>4. \E k \in SimIndex : /\ Fails(results[k])
                         /\ \A j \in SimIndex : Fails(results[j]) => k <= j
  BY <1>3
<1> QED
  BY <1>4 DEF FirstFailure

\* The bonus touches nothing but the bonus of an OK result.
LEMMA WithFormatBonusType ==
  ASSUME NEW g \in GradingResult, NEW sub
  PROVE  /\ WithFormatBonus(g, sub) \in GradingResult
         /\ WithFormatBonus(g, sub).verdict = g.verdict
         /\ WithFormatBonus(g, sub).score.cycles = g.score.cycles
         /\ WithFormatBonus(g, sub).score.bonus \in {g.score.bonus, FormatBonus}
BY GradingAssumption DEF WithFormatBonus, GradingResult, Score

LEMMA GatedScoreType ==
  ASSUME NEW g \in GradingResult
  PROVE  GatedScore(g) \in Score
<1>1. << >> \in Seq(Nat)
  BY EmptySeq
<1> QED
  BY <1>1 DEF GatedScore, GradingResult, ZeroScore, Score

-----------------------------------------------------------------------------
LEMMA ZeroScoreType == ZeroScore \in Score
BY EmptySeq DEF ZeroScore, Score

LEMMA NewStateType ==
  ASSUME NEW id \in Nat, NEW taskArg \in Task \cup {None, UnknownTask}
  PROVE  NewState(id, taskArg) \in EpisodeState
BY ZeroScoreType DEF NewState, EpisodeState

LEMMA NoCallType == NoCall \in Frame
BY EmptySeq DEF NoCall, Frame, Submission

LEMMA ObservedType ==
  ASSUME NEW v \in Verdict \cup {None}, NEW sc \in Score, NEW p \in Task \cup {None},
         NEW id \in Nat, NEW sds \in Seq(Nat), NEW done \in BOOLEAN
  PROVE  Observed(v, sc, p, id, sds, done) \in Observation
BY DEF Observed, Observation

LEMMA RaisedType == Raised \in Observation /\ NoObs \in Observation
<1>1. ZeroScore \in Score /\ << >> \in Seq(Nat)
  BY ZeroScoreType, EmptySeq
<1> QED
  BY <1>1 DEF Raised, NoObs, NoAnswer, Observation

\* A call that ends, at whatever stage, leaves everything well typed.
LEMMA ReturnType ==
  ASSUME TypeOK, NEW s \in Session,
         NEW st \in [Env -> EpisodeState], NEW g \in GradingResult,
         NEW finished \in Frame,
         Return(s, st, g, finished)
  PROVE  TypeOK'
<1> USE DEF TypeOK
<1> DEFINE e == EnvOf[s]
           sds == IF g.verdict = "OK" THEN finished.seeds ELSE << >>
<1>1. e \in Env
  BY FPGAEnvAssumption
<1>2. g.verdict \in Verdict /\ GatedScore(g) \in Score
  BY GatedScoreType DEF GradingResult
<1>3. state' \in [Env -> EpisodeState]
  BY <1>1, <1>2 DEF Return, EpisodeState
<1>4. sds \in Seq(Nat)
  BY EmptySeq DEF Frame
<1>5. Observed(g.verdict, GatedScore(g), currentTask[e], st[e].episode_id, sds, TRUE)
        \in Observation
  BY <1>1, <1>2, <1>4, ObservedType DEF EpisodeState
<1>6. obs' \in [Session -> Observation]
  BY <1>5 DEF Return
<1>7. call' \in [Session -> Frame]
  BY DEF Return, Frame
<1> QED
  BY <1>3, <1>6, <1>7 DEF Return

\* Counting a step touches one counter of one environment.
LEMMA CountedType ==
  ASSUME TypeOK, NEW s \in Session
  PROVE  /\ Counted(s) \in [Env -> EpisodeState]
         /\ Counted(s)[EnvOf[s]].step_count > 0
         /\ \A e \in Env : Counted(s)[e].episode_id = state[e].episode_id
         /\ \A e \in Env \ {EnvOf[s]} : Counted(s)[e] = state[e]
<1>1. EnvOf[s] \in Env
  BY FPGAEnvAssumption
<1>2. state[EnvOf[s]].step_count + 1 \in Nat /\ state[EnvOf[s]].step_count + 1 > 0
  BY <1>1 DEF TypeOK, EpisodeState
<1> QED
  BY <1>1, <1>2 DEF Counted, TypeOK, EpisodeState

LEMMA BegunType ==
  ASSUME TypeOK, NEW s \in Session, NEW sub \in Submissions
  PROVE  /\ Begun(s, sub) \in Frame
         /\ Begun(s, sub).pc = "lint" /\ Begun(s, sub).sub = sub
         /\ Begun(s, sub).task = currentTask[EnvOf[s]]
BY NoCallType, GradingAssumption, FPGAEnvAssumption DEF Begun, Frame, NoCall, TypeOK

\* The seeds step does not simulate come after one that fails: all of them ran
\* and passed exactly when none fails.
LEMMA EarlyReturn ==
  ASSUME NEW sims \in [SimIndex -> SimResults]
  PROVE  /\ UpToFailure(sims) \in [SimIndex -> SimResults \cup {Pending}]
         /\ (\A i \in SimIndex : Ran(UpToFailure(sims)[i]) /\ ~Fails(UpToFailure(sims)[i]))
              <=> \A i \in SimIndex : ~Fails(sims[i])
         /\ (\A i \in SimIndex : ~Fails(sims[i])) => UpToFailure(sims) = sims
<1>1. UpToFailure(sims) \in [SimIndex -> SimResults \cup {Pending}]
  BY DEF UpToFailure
<1>2. \A i \in SimIndex : sims[i] # Pending
  BY FPGAEnvAssumption, GradingAssumption
<1>3. (\A i \in SimIndex : ~Fails(sims[i])) => UpToFailure(sims) = sims
  BY DEF UpToFailure
<1>4. ASSUME \E i \in SimIndex : Fails(sims[i])
      PROVE  \E i \in SimIndex : Ran(UpToFailure(sims)[i]) => Fails(UpToFailure(sims)[i])
  <2>1. PICK i \in SimIndex : Fails(sims[i])
    BY <1>4
  <2>2. UpToFailure(sims)[i] \in {Pending, sims[i]}
    BY DEF UpToFailure
  <2> QED
    BY <2>1, <2>2 DEF Ran
<1> QED
  BY <1>1, <1>2, <1>3, <1>4 DEF Ran

\* The frames of step: what they hold of the stages that ran.
LEMMA StageFrames ==
  ASSUME TypeOK, NEW s \in Session, NEW sub \in Submissions,
         NEW lint \in StageResults, NEW build \in StageResults
  PROVE  /\ Linted(s, sub, lint) \in Frame
         /\ Linted(s, sub, lint).lint = lint
         /\ Built(s, sub, lint, build) \in Frame
         /\ Built(s, sub, lint, build).build = build
         /\ Built(s, sub, lint, build).lint = lint
         /\ Built(s, sub, lint, build).sub = sub
<1>0. Begun(s, sub) \in Frame /\ Begun(s, sub).sub = sub
  BY BegunType
<1>1. /\ Linted(s, sub, lint) \in Frame
      /\ Linted(s, sub, lint).lint = lint /\ Linted(s, sub, lint).sub = sub
  BY <1>0 DEF Linted, Frame
<1> DEFINE linted == Linted(s, sub, lint)
<1>2. Built(s, sub, lint, build) = [linted EXCEPT !.build = build]
  BY DEF Built
<1> HIDE DEF linted
<1>3. linted \in Frame /\ linted.lint = lint /\ linted.sub = sub
  BY <1>1 DEF linted
<1>4. LET built == [linted EXCEPT !.build = build]
      IN  built \in Frame /\ built.build = build /\ built.lint = lint /\ built.sub = sub
  BY <1>3 DEF Frame
<1> QED
  BY <1>1, <1>2, <1>4

LEMMA SyncFrames ==
  ASSUME TypeOK, NEW s \in Session, NEW sub \in Submissions,
         NEW lint \in StageResults, NEW build \in StageResults,
         NEW sims \in [SimIndex -> SimResults]
  PROVE  /\ Simulated(s, sub, lint, build, sims) \in Frame
         /\ Simulated(s, sub, lint, build, sims).sub = sub
         /\ Simulated(s, sub, lint, build, sims).lint = lint
         /\ Simulated(s, sub, lint, build, sims).build = build
         /\ Simulated(s, sub, lint, build, sims).sims = UpToFailure(sims)
         /\ Simulated(s, sub, lint, build, sims).seeds = ValidationSeeds(seed[EnvOf[s]])
<1> DEFINE vs == ValidationSeeds(seed[EnvOf[s]])
           up == UpToFailure(sims)
<1>1. vs \in Seq(Nat)
  BY FPGAEnvAssumption, ValidationSeedsType DEF TypeOK
<1>2. up \in [SimIndex -> SimResults \cup {Pending}]
  BY EarlyReturn
<1> DEFINE built == Built(s, sub, lint, build)
           run == [built EXCEPT !.seeds = vs, !.sims = up]
<1>3. Simulated(s, sub, lint, build, sims) = run
  BY DEF Simulated
<1>4. built \in Frame /\ built.sub = sub /\ built.lint = lint /\ built.build = build
  BY StageFrames
<1> HIDE DEF vs, up, built
<1>5. /\ run \in Frame /\ run.sub = sub /\ run.lint = lint /\ run.build = build
      /\ run.sims = up /\ run.seeds = vs
  BY <1>1, <1>2, <1>4 DEF Frame
<1> QED
  BY <1>3, <1>5 DEF vs, up

\* step grades like the pipeline it runs: a rejection, or what MultiSeedResult
\* makes of the simulations, in a frame that holds them.
LEMMA StepReturns ==
  ASSUME TypeOK, NEW s \in Session, NEW sub \in Submissions, Step(s, sub)
  PROVE  \/ \E f \in Frame :
              /\ ~AllPassed(f)
              /\ Return(s, Counted(s), Rejected("COMPILE_ERROR"), f)
         \/ \E f \in Frame, sims \in [SimIndex -> SimResults] :
              /\ f.sub = sub
              /\ AllPassed(f) <=> \A i \in SimIndex : ~Fails(sims[i])
              /\ AllPassed(f) => f.sims = sims
              /\ f.seeds = ValidationSeeds(seed[EnvOf[s]])
              /\ Return(s, Counted(s), WithFormatBonus(MultiSeedResult(sims), sub), f)
<1>0. sub.guard = "clean"
  BY DEF Step
<1>1. PICK lint \in StageResults :
        \/ /\ ~StagePassed(lint)
           /\ Return(s, Counted(s), Rejected("COMPILE_ERROR"), Linted(s, sub, lint))
        \/ /\ StagePassed(lint)
           /\ \E build \in StageResults :
                \/ /\ ~StagePassed(build)
                   /\ Return(s, Counted(s), Rejected("COMPILE_ERROR"), Built(s, sub, lint, build))
                \/ /\ StagePassed(build)
                   /\ \E sims \in [SimIndex -> SimResults] :
                        Return(s, Counted(s), WithFormatBonus(MultiSeedResult(sims), sub),
                               Simulated(s, sub, lint, build, sims))
  BY DEF Step
<1>2. CASE ~StagePassed(lint)
  <2>1. Linted(s, sub, lint) \in Frame /\ ~AllPassed(Linted(s, sub, lint))
    BY <1>2, StageFrames DEF AllPassed
  <2> QED
    BY <1>1, <1>2, <2>1
<1>3. CASE StagePassed(lint)
  <2>1. PICK build \in StageResults :
          \/ /\ ~StagePassed(build)
             /\ Return(s, Counted(s), Rejected("COMPILE_ERROR"), Built(s, sub, lint, build))
          \/ /\ StagePassed(build)
             /\ \E sims \in [SimIndex -> SimResults] :
                  Return(s, Counted(s), WithFormatBonus(MultiSeedResult(sims), sub),
                         Simulated(s, sub, lint, build, sims))
    BY <1>1, <1>3
  <2>2. CASE ~StagePassed(build)
    <3>1. Built(s, sub, lint, build) \in Frame /\ ~AllPassed(Built(s, sub, lint, build))
      BY <2>2, StageFrames DEF AllPassed
    <3> QED
      BY <2>1, <2>2, <3>1
  <2>3. CASE StagePassed(build)
    <3>1. PICK sims \in [SimIndex -> SimResults] :
            Return(s, Counted(s), WithFormatBonus(MultiSeedResult(sims), sub),
                   Simulated(s, sub, lint, build, sims))
      BY <2>1, <2>3
    <3> DEFINE f == Simulated(s, sub, lint, build, sims)
    <3>2. /\ f \in Frame /\ f.sub = sub /\ f.lint = lint /\ f.build = build
          /\ f.sims = UpToFailure(sims) /\ f.seeds = ValidationSeeds(seed[EnvOf[s]])
      BY SyncFrames
    <3> HIDE DEF f
    <3>3. Ran(lint) /\ Ran(build)
      BY FPGAEnvAssumption, GradingAssumption DEF Ran
    <3>4. AllPassed(f) <=> \A i \in SimIndex : ~Fails(sims[i])
      BY <1>0, <1>3, <2>3, <3>2, <3>3, EarlyReturn DEF AllPassed
    <3>5. AllPassed(f) => f.sims = sims
      BY <3>2, <3>4, EarlyReturn
    <3> QED
      BY <3>1, <3>2, <3>4, <3>5 DEF f
  <2> QED
    BY <2>2, <2>3
<1> QED
  BY <1>2, <1>3

\* TypeOK: the attributes of every environment and the locals of every
\* coroutine keep their types over all interleavings.
THEOREM TypeCorrect == Spec => []TypeOK
<1>1. Init => TypeOK
  BY NewStateType, NoCallType, RaisedType DEF Init, TypeOK, NoEpisode
<1>2. TypeOK /\ [Next]_vars => TypeOK'
  <2> SUFFICES ASSUME TypeOK, [Next]_vars PROVE TypeOK'
    OBVIOUS
  <2> USE DEF TypeOK
  <2>1. ASSUME NEW s \in Session, NEW taskArg \in Task \cup {None},
               NEW seedArg \in Seeds \cup {None}, Reset(s, taskArg, seedArg)
        PROVE  TypeOK'
    <3> DEFINE task == Resolve(taskArg)
    <3>0. EnvOf[s] \in Env /\ SeedOf(seedArg) \in Nat
      BY FPGAEnvAssumption DEF SeedOf
    <3>1. task \in Task /\ episodes' \in Nat
      BY <2>1 DEF Reset, BeginEpisode
    <3>2. NewState(episodes', taskArg) \in EpisodeState
      BY <3>1, NewStateType
    <3>3. Observed("OK", ZeroScore, task, episodes', << >>, FALSE) \in Observation
      BY <3>1, ObservedType, ZeroScoreType, EmptySeq DEF Verdict
    <3> QED
      BY <2>1, <3>0, <3>1, <3>2, <3>3, NoCallType DEF Reset, BeginEpisode
  <2>2. ASSUME NEW s \in Session, ResetRaises(s, UnknownTask)
        PROVE  TypeOK'
    <3>0. EnvOf[s] \in Env
      BY FPGAEnvAssumption
    <3>1. episodes' \in Nat
      BY <2>2 DEF ResetRaises, BeginEpisode
    <3>2. NewState(episodes', UnknownTask) \in EpisodeState
      BY <3>1, NewStateType
    <3> QED
      BY <2>2, <3>0, <3>1, <3>2, NoCallType, RaisedType DEF ResetRaises, BeginEpisode, NoEpisode
  <2>3. ASSUME NEW s \in Session, StepWithoutTask(s)
        PROVE  TypeOK'
    BY <2>3, RaisedType DEF StepWithoutTask
  <2>4. ASSUME NEW s \in Session, NEW sub \in Submissions,
               StepBegin(s, sub) \/ StepBlocked(s, sub)
        PROVE  TypeOK'
    <3>1. EnvOf[s] \in Env
      BY FPGAEnvAssumption
    <3>0. state[EnvOf[s]].step_count + 1 \in Nat
      BY <3>1 DEF EpisodeState
    <3>2. Counted(s) \in [Env -> EpisodeState]
      BY <3>0, <3>1 DEF Counted, EpisodeState
    <3>3. Begun(s, sub) \in Frame
      BY <3>1, NoCallType, GradingAssumption DEF Begun, Frame, NoCall
    <3>4. CASE StepBegin(s, sub)
      BY <3>2, <3>3, <3>4 DEF StepBegin
    <3>5. CASE StepBlocked(s, sub)
      BY <3>2, <3>3, <3>5, GuardResultType, ReturnType DEF StepBlocked
    <3> QED
      BY <2>4, <3>4, <3>5
  <2>5. ASSUME NEW s \in Session, NEW r \in StageResults, LintDone(s, r)
        PROVE  TypeOK'
    <3> DEFINE linted == [call[s] EXCEPT !.lint = r]
    <3>1. linted \in Frame /\ [linted EXCEPT !.pc = "build"] \in Frame
      BY DEF Frame
    <3>2. CASE StagePassed(r)
      BY <2>5, <3>1, <3>2 DEF LintDone, Resume
    <3>3. CASE ~StagePassed(r)
      <4>1. Return(s, state, Rejected("COMPILE_ERROR"), linted)
        BY <2>5, <3>3 DEF LintDone
      <4> QED
        BY <3>1, <4>1, RejectedType, ReturnType DEF Verdict
    <3> QED
      BY <3>2, <3>3
  <2>6. ASSUME NEW s \in Session, NEW r \in StageResults, BuildDone(s, r)
        PROVE  TypeOK'
    <3> DEFINE built == [call[s] EXCEPT !.build = r]
               vs == ValidationSeeds(seed[EnvOf[s]])
    <3>1. vs \in Seq(Nat)
      BY FPGAEnvAssumption, ValidationSeedsType
    <3> HIDE DEF vs
    <3>2. built \in Frame /\ [built EXCEPT !.pc = "sims", !.seeds = vs] \in Frame
      BY <3>1 DEF Frame
    <3>3. CASE StagePassed(r)
      BY <2>6, <3>2, <3>3 DEF BuildDone, Resume, vs
    <3>4. CASE ~StagePassed(r)
      <4>1. Return(s, state, Rejected("COMPILE_ERROR"), built)
        BY <2>6, <3>4 DEF BuildDone
      <4> QED
        BY <3>2, <4>1, RejectedType, ReturnType DEF Verdict
    <3> QED
      BY <3>3, <3>4
  <2>7. ASSUME NEW s \in Session, NEW i \in SimIndex, NEW r \in SimResults, SimDone(s, i, r)
        PROVE  TypeOK'
    <3>1. [call[s] EXCEPT !.sims[i] = r] \in Frame
      BY DEF Frame
    <3> QED
      BY <2>7, <3>1 DEF SimDone, Resume
  <2>8. ASSUME NEW s \in Session, Gathered(s)
        PROVE  TypeOK'
    <3>1. call[s] \in Frame /\ call[s].sims \in [SimIndex -> SimResults]
      BY <2>8 DEF Gathered, Frame
    <3>2. WithFormatBonus(MultiSeedResult(call[s].sims), call[s].sub) \in GradingResult
      BY <3>1, MultiSeedResultType, WithFormatBonusType
    <3> QED
      BY <2>8, <3>1, <3>2, ReturnType DEF Gathered
  <2>9. ASSUME NEW s \in Session, StepRaises(s)
        PROVE  TypeOK'
    BY <2>9, NoCallType, RaisedType DEF StepRaises
  <2>10. ASSUME NEW s \in Session, NEW sub \in Submissions, Step(s, sub)
         PROVE  TypeOK'
    <3>1. Counted(s) \in [Env -> EpisodeState]
      BY CountedType
    <3>2. \E g \in GradingResult, f \in Frame : Return(s, Counted(s), g, f)
      BY <2>10, StepReturns, RejectedType, MultiSeedResultType, WithFormatBonusType DEF Verdict
    <3> QED
      BY <3>1, <3>2, ReturnType
  <2>11. ASSUME NEW s \in Session, NEW sub \in Submissions, SyncStepRaises(s, sub)
         PROVE  TypeOK'
    BY <2>11, CountedType, NoCallType, RaisedType DEF SyncStepRaises
  <2>12. CASE UNCHANGED vars
    BY <2>12 DEF vars
  <2> QED
    BY <2>1, <2>2, <2>3, <2>4, <2>5, <2>6, <2>7, <2>8, <2>9, <2>10, <2>11, <2>12 DEF Next
<1> QED
  BY <1>1, <1>2, PTL DEF Spec

-----------------------------------------------------------------------------
\* Only the frame of the session that moves changes.
LEMMA FrameChange ==
  ASSUME TypeOK, CallInv, NEW s \in Session, NEW c, PassedSoFar(c),
         call' = [call EXCEPT ![s] = c]
  PROVE  CallInv'
<1>1. \A t \in Session : call'[t] = IF t = s THEN c ELSE call[t]
  BY DEF TypeOK
<1>2. \A t \in Session : PassedSoFar(call'[t])
  BY <1>1 DEF CallInv
<1> QED
  BY <1>2 DEF CallInv

LEMMA IdlePasses == ASSUME NEW c \in Frame, c.pc = "idle" PROVE PassedSoFar(c)
BY DEF PassedSoFar

\* A call gets as far as it has passed: the part of the hard gate that is
\* about calls under way.
THEOREM CallInvariant == Spec => []CallInv
<1>1. Init => CallInv
  BY DEF Init, CallInv, NoCall, PassedSoFar
<1>2. TypeOK /\ CallInv /\ [Next]_vars => CallInv'
  <2> SUFFICES ASSUME TypeOK, CallInv, [Next]_vars PROVE CallInv'
    OBVIOUS
  <2>0. PassedSoFar(NoCall)
    BY DEF PassedSoFar, NoCall
  <2>1. ASSUME NEW s \in Session,
               NEW taskArg \in Task \cup {None, UnknownTask}, BeginEpisode(s, taskArg)
        PROVE  CallInv'
    BY <2>0, <2>1, FrameChange DEF BeginEpisode
  <2>2. ASSUME NEW s \in Session, StepWithoutTask(s)
        PROVE  CallInv'
    BY <2>2 DEF StepWithoutTask, CallInv
  <2>3. ASSUME NEW s \in Session, NEW sub \in Submissions, StepBegin(s, sub)
        PROVE  CallInv'
    <3>1. PassedSoFar(Begun(s, sub))
      BY <2>3 DEF StepBegin, PassedSoFar, Begun, NoCall
    <3> QED
      BY <2>3, <3>1, FrameChange DEF StepBegin
  <2>4. ASSUME NEW s \in Session, NEW st, NEW g, NEW finished \in Frame,
               Return(s, st, g, finished)
        PROVE  CallInv'
    <3>1. [finished EXCEPT !.pc = "idle"].pc = "idle" /\ [finished EXCEPT !.pc = "idle"] \in Frame
      BY DEF Frame
    <3> QED
      BY <2>4, <3>1, IdlePasses, FrameChange DEF Return
  <2>5. ASSUME NEW s \in Session, NEW sub \in Submissions, StepBlocked(s, sub)
        PROVE  CallInv'
    <3>1. Begun(s, sub) \in Frame
      BY NoCallType, GradingAssumption, FPGAEnvAssumption DEF Begun, Frame, NoCall, TypeOK
    <3> QED
      BY <2>4, <2>5, <3>1 DEF StepBlocked
  <2>6. ASSUME NEW s \in Session, NEW r \in StageResults, LintDone(s, r)
        PROVE  CallInv'
    <3> DEFINE linted == [call[s] EXCEPT !.lint = r]
    <3>1. linted \in Frame /\ call[s].pc = "lint" /\ call[s] \in Frame
      BY <2>6 DEF LintDone, TypeOK, Frame
    <3>2. CASE StagePassed(r)
      <4>1. r # Pending /\ call[s].sub.guard = "clean"
        BY <3>1, FPGAEnvAssumption, GradingAssumption DEF CallInv, PassedSoFar
      <4>2. PassedSoFar([linted EXCEPT !.pc = "build"])
        BY <3>1, <3>2, <4>1 DEF PassedSoFar, Ran, Frame
      <4>3. call' = [call EXCEPT ![s] = [linted EXCEPT !.pc = "build"]]
        BY <2>6, <3>2 DEF LintDone, Resume
      <4> QED
        BY <4>2, <4>3, FrameChange
    <3>3. CASE ~StagePassed(r)
      BY <2>4, <2>6, <3>1, <3>3 DEF LintDone
    <3> QED
      BY <3>2, <3>3
  <2>7. ASSUME NEW s \in Session, NEW r \in StageResults, BuildDone(s, r)
        PROVE  CallInv'
    <3> DEFINE built == [call[s] EXCEPT !.build = r]
               frame == [built EXCEPT !.pc = "sims", !.seeds = ValidationSeeds(seed[EnvOf[s]])]
    <3>1. built \in Frame /\ call[s].pc = "build" /\ call[s] \in Frame
      BY <2>7 DEF BuildDone, TypeOK, Frame
    <3>2. CASE StagePassed(r)
      <4>1. r # Pending /\ call[s].sub.guard = "clean" /\ Ran(call[s].lint) /\ StagePassed(call[s].lint)
        BY <3>1, FPGAEnvAssumption, GradingAssumption DEF CallInv, PassedSoFar
      <4>2. PassedSoFar(frame)
        BY <3>1, <3>2, <4>1 DEF PassedSoFar, Ran, Frame
      <4>3. call' = [call EXCEPT ![s] = frame]
        BY <2>7, <3>2 DEF BuildDone, Resume
      <4> QED
        BY <4>2, <4>3, FrameChange
    <3>3. CASE ~StagePassed(r)
      BY <2>4, <2>7, <3>1, <3>3 DEF BuildDone
    <3> QED
      BY <3>2, <3>3
  <2>8. ASSUME NEW s \in Session, NEW i \in SimIndex, NEW r \in SimResults, SimDone(s, i, r)
        PROVE  CallInv'
    <3>1. PassedSoFar(call[s]) /\ call[s] \in Frame
      BY DEF CallInv, TypeOK
    <3>2. PassedSoFar([call[s] EXCEPT !.sims[i] = r])
      BY <3>1 DEF PassedSoFar, Frame
    <3> QED
      BY <2>8, <3>2, FrameChange DEF SimDone, Resume
  <2>9. ASSUME NEW s \in Session, Gathered(s)
        PROVE  CallInv'
    BY <2>4, <2>9 DEF Gathered, TypeOK
  <2>10. ASSUME NEW s \in Session, StepRaises(s)
        PROVE  CallInv'
    BY <2>0, <2>10, FrameChange DEF StepRaises
  <2>11. ASSUME NEW s \in Session, NEW sub \in Submissions,
                Step(s, sub) \/ SyncStepRaises(s, sub)
         PROVE  CallInv'
    <3>1. CASE Step(s, sub)
      BY <2>4, <3>1, StepReturns
    <3>2. CASE SyncStepRaises(s, sub)
      BY <2>0, <3>2, FrameChange DEF SyncStepRaises
    <3> QED
      BY <2>11, <3>1, <3>2
  <2>12. CASE UNCHANGED vars
    BY <2>12 DEF vars, CallInv
  <2> QED
    BY <2>1, <2>2, <2>3, <2>5, <2>6, <2>7, <2>8, <2>9, <2>10, <2>11, <2>12
       DEF Next, Reset, ResetRaises
<1> QED
  BY <1>1, <1>2, TypeCorrect, PTL DEF Spec

-----------------------------------------------------------------------------
\* A call that returns g, rightly, is rightly observed.
LEMMA ReturnRewards ==
  ASSUME TypeOK, RewardIffCorrect,
         NEW s \in Session, NEW st, NEW g \in GradingResult, NEW finished \in Frame,
         Return(s, st, g, finished),
         g.verdict = "OK" <=> AllPassed(finished),
         g.verdict = "OK" => g.score.cycles = [i \in SimIndex |-> Cycles(finished.sims[i])]
  PROVE  RewardIffCorrect'
<1> DEFINE c == [finished EXCEPT !.pc = "idle"]
           o == obs'[s]
<1>1. call'[s] = c /\ \A t \in Session \ {s} : call'[t] = call[t] /\ obs'[t] = obs[t]
  BY DEF Return, TypeOK
<1>2. o.verdict = g.verdict /\ o.score = GatedScore(g)
  BY DEF Return, TypeOK, Observed
<1>3. AllPassed(c) <=> AllPassed(finished)
  BY DEF AllPassed, Frame
<1>4. c.sims = finished.sims
  BY DEF Frame
<1>5. GradedRight(c, o)
  BY <1>2, <1>3, <1>4 DEF GradedRight, GatedScore
<1> HIDE DEF c, o
<1>6. GradedRight(call'[s], obs'[s])
  BY <1>1, <1>5 DEF o
<1> QED
  BY <1>1, <1>6 DEF RewardIffCorrect

\* A session whose call is under way, or whose latest call gave no grading,
\* cannot break the gate.
LEMMA NoReward ==
  ASSUME TypeOK, RewardIffCorrect, NEW s \in Session,
         \A t \in Session \ {s} : call'[t] = call[t] /\ obs'[t] = obs[t],
         call'[s].pc # "idle" \/ obs'[s].done = FALSE
  PROVE  RewardIffCorrect'
BY DEF RewardIffCorrect

\* The hard gate, whoever shares whichever environment: a call says OK if and
\* only if everything it rests on passed, and scores exactly then.
THEOREM HardGate == Spec => []RewardIffCorrect
<1>1. Init => RewardIffCorrect
  BY DEF Init, RewardIffCorrect, NoObs, NoAnswer
<1>2. TypeOK /\ CallInv /\ RewardIffCorrect /\ [Next]_vars => RewardIffCorrect'
  <2> SUFFICES ASSUME TypeOK, CallInv, RewardIffCorrect, [Next]_vars
               PROVE  RewardIffCorrect'
    OBVIOUS
  <2>0. Raised.done = FALSE /\ \A p, id : Observed("OK", ZeroScore, p, id, << >>, FALSE).done = FALSE
    BY DEF Raised, NoAnswer, Observed
  <2>1. ASSUME NEW s \in Session, NEW taskArg, NEW seedArg, Reset(s, taskArg, seedArg)
        PROVE  RewardIffCorrect'
    <3>1. obs'[s].done = FALSE
      BY <2>0, <2>1 DEF Reset, TypeOK
    <3> QED
      BY <2>1, <3>1, NoReward DEF Reset, BeginEpisode, TypeOK
  <2>2. ASSUME NEW s \in Session, ResetRaises(s, UnknownTask) \/ StepWithoutTask(s) \/ StepRaises(s)
        PROVE  RewardIffCorrect'
    <3>1. obs'[s].done = FALSE
      BY <2>0, <2>2 DEF ResetRaises, StepWithoutTask, StepRaises, TypeOK
    <3>2. \A t \in Session \ {s} : call'[t] = call[t] /\ obs'[t] = obs[t]
      BY <2>2 DEF ResetRaises, BeginEpisode, StepWithoutTask, StepRaises, TypeOK
    <3> QED
      BY <3>1, <3>2, NoReward
  <2>3. ASSUME NEW s \in Session, NEW sub \in Submissions, StepBegin(s, sub)
        PROVE  RewardIffCorrect'
    <3>1. call'[s].pc = "lint"
      BY <2>3 DEF StepBegin, Begun, NoCall, TypeOK
    <3> QED
      BY <2>3, <3>1, NoReward DEF StepBegin, TypeOK
  <2>4. ASSUME NEW s \in Session, NEW sub \in Submissions, StepBlocked(s, sub)
        PROVE  RewardIffCorrect'
    <3>1. Begun(s, sub) \in Frame /\ Begun(s, sub).sub = sub
      BY NoCallType, GradingAssumption, FPGAEnvAssumption DEF Begun, Frame, NoCall, TypeOK
    <3>2. ~AllPassed(Begun(s, sub))
      BY <2>4, <3>1 DEF StepBlocked, AllPassed
    <3>3. GuardResult(sub).verdict # "OK" /\ GuardResult(sub) \in GradingResult
      BY GuardResultType DEF GuardResult, Rejected
    <3> QED
      BY <2>4, <3>1, <3>2, <3>3, ReturnRewards DEF StepBlocked
  <2>5. ASSUME NEW s \in Session, NEW frame, Resume(s, frame), frame.pc # "idle"
        PROVE  RewardIffCorrect'
    BY <2>5, NoReward DEF Resume, TypeOK
  <2>6. /\ Rejected("COMPILE_ERROR") \in GradingResult
        /\ Rejected("COMPILE_ERROR").verdict # "OK"
    BY RejectedType DEF Rejected, Verdict
  <2>7. ASSUME NEW s \in Session, NEW r \in StageResults, LintDone(s, r)
        PROVE  RewardIffCorrect'
    <3> DEFINE linted == [call[s] EXCEPT !.lint = r]
    <3>1. linted \in Frame /\ linted.lint = r /\ [linted EXCEPT !.pc = "build"].pc = "build"
      BY DEF TypeOK, Frame
    <3>2. CASE StagePassed(r)
      <4>1. Resume(s, [linted EXCEPT !.pc = "build"])
        BY <2>7, <3>2 DEF LintDone
      <4> QED
        BY <2>5, <3>1, <4>1
    <3>3. CASE ~StagePassed(r)
      <4>1. ~AllPassed(linted)
        BY <3>1, <3>3 DEF AllPassed
      <4>2. Return(s, state, Rejected("COMPILE_ERROR"), linted)
        BY <2>7, <3>3 DEF LintDone
      <4> QED
        BY <2>6, <3>1, <4>1, <4>2, ReturnRewards
    <3> QED
      BY <3>2, <3>3
  <2>8. ASSUME NEW s \in Session, NEW r \in StageResults, BuildDone(s, r)
        PROVE  RewardIffCorrect'
    <3> DEFINE built == [call[s] EXCEPT !.build = r]
               frame == [built EXCEPT !.pc = "sims", !.seeds = ValidationSeeds(seed[EnvOf[s]])]
    <3>1. built \in Frame /\ built.build = r /\ frame.pc = "sims"
      BY DEF TypeOK, Frame
    <3>2. CASE StagePassed(r)
      <4>1. Resume(s, frame)
        BY <2>8, <3>2 DEF BuildDone
      <4> QED
        BY <2>5, <3>1, <4>1
    <3>3. CASE ~StagePassed(r)
      <4>1. ~AllPassed(built)
        BY <3>1, <3>3 DEF AllPassed
      <4>2. Return(s, state, Rejected("COMPILE_ERROR"), built)
        BY <2>8, <3>3 DEF BuildDone
      <4> QED
        BY <2>6, <3>1, <4>1, <4>2, ReturnRewards
    <3> QED
      BY <3>2, <3>3
  <2>9. ASSUME NEW s \in Session, NEW i \in SimIndex, NEW r \in SimResults, SimDone(s, i, r)
        PROVE  RewardIffCorrect'
    <3>1. [call[s] EXCEPT !.sims[i] = r].pc = "sims"
      BY <2>9 DEF SimDone, TypeOK, Frame
    <3> QED
      BY <2>5, <2>9, <3>1 DEF SimDone
  <2>10. ASSUME NEW s \in Session, Gathered(s)
        PROVE  RewardIffCorrect'
    <3> DEFINE c == call[s]
               m == MultiSeedResult(c.sims)
               g == WithFormatBonus(m, c.sub)
    <3>1. c \in Frame /\ c.sims \in [SimIndex -> SimResults]
      BY <2>10 DEF Gathered, Frame, TypeOK
    <3>2. /\ g \in GradingResult
          /\ g.verdict = m.verdict
          /\ g.score.cycles = m.score.cycles
          /\ m.verdict = "OK" <=> \A i \in SimIndex : ~Fails(c.sims[i])
      BY <3>1, MultiSeedResultType, WithFormatBonusType
    <3>3. AllPassed(c) <=> \A i \in SimIndex : ~Fails(c.sims[i])
      BY <2>10 DEF Gathered, AllPassed, CallInv, PassedSoFar, Ran
    <3>4. m.verdict = "OK" => m.score.cycles = [i \in SimIndex |-> Cycles(c.sims[i])]
      BY <3>2 DEF MultiSeedResult
    <3>5. Return(s, state, g, c)
      BY <2>10 DEF Gathered
    <3> HIDE DEF g, m, c
    <3> QED
      BY <3>1, <3>2, <3>3, <3>4, <3>5, ReturnRewards
  <2>11. ASSUME NEW s \in Session, NEW sub \in Submissions, Step(s, sub)
         PROVE  RewardIffCorrect'
    <3>1. ASSUME NEW f \in Frame, ~AllPassed(f),
                 Return(s, Counted(s), Rejected("COMPILE_ERROR"), f)
          PROVE  RewardIffCorrect'
      BY <2>6, <3>1, ReturnRewards
    <3>2. ASSUME NEW f \in Frame, NEW sims \in [SimIndex -> SimResults],
                 AllPassed(f) <=> \A i \in SimIndex : ~Fails(sims[i]),
                 AllPassed(f) => f.sims = sims,
                 Return(s, Counted(s), WithFormatBonus(MultiSeedResult(sims), sub), f)
          PROVE  RewardIffCorrect'
      <4> DEFINE m == MultiSeedResult(sims)
                 g == WithFormatBonus(m, sub)
      <4>1. /\ g \in GradingResult
            /\ g.verdict = m.verdict
            /\ g.score.cycles = m.score.cycles
            /\ m.verdict = "OK" <=> \A i \in SimIndex : ~Fails(sims[i])
        BY MultiSeedResultType, WithFormatBonusType
      <4>2. m.verdict = "OK" => m.score.cycles = [i \in SimIndex |-> Cycles(sims[i])]
        BY <4>1 DEF MultiSeedResult
      <4>3. Return(s, Counted(s), g, f)
        BY <3>2
      <4> HIDE DEF g, m
      <4> QED
        BY <3>2, <4>1, <4>2, <4>3, ReturnRewards
    <3> QED
      BY <2>11, <3>1, <3>2, StepReturns
  <2>12. ASSUME NEW s \in Session, NEW sub \in Submissions, SyncStepRaises(s, sub)
         PROVE  RewardIffCorrect'
    <3>1. obs'[s].done = FALSE
      BY <2>0, <2>12 DEF SyncStepRaises, TypeOK
    <3>2. \A t \in Session \ {s} : call'[t] = call[t] /\ obs'[t] = obs[t]
      BY <2>12 DEF SyncStepRaises, TypeOK
    <3> QED
      BY <3>1, <3>2, NoReward
  <2>13. CASE UNCHANGED vars
    BY <2>13 DEF vars, RewardIffCorrect
  <2> QED
    BY <2>1, <2>2, <2>3, <2>4, <2>7, <2>8, <2>9, <2>10, <2>11, <2>12, <2>13 DEF Next
<1> QED
  BY <1>1, <1>2, TypeCorrect, CallInvariant, PTL DEF Spec

-----------------------------------------------------------------------------
\* What the sessions' environments promise when no two share one.
IsolationIInv == IsolationInv /\ ObservationOfEpisode /\ GradedImpliesStepped

\* A step of s that leaves every other environment and session alone only has
\* to keep the promise to s.
LEMMA OwnStep ==
  ASSUME Isolated, TypeOK, IsolationIInv, NEW s \in Session,
         \A e \in Env \ {EnvOf[s]} :
           state'[e] = state[e] /\ currentTask'[e] = currentTask[e] /\ seed'[e] = seed[e],
         \A t \in Session \ {s} :
           call'[t] = call[t] /\ obs'[t] = obs[t] /\ asked'[t] = asked[t],
         OnEpisode(s)', ToldOfEpisode(s)',
         state'[EnvOf[s]].last_verdict # None => state'[EnvOf[s]].step_count > 0
  PROVE  IsolationIInv'
<1> USE DEF IsolationIInv
<1>1. \A t \in Session \ {s} : EnvOf[t] \in Env \ {EnvOf[s]}
  BY FPGAEnvAssumption DEF Isolated
<1>2. ASSUME NEW t \in Session \ {s}
      PROVE  OnEpisode(t)' /\ ToldOfEpisode(t)'
  <2>1. OnEpisode(t) /\ ToldOfEpisode(t)
    BY DEF IsolationInv, ObservationOfEpisode
  <2>2. OnEpisode(t)'
    BY <1>1, <2>1 DEF OnEpisode
  <2>3. ToldOfEpisode(t)'
    BY <2>1 DEF ToldOfEpisode
  <2> QED
    BY <2>2, <2>3
<1>3. IsolationInv' /\ ObservationOfEpisode'
  BY <1>2 DEF IsolationInv, ObservationOfEpisode
<1>4. GradedImpliesStepped'
  BY DEF GradedImpliesStepped
<1> QED
  BY <1>3, <1>4

\* A call that ends keeps the promise: its session is told what its own
\* environment holds, and that is still its episode.
LEMMA ReturnKeepsPromise ==
  ASSUME Isolated, TypeOK, IsolationIInv,
         NEW s \in Session, NEW st \in [Env -> EpisodeState],
         NEW g \in GradingResult, NEW finished \in Frame,
         Return(s, st, g, finished),
         \A e \in Env \ {EnvOf[s]} : st[e] = state[e],
         st[EnvOf[s]].episode_id = state[EnvOf[s]].episode_id,
         st[EnvOf[s]].step_count > 0
  PROVE  IsolationIInv'
<1> DEFINE e == EnvOf[s]
<1>1. e \in Env
  BY FPGAEnvAssumption
<1>2. /\ state'[e].episode_id = st[e].episode_id
      /\ state'[e].step_count = st[e].step_count
      /\ \A d \in Env \ {e} : state'[d] = st[d]
  BY <1>1 DEF Return, EpisodeState
<1>3. /\ UNCHANGED <<currentTask, seed, asked>>
      /\ call'[s].pc = "idle"
      /\ \A t \in Session \ {s} : call'[t] = call[t] /\ obs'[t] = obs[t]
  BY DEF Return, TypeOK, Frame
<1>4. obs'[s].episode_id = st[e].episode_id /\ obs'[s].prompt = currentTask[e]
  BY DEF Return, TypeOK, Observed
<1>5. OnEpisode(s)
  BY DEF IsolationIInv, IsolationInv
<1>6. OnEpisode(s)'
  BY <1>2, <1>3, <1>5 DEF OnEpisode
<1>7. ToldOfEpisode(s)'
  BY <1>3, <1>4, <1>5 DEF OnEpisode, ToldOfEpisode
<1>8. state'[e].step_count > 0
  BY <1>2
<1>9. \A d \in Env \ {e} :
         state'[d] = state[d] /\ currentTask'[d] = currentTask[d] /\ seed'[d] = seed[d]
  BY <1>2, <1>3
<1>10. \A t \in Session \ {s} : call'[t] = call[t] /\ obs'[t] = obs[t] /\ asked'[t] = asked[t]
  BY <1>3
<1> QED
  BY <1>6, <1>7, <1>8, <1>9, <1>10, OwnStep

\* A call that is resumed within its pipeline: the environments do not change.
LEMMA ResumeKeepsPromise ==
  ASSUME Isolated, TypeOK, IsolationIInv, NEW s \in Session, NEW frame,
         Resume(s, frame),
         call[s].pc # "idle", frame.task = call[s].task,
         frame.pc = "sims" => frame.seeds = ValidationSeeds(seed[EnvOf[s]])
  PROVE  IsolationIInv'
<1>1. OnEpisode(s) /\ ToldOfEpisode(s)
  BY DEF IsolationIInv, IsolationInv, ObservationOfEpisode
<1>2. /\ UNCHANGED <<state, currentTask, seed, obs, asked>>
      /\ call'[s] = frame
      /\ \A t \in Session \ {s} : call'[t] = call[t]
  BY DEF Resume, TypeOK
<1>3. OnEpisode(s)'
  BY <1>1, <1>2 DEF OnEpisode
<1>4. ToldOfEpisode(s)'
  BY <1>1, <1>2 DEF ToldOfEpisode
<1>5. state'[EnvOf[s]].last_verdict # None => state'[EnvOf[s]].step_count > 0
  BY <1>2, FPGAEnvAssumption DEF IsolationIInv, GradedImpliesStepped
<1>6. \A e \in Env \ {EnvOf[s]} :
         state'[e] = state[e] /\ currentTask'[e] = currentTask[e] /\ seed'[e] = seed[e]
  BY <1>2
<1>7. \A t \in Session \ {s} : call'[t] = call[t] /\ obs'[t] = obs[t] /\ asked'[t] = asked[t]
  BY <1>2
<1> QED
  BY <1>3, <1>4, <1>5, <1>6, <1>7, OwnStep

\* With an environment of one's own: what a session is told is about its own
\* episode, the simulations of its calls are those of its task and seed, and an
\* episode is graded only once it has been stepped.
THEOREM Isolation == ASSUME Isolated PROVE Spec => []IsolationIInv
<1>1. Init => IsolationIInv
  <2> SUFFICES ASSUME Init PROVE IsolationIInv
    OBVIOUS
  <2>1. \A s \in Session : asked[s] = NoEpisode /\ call[s].pc = "idle"
    BY DEF Init, NoCall
  <2>2. \A e \in Env : state[e].last_verdict = None
    BY DEF Init, NewState
  <2> QED
    BY <2>1, <2>2
       DEF IsolationIInv, IsolationInv, OnEpisode, ObservationOfEpisode, ToldOfEpisode,
           GradedImpliesStepped
<1>2. TypeOK /\ IsolationIInv /\ [Next]_vars => IsolationIInv'
  <2> SUFFICES ASSUME TypeOK, IsolationIInv, [Next]_vars PROVE IsolationIInv'
    OBVIOUS
  <2>0. NoCall.pc = "idle" /\ Raised.status = "raised"
    BY DEF NoCall, Raised, NoAnswer
  <2>1. ASSUME NEW s \in Session, NEW taskArg \in Task \cup {None},
               NEW seedArg \in Seeds \cup {None}, Reset(s, taskArg, seedArg)
        PROVE  IsolationIInv'
    <3> DEFINE e == EnvOf[s]
               task == Resolve(taskArg)
               ep == [episode_id |-> episodes', task |-> task, seed |-> SeedOf(seedArg)]
               o == Observed("OK", ZeroScore, task, episodes', << >>, FALSE)
    <3>1. e \in Env
      BY FPGAEnvAssumption
    <3>2. /\ state'[e] = NewState(episodes', taskArg)
          /\ currentTask'[e] = task /\ seed'[e] = SeedOf(seedArg)
          /\ \A d \in Env \ {e} :
               state'[d] = state[d] /\ currentTask'[d] = currentTask[d] /\ seed'[d] = seed[d]
      BY <2>1, <3>1 DEF Reset, BeginEpisode, TypeOK
    <3>3. /\ call'[s] = NoCall /\ obs'[s] = o /\ asked'[s] = ep
          /\ \A t \in Session \ {s} : call'[t] = call[t] /\ obs'[t] = obs[t] /\ asked'[t] = asked[t]
      BY <2>1 DEF Reset, BeginEpisode, TypeOK
    <3>4. OnEpisode(s)'
      BY <2>0, <3>2, <3>3 DEF OnEpisode, NewState
    <3>5. ToldOfEpisode(s)'
      BY <3>3 DEF ToldOfEpisode, Observed
    <3>6. state'[e].last_verdict = None
      BY <3>2 DEF NewState
    <3> QED
      BY <3>2, <3>3, <3>4, <3>5, <3>6, OwnStep
  <2>2. ASSUME NEW s \in Session, ResetRaises(s, UnknownTask)
        PROVE  IsolationIInv'
    <3> DEFINE e == EnvOf[s]
    <3>1. e \in Env
      BY FPGAEnvAssumption
    <3>2. /\ state'[e].last_verdict = None
          /\ \A d \in Env \ {e} :
               state'[d] = state[d] /\ currentTask'[d] = currentTask[d] /\ seed'[d] = seed[d]
      BY <2>2, <3>1 DEF ResetRaises, BeginEpisode, TypeOK, NewState
    <3>3. /\ call'[s] = NoCall /\ asked'[s] = NoEpisode
          /\ \A t \in Session \ {s} : call'[t] = call[t] /\ obs'[t] = obs[t] /\ asked'[t] = asked[t]
      BY <2>2 DEF ResetRaises, BeginEpisode, TypeOK
    <3>4. OnEpisode(s)' /\ ToldOfEpisode(s)'
      BY <2>0, <3>3 DEF OnEpisode, ToldOfEpisode
    <3> QED
      BY <3>2, <3>3, <3>4, OwnStep
  <2>3. ASSUME NEW s \in Session, StepWithoutTask(s) \/ StepRaises(s)
        PROVE  IsolationIInv'
    <3>1. /\ UNCHANGED <<state, currentTask, seed, asked>>
          /\ obs'[s] = Raised
          /\ call'[s].pc = "idle"
          /\ \A t \in Session \ {s} : call'[t] = call[t] /\ obs'[t] = obs[t]
      BY <2>0, <2>3 DEF StepWithoutTask, StepRaises, TypeOK
    <3>2. OnEpisode(s)
      BY DEF IsolationIInv, IsolationInv
    <3>3. OnEpisode(s)'
      BY <3>1, <3>2 DEF OnEpisode
    <3>4. ToldOfEpisode(s)'
      BY <2>0, <3>1 DEF ToldOfEpisode
    <3>5. state'[EnvOf[s]].last_verdict # None => state'[EnvOf[s]].step_count > 0
      BY <3>1, FPGAEnvAssumption DEF IsolationIInv, GradedImpliesStepped
    <3>6. \A e \in Env \ {EnvOf[s]} :
             state'[e] = state[e] /\ currentTask'[e] = currentTask[e] /\ seed'[e] = seed[e]
      BY <3>1
    <3>7. \A t \in Session \ {s} : call'[t] = call[t] /\ obs'[t] = obs[t] /\ asked'[t] = asked[t]
      BY <3>1
    <3> QED
      BY <3>3, <3>4, <3>5, <3>6, <3>7, OwnStep
  <2>4. ASSUME NEW s \in Session, NEW sub \in Submissions,
               StepBegin(s, sub) \/ StepBlocked(s, sub)
        PROVE  IsolationIInv'
    <3> DEFINE e == EnvOf[s]
    <3>1. e \in Env
      BY FPGAEnvAssumption
    <3>2. state[e].step_count + 1 \in Nat /\ state[e].step_count + 1 > 0
      BY <3>1 DEF TypeOK, EpisodeState
    <3>3. /\ Counted(s) \in [Env -> EpisodeState]
          /\ Counted(s)[e].step_count > 0
          /\ Counted(s)[e].episode_id = state[e].episode_id
          /\ \A d \in Env \ {e} : Counted(s)[d] = state[d]
      BY <3>1, <3>2 DEF Counted, TypeOK, EpisodeState
    <3>4. /\ Begun(s, sub) \in Frame
          /\ Begun(s, sub).task = currentTask[e]
          /\ Begun(s, sub).pc = "lint"
      BY <3>1, NoCallType, GradingAssumption DEF Begun, Frame, NoCall, TypeOK
    <3>5. CASE StepBlocked(s, sub)
      <4>1. Return(s, Counted(s), GuardResult(sub), Begun(s, sub))
        BY <3>5 DEF StepBlocked
      <4> QED
        BY <3>3, <3>4, <4>1, GuardResultType, ReturnKeepsPromise
    <3>6. CASE StepBegin(s, sub)
      <4>1. /\ state' = Counted(s) /\ UNCHANGED <<currentTask, seed, obs, asked>>
            /\ call'[s] = Begun(s, sub) /\ currentTask[e] # None
            /\ \A t \in Session \ {s} : call'[t] = call[t]
        BY <3>6 DEF StepBegin, StepStarts, TypeOK
      <4>2. OnEpisode(s) /\ ToldOfEpisode(s)
        BY DEF IsolationIInv, IsolationInv, ObservationOfEpisode
      <4>3. OnEpisode(s)'
        BY <3>3, <3>4, <4>1, <4>2 DEF OnEpisode
      <4>4. ToldOfEpisode(s)'
        BY <4>1, <4>2 DEF ToldOfEpisode
      <4>5. \A d \in Env \ {e} :
               state'[d] = state[d] /\ currentTask'[d] = currentTask[d] /\ seed'[d] = seed[d]
        BY <3>3, <4>1
      <4>6. \A t \in Session \ {s} : call'[t] = call[t] /\ obs'[t] = obs[t] /\ asked'[t] = asked[t]
        BY <4>1
      <4>7. state'[e].step_count > 0
        BY <3>3, <4>1
      <4> QED
        BY <4>3, <4>4, <4>5, <4>6, <4>7, OwnStep
    <3> QED
      BY <2>4, <3>5, <3>6
  \* A call under way may end: it has counted its step and its environment is
  \* the one it began in.
  <2>5. ASSUME NEW s \in Session, NEW g \in GradingResult, NEW finished \in Frame,
               call[s].pc # "idle", Return(s, state, g, finished)
        PROVE  IsolationIInv'
    <3>1. state[EnvOf[s]].step_count > 0
      BY <2>5 DEF IsolationIInv, IsolationInv, OnEpisode
    <3>2. state \in [Env -> EpisodeState]
      BY DEF TypeOK
    <3> QED
      BY <2>5, <3>1, <3>2, ReturnKeepsPromise
  <2>6. ASSUME NEW s \in Session, NEW r \in StageResults, LintDone(s, r)
        PROVE  IsolationIInv'
    <3> DEFINE linted == [call[s] EXCEPT !.lint = r]
               frame == [linted EXCEPT !.pc = "build"]
    <3>1. /\ linted \in Frame /\ call[s].pc = "lint"
          /\ frame.pc = "build" /\ frame.task = call[s].task
      BY <2>6 DEF LintDone, TypeOK, Frame
    <3>2. CASE StagePassed(r)
      <4>1. Resume(s, frame)
        BY <2>6, <3>2 DEF LintDone
      <4> QED
        BY <3>1, <4>1, ResumeKeepsPromise
    <3>3. CASE ~StagePassed(r)
      <4>1. Return(s, state, Rejected("COMPILE_ERROR"), linted)
        BY <2>6, <3>3 DEF LintDone
      <4> QED
        BY <2>5, <3>1, <4>1, RejectedType DEF Verdict
    <3> QED
      BY <3>2, <3>3
  <2>7. ASSUME NEW s \in Session, NEW r \in StageResults, BuildDone(s, r)
        PROVE  IsolationIInv'
    <3> DEFINE built == [call[s] EXCEPT !.build = r]
               vs == ValidationSeeds(seed[EnvOf[s]])
               frame == [built EXCEPT !.pc = "sims", !.seeds = vs]
    <3>1. built \in Frame /\ call[s].pc = "build" /\ call[s] \in Frame
      BY <2>7 DEF BuildDone, TypeOK, Frame
    <3>2. frame.seeds = vs /\ frame.task = call[s].task
      BY <3>1 DEF Frame
    <3>3. CASE StagePassed(r)
      <4>1. Resume(s, frame)
        BY <2>7, <3>3 DEF BuildDone
      <4> QED
        BY <3>1, <3>2, <4>1, ResumeKeepsPromise
    <3>4. CASE ~StagePassed(r)
      <4>1. Return(s, state, Rejected("COMPILE_ERROR"), built)
        BY <2>7, <3>4 DEF BuildDone
      <4> QED
        BY <2>5, <3>1, <4>1, RejectedType DEF Verdict
    <3> QED
      BY <3>3, <3>4
  <2>8. ASSUME NEW s \in Session, NEW i \in SimIndex, NEW r \in SimResults, SimDone(s, i, r)
        PROVE  IsolationIInv'
    <3> DEFINE frame == [call[s] EXCEPT !.sims[i] = r]
    <3>1. call[s].pc = "sims" /\ call[s] \in Frame /\ Resume(s, frame)
      BY <2>8 DEF SimDone, TypeOK
    <3>2. frame.task = call[s].task /\ frame.seeds = call[s].seeds
      BY <3>1 DEF Frame
    <3>3. call[s].seeds = ValidationSeeds(seed[EnvOf[s]])
      BY <3>1 DEF IsolationIInv, IsolationInv, OnEpisode
    <3> QED
      BY <3>1, <3>2, <3>3, ResumeKeepsPromise
  <2>9. ASSUME NEW s \in Session, Gathered(s)
        PROVE  IsolationIInv'
    <3> DEFINE g == WithFormatBonus(MultiSeedResult(call[s].sims), call[s].sub)
    <3>1. call[s] \in Frame /\ call[s].pc = "sims" /\ call[s].sims \in [SimIndex -> SimResults]
      BY <2>9 DEF Gathered, Frame, TypeOK
    <3>2. g \in GradingResult
      BY <3>1, MultiSeedResultType, WithFormatBonusType
    <3>3. Return(s, state, g, call[s])
      BY <2>9 DEF Gathered
    <3> HIDE DEF g
    <3> QED
      BY <2>5, <3>1, <3>2, <3>3
  <2>10. ASSUME NEW s \in Session, NEW sub \in Submissions, Step(s, sub)
         PROVE  IsolationIInv'
    <3>1. \E g \in GradingResult, f \in Frame : Return(s, Counted(s), g, f)
      BY <2>10, StepReturns, RejectedType, MultiSeedResultType, WithFormatBonusType DEF Verdict
    <3>2. Counted(s)[EnvOf[s]].episode_id = state[EnvOf[s]].episode_id
      BY CountedType, FPGAEnvAssumption
    <3> QED
      BY <3>1, <3>2, CountedType, ReturnKeepsPromise
  <2>11. ASSUME NEW s \in Session, NEW sub \in Submissions, SyncStepRaises(s, sub)
         PROVE  IsolationIInv'
    <3> DEFINE e == EnvOf[s]
    <3>0. e \in Env
      BY FPGAEnvAssumption
    <3>1. /\ state' = Counted(s) /\ UNCHANGED <<currentTask, seed, asked>>
          /\ obs'[s] = Raised /\ call'[s] = NoCall
          /\ \A t \in Session \ {s} : call'[t] = call[t] /\ obs'[t] = obs[t]
      BY <2>11 DEF SyncStepRaises, TypeOK
    <3>2. /\ state'[e].step_count > 0 /\ state'[e].episode_id = state[e].episode_id
          /\ \A d \in Env \ {e} : state'[d] = state[d]
      BY <3>0, <3>1, CountedType
    <3>3. OnEpisode(s)
      BY DEF IsolationIInv, IsolationInv
    <3>4. OnEpisode(s)'
      BY <2>0, <3>1, <3>2, <3>3 DEF OnEpisode
    <3>5. ToldOfEpisode(s)'
      BY <2>0, <3>1 DEF ToldOfEpisode
    <3>6. \A d \in Env \ {e} :
             state'[d] = state[d] /\ currentTask'[d] = currentTask[d] /\ seed'[d] = seed[d]
      BY <3>1, <3>2
    <3>7. \A t \in Session \ {s} : call'[t] = call[t] /\ obs'[t] = obs[t] /\ asked'[t] = asked[t]
      BY <3>1
    <3> QED
      BY <3>2, <3>4, <3>5, <3>6, <3>7, OwnStep
  <2>12. CASE UNCHANGED vars
    <3>1. ASSUME NEW s \in Session, OnEpisode(s), ToldOfEpisode(s)
          PROVE  OnEpisode(s)' /\ ToldOfEpisode(s)'
      BY <2>12, <3>1 DEF vars, OnEpisode, ToldOfEpisode
    <3> QED
      BY <2>12, <3>1
         DEF vars, IsolationIInv, IsolationInv, ObservationOfEpisode, GradedImpliesStepped
  <2> QED
    BY <2>1, <2>2, <2>3, <2>4, <2>6, <2>7, <2>8, <2>9, <2>10, <2>11, <2>12 DEF Next
<1> QED
  BY <1>1, <1>2, TypeCorrect, PTL DEF Spec

\* The environment of a session is as its reset left it, and a call under way
\* is a call of that episode.
THEOREM EpisodesAreKept == ASSUME Isolated PROVE Spec => []IsolationInv
BY Isolation, PTL DEF IsolationIInv

\* Every observation a session gets after its reset is about that episode.
THEOREM SessionsSeeTheirEpisode == ASSUME Isolated PROVE Spec => []ObservationOfEpisode
BY Isolation, PTL DEF IsolationIInv

\* The simulations of a call run on the task and the seeds its session asked
\* for, although the seed is read two awaits after the task.
THEOREM SessionsAreGradedOnTheirEpisode == ASSUME Isolated PROVE Spec => []GradedOnEpisode
<1>1. IsolationIInv => GradedOnEpisode
  BY DEF IsolationIInv, IsolationInv, OnEpisode, GradedOnEpisode
<1> QED
  BY <1>1, Isolation, PTL

\* No grading lands in an episode that was never stepped.
THEOREM GradingsFollowSteps == ASSUME Isolated PROVE Spec => []GradedImpliesStepped
BY Isolation, PTL DEF IsolationIInv

-----------------------------------------------------------------------------
\* The refinement: how the operators of Grading read inside Promise.
LEMMA PromiseGrading ==
  /\ \A r : Promise!Fails(r) <=> Fails(r)
  /\ \A r : Promise!FailureVerdict(r) = FailureVerdict(r)
  /\ \A r : Promise!Cycles(r) = Cycles(r)
  /\ \A p : Promise!ValidationSeeds(p) = ValidationSeeds(p)
  /\ Promise!SimIndex = SimIndex
  /\ Promise!ZeroScore = ZeroScore
BY DEF Promise!Fails, Promise!TimedOut, Promise!Wrong, Promise!Parse, Promise!NoTotal,
       Promise!FailureVerdict, Promise!Cycles, Promise!ValidationSeeds, Promise!SimIndex,
       Promise!ZeroScore, Fails, TimedOut, Wrong, Parse, NoTotal, FailureVerdict, Cycles,
       ValidationSeeds, SimIndex, ZeroScore

\* A step in which the environment and the answer of every session stay what
\* they are is a stuttering step of the promise.
LEMMA StutterStep ==
  ASSUME UNCHANGED <<state, currentTask, seed, obs, episodes>>
  PROVE  UNCHANGED Promise!epVars
BY DEF Promise!epVars, EpisodeOf

\* A call that ends with a grading g is one Answer step.
LEMMA ReturnAnswers ==
  ASSUME TypeOK, NEW s \in Session, NEW st \in [Env -> EpisodeState],
         NEW g \in GradingResult, NEW finished \in Frame,
         Return(s, st, g, finished),
         \A e \in Env : st[e].episode_id = state[e].episode_id,
         currentTask[EnvOf[s]] # None
  PROVE  Promise!Answer(s, g.verdict, GatedScore(g),
                        IF g.verdict = "OK" THEN finished.seeds ELSE << >>)
<1> DEFINE e == EnvOf[s]
           sds == IF g.verdict = "OK" THEN finished.seeds ELSE << >>
           episode == [t \in Session |-> EpisodeOf(t)]
<1>1. \A d \in Env : state'[d].episode_id = state[d].episode_id
  BY DEF Return, EpisodeState
<1>2. UNCHANGED <<currentTask, seed, episodes>>
  BY DEF Return
<1>3. \A t \in Session : EpisodeOf(t)' = EpisodeOf(t)
  BY <1>1, <1>2, FPGAEnvAssumption DEF EpisodeOf
<1>4. episode' = episode
  BY <1>3
<1>5. episode[s].task # None
  BY DEF EpisodeOf
<1>6. Observed(g.verdict, GatedScore(g), currentTask[e], st[e].episode_id, sds, TRUE)
        = Promise!Graded(episode[s], g.verdict, GatedScore(g), sds)
  BY FPGAEnvAssumption DEF Observed, Promise!Graded, EpisodeOf
<1>7. obs' = [obs EXCEPT ![s] = Promise!Graded(episode[s], g.verdict, GatedScore(g), sds)]
  BY <1>6 DEF Return
<1> QED
  BY <1>2, <1>4, <1>5, <1>7 DEF Promise!Answer

LEMMA RejectionAnswers ==
  ASSUME TypeOK, NEW s \in Session, NEW st \in [Env -> EpisodeState],
         NEW v \in Verdict \ {"OK"}, NEW finished \in Frame,
         Return(s, st, Rejected(v), finished),
         \A e \in Env : st[e].episode_id = state[e].episode_id,
         currentTask[EnvOf[s]] # None
  PROVE  Promise!Answer(s, v, Promise!ZeroScore, << >>)
<1>1. /\ Rejected(v) \in GradingResult /\ Rejected(v).verdict = v
      /\ GatedScore(Rejected(v)) = ZeroScore
  BY RejectedType DEF Rejected, GatedScore
<1> QED
  BY <1>1, ReturnAnswers, PromiseGrading

\* A grading of simulations is a Fail or an Accept of the promise.
LEMMA GradingAnswers ==
  ASSUME TypeOK, NEW s \in Session, NEW st \in [Env -> EpisodeState],
         NEW sims \in [SimIndex -> SimResults], NEW sub, NEW finished \in Frame,
         Return(s, st, WithFormatBonus(MultiSeedResult(sims), sub), finished),
         \A e \in Env : st[e].episode_id = state[e].episode_id,
         currentTask[EnvOf[s]] # None,
         finished.seeds = ValidationSeeds(seed[EnvOf[s]])
  PROVE  Promise!EpNext
<1> DEFINE m == MultiSeedResult(sims)
           g == WithFormatBonus(m, sub)
           episode == [t \in Session |-> EpisodeOf(t)]
<1>1. /\ g \in GradingResult /\ g.verdict = m.verdict
      /\ g.score.cycles = m.score.cycles /\ g.score.bonus \in {m.score.bonus, FormatBonus}
  BY MultiSeedResultType, WithFormatBonusType
<1>2. Promise!Answer(s, g.verdict, GatedScore(g),
                     IF g.verdict = "OK" THEN finished.seeds ELSE << >>)
  <2> HIDE DEF g
  <2> QED
    BY <1>1, ReturnAnswers DEF g
<1>3. CASE \A i \in SimIndex : ~Fails(sims[i])
  <2> DEFINE bonus == g.score.bonus
             cs == [i \in Promise!SimIndex |-> Promise!Cycles(sims[i])]
  <2>1. m = [verdict |-> "OK",
             score |-> [cycles |-> [i \in SimIndex |-> Cycles(sims[i])], bonus |-> FALSE]]
    BY <1>3 DEF MultiSeedResult
  <2>2. /\ g.verdict = "OK" /\ g.score \in Score
        /\ g.score.cycles = [i \in SimIndex |-> Cycles(sims[i])]
        /\ g.score.bonus \in {FALSE, FormatBonus}
    <3>1. m.verdict = "OK" /\ m.score.bonus = FALSE
          /\ m.score.cycles = [i \in SimIndex |-> Cycles(sims[i])]
      BY <2>1
    <3> HIDE DEF m, g
    <3> QED
      BY <1>1, <3>1 DEF GradingResult
  <2>3. cs = [i \in SimIndex |-> Cycles(sims[i])]
    BY PromiseGrading
  <2>4. GatedScore(g) = [cycles |-> cs, bonus |-> bonus]
    BY <2>2, <2>3 DEF GatedScore, Score
  <2>5. finished.seeds = Promise!ValidationSeeds(episode[s].seed)
    BY PromiseGrading DEF EpisodeOf
  <2>6. sims \in [Promise!SimIndex -> {r \in SimResults : ~Promise!Fails(r)}]
    BY <1>3, PromiseGrading
  <2>7. Promise!Answer(s, "OK", [cycles |-> cs, bonus |-> bonus],
                       Promise!ValidationSeeds(episode[s].seed))
    BY <1>2, <2>2, <2>4, <2>5
  <2>8. Promise!Accept(s)
    BY <2>2, <2>6, <2>7 DEF Promise!Accept
  <2> QED
    BY <2>8 DEF Promise!EpNext
<1>4. CASE \E i \in SimIndex : Fails(sims[i])
  <2> DEFINE r == sims[FirstFailure(sims)]
             v == FailureVerdict(r)
  <2>1. r \in SimResults /\ Fails(r) /\ m = Rejected(v)
    BY <1>4, FirstFailureFails DEF MultiSeedResult
  <2>2. v # "OK" /\ g = m
    BY <2>1 DEF FailureVerdict, Rejected, WithFormatBonus
  <2>3. g.verdict = v /\ GatedScore(g) = ZeroScore
    BY <2>1, <2>2 DEF Rejected, GatedScore
  <2>4. Promise!Answer(s, Promise!FailureVerdict(r), Promise!ZeroScore, << >>)
    <3> HIDE DEF g, v, r
    <3> QED
      BY <1>2, <2>2, <2>3, PromiseGrading DEF v
  <2>5. Promise!Fail(s)
    BY <2>1, <2>4, PromiseGrading DEF Promise!Fail
  <2> QED
    BY <2>5 DEF Promise!EpNext
<1> QED
  BY <1>3, <1>4

\* The environment keeps the promise of Episodes to a session that does not
\* share it: a grading of several awaits is one atomic step of the episode.
THEOREM Refinement == ASSUME Isolated PROVE Spec => AtomicGrading
<1>1. Init => Promise!EpInit
  BY FPGAEnvAssumption
     DEF Init, Promise!EpInit, Promise!Nothing, Promise!ZeroScore, EpisodeOf, NewState,
         NoObs, NoAnswer, ZeroScore
<1>2. TypeOK /\ IsolationIInv /\ [Next]_vars => [Promise!EpNext]_(Promise!epVars)
  <2> SUFFICES ASSUME TypeOK, IsolationIInv, [Next]_vars
               PROVE  Promise!EpNext \/ UNCHANGED Promise!epVars
    OBVIOUS
  <2>0. Raised = Promise!Nothing("raised")
    BY DEF Raised, NoAnswer, ZeroScore, Promise!Nothing, Promise!ZeroScore
  <2>1. ASSUME NEW s \in Session, NEW taskArg \in Task \cup {None},
               NEW seedArg \in Seeds \cup {None}, Reset(s, taskArg, seedArg)
        PROVE  Promise!EpNext
    <3> DEFINE e == EnvOf[s]
               task == Resolve(taskArg)
               sd == SeedOf(seedArg)
    <3>1. /\ episodes < MaxEpisodes /\ episodes' = episodes + 1
          /\ state' = [state EXCEPT ![e] = NewState(episodes', taskArg)]
          /\ currentTask' = [currentTask EXCEPT ![e] = task]
          /\ seed' = [seed EXCEPT ![e] = sd]
          /\ task \in Task /\ sd \in Seeds \cup {0}
      BY <2>1 DEF Reset, BeginEpisode, SeedOf
    <3>2. \A t \in Session : EpisodeOf(t)' =
             IF t = s THEN [id |-> episodes', task |-> task, seed |-> sd] ELSE EpisodeOf(t)
      BY <3>1, FPGAEnvAssumption DEF EpisodeOf, Isolated, TypeOK, NewState
    <3>3. [t \in Session |-> EpisodeOf(t)]' =
             [[t \in Session |-> EpisodeOf(t)] EXCEPT ![s] =
                [id |-> episodes', task |-> task, seed |-> sd]]
      BY <3>2
    <3>4. obs' = [obs EXCEPT ![s] = Promise!Prompt(episodes', task)]
      BY <2>1 DEF Reset, Observed, Promise!Prompt, ZeroScore, Promise!ZeroScore
    <3>5. Promise!NewEpisode(s, task, sd)
      BY <3>1, <3>3, <3>4 DEF Promise!NewEpisode
    <3> QED
      BY <3>1, <3>5 DEF Promise!EpNext
  <2>2. ASSUME NEW s \in Session, ResetRaises(s, UnknownTask)
        PROVE  Promise!EpNext
    <3> DEFINE e == EnvOf[s]
    <3>1. /\ episodes < MaxEpisodes /\ episodes' = episodes + 1
          /\ state' = [state EXCEPT ![e] = NewState(episodes', UnknownTask)]
          /\ UNCHANGED <<currentTask, seed>>
      BY <2>2 DEF ResetRaises, BeginEpisode
    <3>2. \A t \in Session : EpisodeOf(t)' =
             IF t = s THEN [EpisodeOf(t) EXCEPT !.id = episodes'] ELSE EpisodeOf(t)
      BY <3>1, FPGAEnvAssumption DEF EpisodeOf, Isolated, TypeOK, NewState
    <3>3. [t \in Session |-> EpisodeOf(t)]' =
             [[t \in Session |-> EpisodeOf(t)] EXCEPT ![s].id = episodes']
      BY <3>2
    <3>4. obs' = [obs EXCEPT ![s] = Promise!Nothing("raised")]
      BY <2>0, <2>2 DEF ResetRaises
    <3>5. Promise!NoNewEpisode(s)
      BY <3>1, <3>3, <3>4 DEF Promise!NoNewEpisode
    <3> QED
      BY <3>5 DEF Promise!EpNext
  <2>3. ASSUME NEW s \in Session, StepWithoutTask(s) \/ StepRaises(s)
        PROVE  Promise!EpNext
    <3>1. /\ UNCHANGED <<state, currentTask, seed, episodes>>
          /\ obs' = [obs EXCEPT ![s] = Promise!Nothing("raised")]
      BY <2>0, <2>3 DEF StepWithoutTask, StepRaises
    <3>2. Promise!Abort(s)
      BY <3>1 DEF Promise!Abort, EpisodeOf
    <3> QED
      BY <3>2 DEF Promise!EpNext
  <2>4. ASSUME NEW s \in Session, NEW sub \in Submissions, StepBegin(s, sub)
        PROVE  UNCHANGED Promise!epVars
    <3>1. UNCHANGED <<currentTask, seed, obs, episodes>> /\ state' = Counted(s)
      BY <2>4 DEF StepBegin
    <3>2. \A e \in Env : state'[e].episode_id = state[e].episode_id
      BY <3>1 DEF Counted, TypeOK, EpisodeState
    <3>3. \A t \in Session : EpisodeOf(t)' = EpisodeOf(t)
      BY <3>1, <3>2, FPGAEnvAssumption DEF EpisodeOf
    <3> QED
      BY <3>1, <3>3 DEF Promise!epVars
  <2>5. ASSUME NEW s \in Session, NEW sub \in Submissions, StepBlocked(s, sub)
        PROVE  Promise!EpNext
    <3> DEFINE v == IF sub.guard = "missing_dut" THEN "COMPILE_ERROR" ELSE "FORBIDDEN"
    <3>1. v \in {"COMPILE_ERROR", "FORBIDDEN"}
      OBVIOUS
    <3>2. EnvOf[s] \in Env /\ currentTask[EnvOf[s]] # None
      BY <2>5, FPGAEnvAssumption DEF StepBlocked, StepStarts
    <3>3. state[EnvOf[s]].step_count + 1 \in Nat
      BY <3>2 DEF TypeOK, EpisodeState
    <3>4. /\ Counted(s) \in [Env -> EpisodeState]
          /\ \A e \in Env : Counted(s)[e].episode_id = state[e].episode_id
      BY <3>2, <3>3 DEF Counted, TypeOK, EpisodeState
    <3>5. Begun(s, sub) \in Frame
      BY <3>2, NoCallType, GradingAssumption DEF Begun, Frame, NoCall, TypeOK
    <3>6. Return(s, Counted(s), Rejected(v), Begun(s, sub))
      BY <2>5 DEF StepBlocked, GuardResult
    <3>7. v \in Verdict \ {"OK"}
      BY <3>1 DEF Verdict
    <3> HIDE DEF v
    <3>8. Promise!Answer(s, v, Promise!ZeroScore, << >>)
      BY <3>2, <3>4, <3>5, <3>6, <3>7, RejectionAnswers
    <3> QED
      BY <3>1, <3>8 DEF Promise!Refuse, Promise!EpNext
  \* Lint or build fails: the same rejection.
  <2>6. ASSUME NEW s \in Session, NEW finished \in Frame, call[s].pc # "idle",
               Return(s, state, Rejected("COMPILE_ERROR"), finished)
        PROVE  Promise!EpNext
    <3>1. currentTask[EnvOf[s]] # None
      BY <2>6 DEF IsolationIInv, IsolationInv, OnEpisode
    <3>2. state \in [Env -> EpisodeState]
      BY DEF TypeOK
    <3>3. Promise!Answer(s, "COMPILE_ERROR", Promise!ZeroScore, << >>)
      BY <2>6, <3>1, <3>2, RejectionAnswers DEF Verdict
    <3> QED
      BY <3>3 DEF Promise!Refuse, Promise!EpNext
  <2>7. ASSUME NEW s \in Session, NEW frame, Resume(s, frame)
        PROVE  UNCHANGED Promise!epVars
    BY <2>7, StutterStep DEF Resume
  <2>8. ASSUME NEW s \in Session, NEW r \in StageResults, LintDone(s, r) \/ BuildDone(s, r)
        PROVE  Promise!EpNext \/ UNCHANGED Promise!epVars
    <3> DEFINE linted == [call[s] EXCEPT !.lint = r]
               built == [call[s] EXCEPT !.build = r]
    <3>1. linted \in Frame /\ built \in Frame /\ call[s].pc # "idle"
      BY <2>8 DEF LintDone, BuildDone, TypeOK, Frame
    <3>2. CASE StagePassed(r)
      <4>1. \E frame : Resume(s, frame)
        BY <2>8, <3>2 DEF LintDone, BuildDone
      <4> QED
        BY <2>7, <4>1
    <3>3. CASE ~StagePassed(r)
      <4>1. \/ Return(s, state, Rejected("COMPILE_ERROR"), linted)
            \/ Return(s, state, Rejected("COMPILE_ERROR"), built)
        BY <2>8, <3>3 DEF LintDone, BuildDone
      <4> QED
        BY <2>6, <3>1, <4>1
    <3> QED
      BY <3>2, <3>3
  <2>9. ASSUME NEW s \in Session, Gathered(s)
        PROVE  Promise!EpNext
    <3>1. /\ call[s] \in Frame /\ call[s].pc = "sims"
          /\ call[s].sims \in [SimIndex -> SimResults]
      BY <2>9 DEF Gathered, Frame, TypeOK
    <3>2. /\ currentTask[EnvOf[s]] # None
          /\ call[s].seeds = ValidationSeeds(seed[EnvOf[s]])
      BY <3>1 DEF IsolationIInv, IsolationInv, OnEpisode
    <3>3. state \in [Env -> EpisodeState]
      BY DEF TypeOK
    <3>4. Return(s, state, WithFormatBonus(MultiSeedResult(call[s].sims), call[s].sub), call[s])
      BY <2>9 DEF Gathered
    <3> QED
      BY <3>1, <3>2, <3>3, <3>4, GradingAnswers
  <2>10. ASSUME NEW s \in Session, NEW i \in SimIndex, NEW r \in SimResults, SimDone(s, i, r)
        PROVE  UNCHANGED Promise!epVars
    BY <2>7, <2>10 DEF SimDone
  <2>11. ASSUME NEW s \in Session, NEW sub \in Submissions, Step(s, sub)
         PROVE  Promise!EpNext
    <3>1. currentTask[EnvOf[s]] # None
      BY <2>11 DEF Step, StepStarts
    <3>2. /\ Counted(s) \in [Env -> EpisodeState]
          /\ \A e \in Env : Counted(s)[e].episode_id = state[e].episode_id
      BY CountedType
    <3>3. ASSUME NEW f \in Frame, Return(s, Counted(s), Rejected("COMPILE_ERROR"), f)
          PROVE  Promise!EpNext
      <4>1. Promise!Answer(s, "COMPILE_ERROR", Promise!ZeroScore, << >>)
        BY <3>1, <3>2, <3>3, RejectionAnswers DEF Verdict
      <4> QED
        BY <4>1 DEF Promise!Refuse, Promise!EpNext
    <3>4. ASSUME NEW f \in Frame, NEW sims \in [SimIndex -> SimResults],
                 f.seeds = ValidationSeeds(seed[EnvOf[s]]),
                 Return(s, Counted(s), WithFormatBonus(MultiSeedResult(sims), sub), f)
          PROVE  Promise!EpNext
      BY <3>1, <3>2, <3>4, GradingAnswers
    <3> QED
      BY <2>11, <3>3, <3>4, StepReturns
  <2>12. ASSUME NEW s \in Session, NEW sub \in Submissions, SyncStepRaises(s, sub)
         PROVE  Promise!EpNext
    <3>1. /\ state' = Counted(s) /\ UNCHANGED <<currentTask, seed, episodes>>
          /\ obs' = [obs EXCEPT ![s] = Promise!Nothing("raised")]
      BY <2>0, <2>12 DEF SyncStepRaises
    <3>2. \A t \in Session : EpisodeOf(t)' = EpisodeOf(t)
      BY <3>1, CountedType, FPGAEnvAssumption DEF EpisodeOf
    <3>3. Promise!Abort(s)
      BY <3>1, <3>2 DEF Promise!Abort
    <3> QED
      BY <3>3 DEF Promise!EpNext
  <2>13. CASE UNCHANGED vars
    BY <2>13, StutterStep DEF vars
  <2> QED
    BY <2>1, <2>2, <2>3, <2>4, <2>5, <2>8, <2>9, <2>10, <2>11, <2>12, <2>13 DEF Next
<1> QED
  BY <1>1, <1>2, TypeCorrect, Isolation, PTL DEF Spec, AtomicGrading, Promise!EpSpec
=============================================================================
