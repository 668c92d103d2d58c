------------------------------- MODULE FPGAEnv -------------------------------
(***************************************************************************)
(* FPGAEnvironment driven through reset, step and step_async by several    *)
(* sessions on one event loop.  An action is one stretch of code between   *)
(* two awaits: other coroutines run only where the code awaits, that is    *)
(* while lint, build or the simulations of a call are running.             *)
(*                                                                         *)
(* EnvOf says which environment object serves a session.  A client that    *)
(* builds its own environment (LocalEnv, tests/llm_vibe/run.py) has one to *)
(* itself; server/app.py builds one object at import time, for everybody.  *)
(***************************************************************************)
EXTENDS Grading

CONSTANTS
  Session, Env, EnvOf,
  Task, DefaultTask,     \* the registry, and default_task
  UnknownTask,           \* a task_id the registry does not have
  Seeds,                 \* the seeds sessions pass to reset
  None,                  \* an argument left out, or an attribute still None
  Pending,               \* the result of a subprocess that has not ended
  MaxEpisodes,           \* bound: calls of reset, all sessions together
  MaxSteps               \* bound: calls of step_async in one episode

ASSUME FPGAEnvAssumption ==
  /\ EnvOf \in [Session -> Env]
  /\ DefaultTask \in Task
  /\ Seeds \subseteq Nat
  /\ MaxEpisodes \in Nat /\ MaxSteps \in Nat
  /\ None \notin Task /\ UnknownTask \notin Task
  /\ None \notin Verdict /\ None \notin Nat
  /\ Pending \notin StageResult /\ Pending \notin SimResult

VARIABLES
  state,        \* self._state of each environment
  currentTask,  \* self._current_task; _current_prompt is that task's prompt
  seed,         \* self._seed
  call,         \* the coroutine of each session's latest step_async
  obs,          \* what each session's latest call returned
  asked,        \* the episode each session got from its latest reset
  episodes      \* episode ids handed out so far

vars == <<state, currentTask, seed, call, obs, asked, episodes>>

-----------------------------------------------------------------------------
NewState(id, taskArg) ==
  [episode_id |-> id, step_count |-> 0, task_id |-> taskArg,
   last_verdict |-> None, last_score |-> ZeroScore]

NoCall ==
  [pc |-> "idle", task |-> None, sub |-> [guard |-> "clean", had_answer |-> FALSE],
   lint |-> Pending, build |-> Pending,
   seeds |-> << >>, sims |-> [i \in SimIndex |-> Pending]]

Observed(verdict, score, prompt, id, seeds, done) ==
  [status |-> "returned", verdict |-> verdict, score |-> score, prompt |-> prompt,
   episode_id |-> id, seeds |-> seeds, done |-> done]

\* A call that gave nothing back: it raised, or there was none.
NoAnswer(status) ==
  [status |-> status, verdict |-> None, score |-> ZeroScore, prompt |-> None,
   episode_id |-> 0, seeds |-> << >>, done |-> FALSE]

Raised    == NoAnswer("raised")
NoObs     == NoAnswer("none")
NoEpisode == [episode_id |-> 0, task |-> None, seed |-> 0]

Init ==
  /\ state = [e \in Env |-> NewState(0, None)]
  /\ currentTask = [e \in Env |-> None]
  /\ seed = [e \in Env |-> 0]
  /\ call = [s \in Session |-> NoCall]
  /\ obs = [s \in Session |-> NoObs]
  /\ asked = [s \in Session |-> NoEpisode]
  /\ episodes = 0

-----------------------------------------------------------------------------
(***************************************************************************)
(* reset.  self._state is replaced before _reset_task looks the task up.   *)
(***************************************************************************)
Resolve(taskArg) == IF taskArg = None THEN DefaultTask ELSE taskArg
\* Faulty variant: no default.
SeedAsGiven(seedArg) == seedArg

SeedOf(seedArg)  == IF seedArg = None THEN 0 ELSE seedArg

BeginEpisode(s, taskArg) ==
  /\ call[s].pc = "idle"
  /\ episodes < MaxEpisodes
  /\ episodes' = episodes + 1
  /\ state' = [state EXCEPT ![EnvOf[s]] = NewState(episodes', taskArg)]
  /\ call' = [call EXCEPT ![s] = NoCall]

\* Faulty variants: a reset that names no task, or no seed, keeps the old one.
ResetKeepsTask(s, taskArg, seedArg) ==
  LET task == Resolve(taskArg) IN
  /\ task \in Task
  /\ BeginEpisode(s, taskArg)
  /\ IF taskArg = None /\ currentTask[EnvOf[s]] # None
     THEN UNCHANGED currentTask
     ELSE currentTask' = [currentTask EXCEPT ![EnvOf[s]] = task]
  /\ seed' = [seed EXCEPT ![EnvOf[s]] = SeedOf(seedArg)]
  /\ obs' = [obs EXCEPT ![s] = Observed("OK", ZeroScore, task, episodes', << >>, FALSE)]
  /\ asked' = [asked EXCEPT ![s] =
                 [episode_id |-> episodes', task |-> task, seed |-> SeedOf(seedArg)]]

ResetKeepsSeed(s, taskArg, seedArg) ==
  LET task == Resolve(taskArg) IN
  /\ task \in Task
  /\ BeginEpisode(s, taskArg)
  /\ currentTask' = [currentTask EXCEPT ![EnvOf[s]] = task]
  /\ IF seedArg = None
     THEN UNCHANGED seed
     ELSE seed' = [seed EXCEPT ![EnvOf[s]] = seedArg]
  /\ obs' = [obs EXCEPT ![s] = Observed("OK", ZeroScore, task, episodes', << >>, FALSE)]
  /\ asked' = [asked EXCEPT ![s] =
                 [episode_id |-> episodes', task |-> task, seed |-> SeedOf(seedArg)]]

Reset(s, taskArg, seedArg) ==
  LET task == Resolve(taskArg) IN
  /\ task \in Task
  /\ BeginEpisode(s, taskArg)
  /\ currentTask' = [currentTask EXCEPT ![EnvOf[s]] = task]
  /\ seed' = [seed EXCEPT ![EnvOf[s]] = SeedOf(seedArg)]
  /\ obs' = [obs EXCEPT ![s] = Observed("OK", ZeroScore, task, episodes', << >>, FALSE)]
  /\ asked' = [asked EXCEPT ![s] =
                 [episode_id |-> episodes', task |-> task, seed |-> SeedOf(seedArg)]]

\* get_task raises KeyError: the new state stays, task and seed do not change.
ResetRaises(s, taskArg) ==
  /\ Resolve(taskArg) \notin Task
  /\ BeginEpisode(s, taskArg)
  /\ obs' = [obs EXCEPT ![s] = Raised]
  /\ asked' = [asked EXCEPT ![s] = NoEpisode]
  /\ UNCHANGED <<currentTask, seed>>

-----------------------------------------------------------------------------
(***************************************************************************)
(* What step_async does once _grade_async has returned g, st being the     *)
(* state it finds.  The environment is read again here, not as it was when *)
(* the call began.                                                         *)
(***************************************************************************)
Return(s, st, g, finished) ==
  LET e     == EnvOf[s]
      seeds == IF g.verdict = "OK" THEN finished.seeds ELSE << >>
  IN
  /\ state' = [st EXCEPT ![e].last_verdict = g.verdict,
                         ![e].last_score = GatedScore(g)]
  /\ obs' = [obs EXCEPT ![s] = Observed(g.verdict, GatedScore(g), currentTask[e],
                                        st[e].episode_id, seeds, TRUE)]
  /\ call' = [call EXCEPT ![s] = [finished EXCEPT !.pc = "idle"]]
  /\ UNCHANGED <<currentTask, seed, asked, episodes>>

Resume(s, frame) ==
  /\ call' = [call EXCEPT ![s] = frame]
  /\ UNCHANGED <<state, currentTask, seed, obs, asked, episodes>>

StepWithoutTask(s) ==
  /\ call[s].pc = "idle"
  /\ currentTask[EnvOf[s]] = None
  /\ obs' = [obs EXCEPT ![s] = Raised]
  /\ UNCHANGED <<state, currentTask, seed, call, asked, episodes>>

\* step_async up to its first await: the count, the guard, the start of lint.
StepStarts(s) ==
  /\ call[s].pc = "idle"
  /\ currentTask[EnvOf[s]] # None
  /\ state[EnvOf[s]].step_count < MaxSteps

Begun(s, sub) == [NoCall EXCEPT !.pc = "lint", !.task = currentTask[EnvOf[s]], !.sub = sub]

\* Faulty variant: the step is not counted.
Uncounted(s) == state

Counted(s) == [state EXCEPT ![EnvOf[s]].step_count = @ + 1]

StepBlocked(s, sub) ==
  /\ StepStarts(s)
  /\ sub.guard # "clean"
  /\ Return(s, Counted(s), GuardResult(sub), Begun(s, sub))

StepBegin(s, sub) ==
  /\ StepStarts(s)
  /\ sub.guard = "clean"
  /\ state' = Counted(s)
  /\ call' = [call EXCEPT ![s] = Begun(s, sub)]
  /\ UNCHANGED <<currentTask, seed, obs, asked, episodes>>

\* Faulty variant: lint at its deadline counts as passed when it exited 0.
LintDoneByExit(s, r) ==
  LET linted == [call[s] EXCEPT !.lint = r] IN
  /\ call[s].pc = "lint"
  /\ IF r.returncode = 0
     THEN Resume(s, [linted EXCEPT !.pc = "build"])
     ELSE Return(s, state, Rejected("COMPILE_ERROR"), linted)

LintDone(s, r) ==
  LET linted == [call[s] EXCEPT !.lint = r] IN
  /\ call[s].pc = "lint"
  /\ IF StagePassed(r)
     THEN Resume(s, [linted EXCEPT !.pc = "build"])
     ELSE Return(s, state, Rejected("COMPILE_ERROR"), linted)

\* After the build the seeds are taken from the environment, and every
\* _run_one starts its simulation with the task the call began with.
BuildDone(s, r) ==
  LET built == [call[s] EXCEPT !.build = r] IN
  /\ call[s].pc = "build"
  /\ IF StagePassed(r)
     THEN Resume(s, [built EXCEPT !.pc = "sims", !.seeds = ValidationSeeds(seed[EnvOf[s]])])
     ELSE Return(s, state, Rejected("COMPILE_ERROR"), built)

SimDone(s, i, r) ==
  /\ call[s].pc = "sims"
  /\ call[s].sims[i] = Pending
  /\ Resume(s, [call[s] EXCEPT !.sims[i] = r])

\* Faulty variant: the results of simulations at their deadline are not taken.
GatheredInTime(s) ==
  /\ call[s].pc = "sims"
  /\ \A i \in SimIndex : call[s].sims[i] # Pending /\ ~call[s].sims[i].timed_out
  /\ Return(s, state, WithFormatBonus(MultiSeedResult(call[s].sims), call[s].sub), call[s])

\* asyncio.gather has all results, in the order of the seeds.
Gathered(s) ==
  /\ call[s].pc = "sims"
  /\ \A i \in SimIndex : call[s].sims[i] # Pending
  /\ Return(s, state, WithFormatBonus(MultiSeedResult(call[s].sims), call[s].sub), call[s])

\* An exception (no verilator, no disk, no process) in whatever the call
\* awaits: it leaves step_async, and the environment as the call found it.
StepRaises(s) ==
  /\ \/ call[s].pc \in {"lint", "build"}
     \/ call[s].pc = "sims" /\ \E i \in SimIndex : call[s].sims[i] = Pending
  /\ call' = [call EXCEPT ![s] = NoCall]
  /\ obs' = [obs EXCEPT ![s] = Raised]
  /\ UNCHANGED <<state, currentTask, seed, asked, episodes>>

(***************************************************************************)
(* step (LocalEnv): the same stretches in the same order, with nothing     *)
(* awaited between them; its driver stops at the first seed that fails.    *)
(***************************************************************************)
Linted(s, sub, lint) == [Begun(s, sub) EXCEPT !.lint = lint]
Built(s, sub, lint, build) == [Linted(s, sub, lint) EXCEPT !.build = build]

UpToFailure(sims) ==
  [i \in SimIndex |-> IF \E j \in SimIndex : j < i /\ Fails(sims[j]) THEN Pending ELSE sims[i]]

Simulated(s, sub, lint, build, sims) ==
  [Built(s, sub, lint, build) EXCEPT !.seeds = ValidationSeeds(seed[EnvOf[s]]),
                                     !.sims = UpToFailure(sims)]

Step(s, sub) ==
  /\ StepStarts(s)
  /\ sub.guard = "clean"
  /\ \E lint \in StageResults :
       \/ /\ ~StagePassed(lint)
          /\ Return(s, Counted(s), Rejected("COMPILE_ERROR"), Linted(s, sub, lint))
       \/ /\ StagePassed(lint)
          /\ \E build \in StageResults :
               \/ /\ ~StagePassed(build)
                  /\ Return(s, Counted(s), Rejected("COMPILE_ERROR"),
                            Built(s, sub, lint, build))
               \/ /\ StagePassed(build)
                  /\ \E sims \in [SimIndex -> SimResults] :
                       Return(s, Counted(s), WithFormatBonus(MultiSeedResult(sims), sub),
                              Simulated(s, sub, lint, build, sims))

\* The same exception in step: the count stays.
SyncStepRaises(s, sub) ==
  /\ StepStarts(s)
  /\ sub.guard = "clean"
  /\ state' = Counted(s)
  /\ call' = [call EXCEPT ![s] = NoCall]
  /\ obs' = [obs EXCEPT ![s] = Raised]
  /\ UNCHANGED <<currentTask, seed, asked, episodes>>

Next ==
  \E s \in Session :
    \/ \E taskArg \in Task \cup {None}, seedArg \in Seeds \cup {None} :
         Reset(s, taskArg, seedArg)
    \/ ResetRaises(s, UnknownTask)
    \/ StepWithoutTask(s)
    \/ \E sub \in Submissions : StepBegin(s, sub) \/ StepBlocked(s, sub)
    \/ \E sub \in Submissions : Step(s, sub) \/ SyncStepRaises(s, sub)
    \/ \E r \in StageResults : LintDone(s, r) \/ BuildDone(s, r)
    \/ \E i \in SimIndex, r \in SimResults : SimDone(s, i, r)
    \/ Gathered(s)
    \/ StepRaises(s)

Spec == Init /\ [][Next]_vars

\* The event loop resumes a coroutine whose simulations have all returned.  That
\* a run of the sandbox returns is not assumed: run_async may wait beyond its
\* deadline for a process that nothing kills (module Sandbox).
FairSpec == Spec /\ \A s \in Session : WF_vars(Gathered(s))

-----------------------------------------------------------------------------
EpisodeState ==
  [episode_id : Nat, step_count : Nat, task_id : Task \cup {None, UnknownTask},
   last_verdict : Verdict \cup {None}, last_score : Score]

Frame ==
  [pc : {"idle", "lint", "build", "sims"}, task : Task \cup {None}, sub : Submission,
   lint : StageResults \cup {Pending}, build : StageResults \cup {Pending},
   seeds : Seq(Nat), sims : [SimIndex -> SimResults \cup {Pending}]]

Observation ==
  [status : {"none", "returned", "raised"}, verdict : Verdict \cup {None}, score : Score,
   prompt : Task \cup {None}, episode_id : Nat, seeds : Seq(Nat), done : BOOLEAN]

\* The values of every attribute and of every local the coroutines keep.
TypeOK ==
  /\ state \in [Env -> EpisodeState]
  /\ currentTask \in [Env -> Task \cup {None}]
  /\ seed \in [Env -> Nat]
  /\ call \in [Session -> Frame]
  /\ obs \in [Session -> Observation]
  /\ asked \in [Session -> [episode_id : Nat, task : Task \cup {None}, seed : Nat]]
  /\ episodes \in Nat

Ran(r) == r # Pending

\* Everything the grading of a finished call rests on went well.
AllPassed(c) ==
  /\ c.sub.guard = "clean"
  /\ Ran(c.lint) /\ StagePassed(c.lint)
  /\ Ran(c.build) /\ StagePassed(c.build)
  /\ \A i \in SimIndex : Ran(c.sims[i]) /\ ~Fails(c.sims[i])

\* What o says of the finished call c is what happened in it.
GradedRight(c, o) ==
  /\ o.verdict = "OK" <=> AllPassed(c)
  /\ o.verdict = "OK" => o.score.cycles = [i \in SimIndex |-> Cycles(c.sims[i])]
  /\ o.verdict # "OK" => o.score = ZeroScore

(***************************************************************************)
(* The hard gate (README, "Scoring"): once a call has returned its grading *)
(* the verdict is OK if and only if guard, lint, build and the simulation  *)
(* of every seed passed, the score is then made of exactly the cycles of   *)
(* those simulations, and any other verdict comes with score 0.            *)
(***************************************************************************)
RewardIffCorrect ==
  \A s \in Session :
    (call[s].pc = "idle" /\ obs[s].done) => GradedRight(call[s], obs[s])

(***************************************************************************)
(* A session is told about its own episode: whatever other sessions do     *)
(* while its call awaits, episode id and prompt of what it gets back are   *)
(* those of the reset it made (SUPPORTS_CONCURRENT_SESSIONS).              *)
(***************************************************************************)
ToldOfEpisode(s) ==
  (asked[s] # NoEpisode /\ obs[s].status = "returned") =>
    /\ obs[s].episode_id = asked[s].episode_id
    /\ obs[s].prompt = asked[s].task

ObservationOfEpisode == \A s \in Session : ToldOfEpisode(s)

(***************************************************************************)
(* A session is graded on its own episode: the simulations run on the      *)
(* vectors of the task and of the seed it gave to reset, so that the same  *)
(* reset and submission give the same score ("deterministic, reproducible",*)
(* README).  The seed is read two awaits after the task.                   *)
(***************************************************************************)
GradedOnEpisode ==
  \A s \in Session :
    (asked[s] # NoEpisode /\ call[s].pc = "sims") =>
      /\ call[s].task = asked[s].task
      /\ call[s].seeds = ValidationSeeds(asked[s].seed)

(***************************************************************************)
(* An episode nobody has stepped has no grading: no late write lands in    *)
(* the state of an episode begun while the call was awaiting.              *)
(***************************************************************************)
GradedImpliesStepped ==
  \A e \in Env : state[e].last_verdict # None => state[e].step_count > 0

(***************************************************************************)
(* The task graded is the task state.task_id names, for "the new episode"  *)
(* that _reset_task returns it for.                                        *)
(***************************************************************************)
GradedTaskIsStateTask ==
  \A s \in Session :
    call[s].pc # "idle" => call[s].task = Resolve(state[EnvOf[s]].task_id)

SandboxReturns(s) ==
  \/ \E r \in StageResults : LintDone(s, r) \/ BuildDone(s, r)
  \/ \E i \in SimIndex, r \in SimResults : SimDone(s, i, r)

RunsReturn(s) == WF_vars(SandboxReturns(s))

(***************************************************************************)
(* A session whose runs of the sandbox all return gets an answer or an     *)
(* exception from every step_async: a call waits for nothing else, and     *)
(* there is no result of a run it does not take.  The premise is needed:   *)
(* what the submission leaves behind may keep run_async from returning.    *)
(***************************************************************************)
CallEnds ==
  \A s \in Session : RunsReturn(s) => (call[s].pc # "idle" ~> call[s].pc = "idle")

-----------------------------------------------------------------------------
(***************************************************************************)
(* Why RewardIffCorrect holds: a call gets as far as it has passed.        *)
(***************************************************************************)
PassedSoFar(c) ==
  /\ c.pc # "idle" => c.sub.guard = "clean"
  /\ c.pc \in {"build", "sims"} => Ran(c.lint) /\ StagePassed(c.lint)
  /\ c.pc = "sims" => Ran(c.build) /\ StagePassed(c.build)

CallInv == \A s \in Session : PassedSoFar(call[s])

\* No two sessions are served by the same environment.
Isolated == \A s, t \in Session : EnvOf[s] = EnvOf[t] => s = t

(***************************************************************************)
(* Why a session with an environment of its own is graded on its episode:  *)
(* between its calls the environment is as its reset left it, and a call   *)
(* under way is a call of that episode.                                    *)
(***************************************************************************)
OnEpisode(s) ==
  LET e == EnvOf[s] IN
  /\ asked[s] # NoEpisode =>
       /\ state[e].episode_id = asked[s].episode_id
       /\ currentTask[e] = asked[s].task
       /\ seed[e] = asked[s].seed
  /\ call[s].pc # "idle" =>
       /\ currentTask[e] # None
       /\ call[s].task = currentTask[e]
       /\ state[e].step_count > 0
  /\ call[s].pc = "sims" => call[s].seeds = ValidationSeeds(seed[e])

IsolationInv == \A s \in Session : OnEpisode(s)

-----------------------------------------------------------------------------
\* The promise of Episodes, read off the environment that serves a session.
EpisodeOf(s) ==
  [id   |-> state[EnvOf[s]].episode_id,
   task |-> currentTask[EnvOf[s]],
   seed |-> seed[EnvOf[s]]]

Promise == INSTANCE Episodes WITH
  episode <- [s \in Session |-> EpisodeOf(s)],
  answer  <- obs,
  issued  <- episodes

(***************************************************************************)
(* With an environment of its own, every session sees gradings that are    *)
(* atomic steps of its episode, however its awaits interleave with the     *)
(* other sessions' calls.                                                  *)
(***************************************************************************)
AtomicGrading == Promise!EpSpec
=============================================================================
