# rlvr-envs in TLA+

TLA+ specifications of the FPGA environment of this repository, TLC
configurations that check them on small instances, and TLAPS proofs of the
properties that matter most. Paths are relative to `src/rlvr_envs/` of the
repository; `README.md:n` is a line of the repository's README.

`tlc -config <run>.cfg <MC module>` reproduces a run, `tlapm <module>.tla` a
proof. `PROJECT.json` maps every definition to the lines it models.

## 1. The system and its parts

An episode is `reset(seed, task_id)` followed by `step(source)`. A step extracts
the Verilog from the answer, tests it against a list of forbidden constructs,
lints and builds it with Verilator, simulates it once per seed under a generated
testbench, and turns the cycles counted into a score in [0, 1]. Everything
Verilator or the design does happens in subprocesses of a sandbox.

| Part | State | Operations | Interacts through |
|---|---|---|---|
| `RLVREnvironment` / `FPGAEnvironment` (`core/base_env.py`, `envs/fpga/environment.py`) | `_state` (episode id, step count, last grading), `_current_task`, `_current_prompt`, `_seed` | `reset`, `step`, `step_async` | is called by sessions; awaits sandbox calls |
| pipeline and multi-seed drivers (`environment.py`) | locals of the call: results so far, seeds | `_grade(_async)`, `_run_pipeline(_async)`, `_run_multi_seed(_async)` | `gather`s one simulation per seed |
| `SubprocessSandbox` (`core/sandbox.py`) | a process group, a pipe, a deadline | `run`, `run_async` | fork/exec, `communicate`, `killpg` |
| testbench (`envs/fpga/harness.py`) | case, cycles, total | `main` of `sim_main.cpp` | reads the vectors file, drives the pins, prints a line protocol |
| `parse_sim_output` (`envs/fpga/verilator.py`) | none | searches the output for protocol lines | reads what the sandbox kept of it |
| scoring (`core/scoring.py`) | none | `speed_score`, mean, bonus, clamp | called by the drivers and by `step` |
| `LocalEnv`, server (`runtime/local.py`, `envs/fpga/server/app.py`) | one environment each; the server's serves everybody | pass-through | decide which sessions share an environment |
| guard, answer parser (`verilog_guard.py`, `parse.py`) | none | text tests | first steps of a grading |
| tasks (`tasks.py`) | none | thirty-four oracles and vector generators | called in the event loop for every case; the vectors of a simulation |
| reference designs (`references.py`) | registers | clock ticks with and without `start`, reset | `data_in`, `data_out`, `done`, driven by the testbench |

What is hard here: `step_async` awaits lint, build and the simulations, and
other calls run meanwhile; the sandbox races a deadline against processes that
may fork, end and keep a pipe open; a simulation may be killed, and its output
cut, anywhere; a grading is decided from what is left of that output; the word a
result is compared with comes from an oracle that has no second implementation.
What has to be right: a score is earned on every case of every seed and charged
the cycles it took; a session is graded on, and told of, its own episode; the two
drivers grade alike; the oracles compute what the prompts ask for; calls end.
`PROJECT.json` lists the hazards at their lines.

## 2. Modules

**`Grading`** holds the pure part: verdicts, what a stage result and a
simulation result mean, `Parse` (parse_sim_output), `MultiSeedResult` (the loop
over the sorted results), the bonus and the gate. A score is kept as the cycles
it is the mean of, so that the models above it say which simulations earned it;
`Scoring` says which number that is.

**`FPGAEnv`** is the environment under several sessions. `EnvOf` maps each
session to the environment object that serves it: one each for `LocalEnv` and
the script of `tests/llm_vibe`, one for all on the server. An action is a stretch of
code between two awaits:

| Action | Code |
|---|---|
| `Reset`, `ResetRaises` | `reset`, and its failure in `get_task`, by when `_state` is already new |
| `StepWithoutTask` | `step` before `reset` |
| `StepBegin`, `StepBlocked` | `step_async` up to the first await; up to its end when the guard blocks |
| `LintDone`, `BuildDone` | the rest of the stage after its await, up to the next await or return; `BuildDone` reads `_seed` |
| `SimDone` | one `_run_one` ends |
| `Gathered` | the code after `gather`, and what `step_async` does with the result |
| `StepRaises` | an exception of anything awaited |
| `Step`, `SyncStepRaises` | the synchronous `step`, one action from call to return |

`call[s]` holds the locals of the coroutine (its `pc` names the await it is at),
and stays after the call has ended as the record of what happened in it;
`obs[s]` is what the latest call gave back; `asked[s]` remembers what the session
asked `reset` for, which the code does not.

**`Episodes`** is the promise: an episode of each session, and atomic gradings of
it. Its `Accept` needs every validation seed of the episode to pass; `Fail` needs
one that fails. `FPGAEnv` implements it (`AtomicGrading`), with
`episode` read off the environment that serves the session.

**`MultiSeed`** runs the sequential and the concurrent driver side by side on the
same simulations. `AsyncEnd` lets them end in any order; `Crash` is a `run_sim`
that raises.

**`Sandbox`** is one invocation: the leader and its children fork, leave the
group, write, close and exit as they like (`Fork` .. `LeaderExit`), `Read`,
`Deadline` and `Finish` are the driver, `Reap` is asyncio's child watcher. `run`
and `run_async` are the same lines; the variable `async`, which never changes,
selects what `subprocess` and `asyncio` do differently under them: who takes the
exit status of the leader and when, and whether a timed-out `communicate` can be
resumed.

**`Harness`** is `main` of the testbench with an arbitrary design: `ReadVectors`
and `BadVectors` are the vectors file and its error returns, `StartCase`, `Tick`,
`NotFinished`, `WrongOutput`, `RightOutput`, `AllCasesPassed` the branches of the
loop. `Exit` and `Killed` hand the output to the parser, whole, cut at the size
limit or cut where the process died; a number that was cut is any smaller number.
`Display` is a line the design prints itself, one of `DesignLines`, which may be
lines of the protocol: the guard's list does not name every construct that prints,
and the parser does not ask who printed a line. `right`, `ticks` and `displayed`
are history: the cases whose result was right, the clock ticks the design was
given and the lines that were its own, against which verdict and measure are
judged. The properties name the lines of its own that they allow for: a design
that prints no OK is accepted only for what it did, and a total of its own, if it
precedes that of the testbench, is the one it is charged.

**`Scoring`** computes the score in exact fractions, seed by seed, for
submissions compared side by side.

**`Tasks`** has the constants, corner cases, ranges of random words and oracles of
the twelve tasks that have a reference design. A word whose bits matter is the
sequence of its bits, packed operands are a tuple, and every oracle is written
for words of any width `w`.

**`TaskVectors`** has the same of the other twenty-two tasks, oracles apart: arrays
are sequences of digits, a graph is its set of edges.

**`Oracles`** runs their oracles, one action per task and one step per iteration of
the outer loop, `Continue` with new `locals` or `Return`. `Described` says of
each task, in other terms than the code, what its prompt asks for (closed sets
for reachability, two-colourings, ranks, the packets of a stream by their
headers, the cache by last use); `LoopInv` says where the loops stand.

**`References`** runs the twelve designs of `references.py` through a vector set.
`Load`, `Loop`, `LastLoop` and `Out` say what a design writes on `start`, in an
iteration, when it stops and what it answers; `AnswerAtOnce`, `Begin`, `Iterate`
and `GiveResult` are its clock ticks, `ReadVectors`, `StartCase`, `Tick`, `Judge`
and `AllCasesPassed` the testbench around them. It implements `Harness`
(`DrivenByHarness`): what `Harness` leaves open, when `done` rises and whether
`data_out` is right, is here computed. The registers stay from one case to the
next, as reset clears only `done` and the state. Nothing in the repository builds
these designs.

`MC*` modules and `.cfg` files give the constants values. Definitions introduced
as faulty variants (`ResetKeepsSeed`, `KillLeader`, ...) are no part of a
specification: each is a plausible bug in the operator after it, and replacing
the operator by it must break the property named in `PROJECT.json`.

`FPGAEnv_proofs`, `MultiSeed_proofs`, `Sandbox_proofs`, `Harness_proofs`,
`Scoring_proofs`, `References_proofs` and `Oracles_proofs` hold the theorems;
`Mathematics_proofs` holds what the last two need about numbers, sequences and
loops.

## 3. Runs

| Run | Instance | Result |
|---|---|---|
| `isolated` | 2 sessions, own environments, 2 tasks, 2 seeds per grading, 3 resets, 1 step each | what a session is told and graded on is its own episode, however awaits interleave; the environment implements `Episodes` |
| `solo` | 1 session, 3 seeds per grading, 3 stage and 6 simulation results, all submissions; only the event loop is fair | `RewardIffCorrect`: the verdict is OK iff everything passed, and the score is made of those cycles; a call whose subprocesses return ends |
| `multiseed` | 3 seeds, 8 simulation results and crashes | the drivers return the same; only the concurrent one may raise where the other returns, and then nothing was to be earned |
| `sandbox` | both drivers; leader and 2 children that may leave the group, 3 pieces of output, 2 kept | in `run` the deadline stops the whole group; the output of a run in time is whole, and in `run` that of a late one too; `run` returns if nobody leaves the group, both once the pipe is released |
| `harness` | a vectors file that cannot be read, with no case, or with 1 to 3 cases of at most 1 to 3 cycles; 6 lines kept, up to 2 lines of the design: no protocol line, an OK, a failure or a total | what is accepted was earned, charged the ticks given and in range, unless the design has printed an OK or a total; a failure found is final whatever it prints; what was earned is accepted; the testbench ends |
| `references` | the corner cases of each task at its width (isqrt32: 30 bits); every word of 4, 5 or 9 bits for the bit-serial designs; every request of the arbiter; 4 values per byte or digit, 5 or 4 per coordinate, for adler32, matvec and ray_hit; each after a case that leaves registers set | every design is right, keeps its loop invariant, is charged the cycles that make up `baseline_cycles`, and is driven as `Harness` says; the oracles are what the prompts describe |
| `oracles` | every corner case; every graph of graph_triangle_5, every prime_check_u8 word, every loop-free graph of 4 nodes, graphs of 3 to 5 edges on 6 nodes, elsewhere words whose digits take 2 to 6 values, the largest one among them | the oracles compute what the prompts ask for, for the reason `LoopInv` gives, in `out_bits`, and return; `baseline_cycles` is in reach of the cases |
| `scoring` | baseline 4, measures 0..8, 2 seeds, bonus 1/5, scale 3 | the clamp never acts, faster scores higher, only ratios matter |

The runs below show the code doing something else than a comment or document
says; TLC ends with a counterexample.

| Run | Counterexample |
|---|---|
| `shared_seed` | one environment for two sessions: A starts a step; B resets with another seed while A's build runs; A's simulations run on B's seed (`environment.py:119`). `SUPPORTS_CONCURRENT_SESSIONS` (`base_env.py:55`) promises otherwise. `ObservationOfEpisode` and `GradedImpliesStepped` fail on this instance as well, through the reads and writes after the await at `base_env.py:140`-`154` |
| `failed_reset` | `reset` with an unknown task raises after it has replaced `_state`; the next `step` grades the previous task in the new episode |
| `sandbox_async_orphan` | the leader ends and is reaped, a child keeps running with the pipe open; at the deadline `getpgid` fails and nobody is killed (`sandbox.py:188`). In `run` the leader is a zombie until after the output has ended, so this cannot happen there |
| `design_lines` | a line the design prints reads as an OK of the testbench, and is taken for one when the process does not get to print its own verdict (`verilator.py:119`-`131`). "Stdout never enters the correctness decision" (README.md:157) and "cannot trick the parser" (`tests/adversarial/test_reward_hacking.py:224`) promise otherwise; the tests there print lines without the prefix only. `FailureIsFinal` is what does hold for such designs |

### Bounds

`MaxEpisodes`, `MaxSteps` (resets; steps per episode), `MaxWrites` (pieces of
output), `MaxDisplays` (lines of the design) bound otherwise unbounded counters;
they stand in the guards of the actions they bound. Two sessions suffice for
the interference between calls, as a call reads and writes one environment; two
seeds per grading for the order in which simulations end, three for a failure
between two passes. Three resets let each session begin an episode and one of
them begin another while the other's call awaits. Two children show a child that
outlives its parent and one that leaves the group. In `Harness` a passing run of
three cases prints five lines, so that two of the design push the OK out of the
six that are kept, or are an OK and a total of its own; `DesignLines` has a line
of each kind, and a total of 0 that no run has; limits of one to three cycles tell done-at-once,
done-at-the-limit and not-done apart, and no case at all is the vector set whose
measure is 0.
The designs of `References` work bit by bit (adler32: byte by byte) the same way
at every width; small widths make every word affordable, and the corner cases at
the real width check the width-dependent constants. isqrt32 is run at 30 bits
because TLC's integers have 32. In `ray_hit_2d` no sum exceeds 2^23, far below
the 32 bits of its registers. The words of `Oracles` compare digits, so a few
values with ties, neighbours and the ends of the range meet every branch; where a
loop depends on the word as a whole (graphs, prime_check_u8) the words are all
words or all of a kind. `TypeOK` checks that every word is one the generator may
draw.
Deadlock checking is off: every model may end, because the bounds are used up or
the work is done.

### Fairness

`FPGAEnv!FairSpec` assumes of each session that the event loop resumes its call
when all its simulations have returned. It does not assume that a subprocess
returns: the second `communicate` of `run_async` (`sandbox.py:191`) has no
deadline, and `sandbox_async_orphan` shows that nobody may be left to end the
process it waits for. `CallEnds` has that as its premise (`RunsReturn`) and says
that a call waits for nothing else. A synchronous `step`, which blocks the event
loop while it runs, is one action. When a run of the sandbox does return is the matter of `RunReturns` (`run`,
nobody leaves the group) and `ReturnsOnceReleased` (both, once nobody holds the
pipe). Neither is claimed beyond that: whoever keeps the pipe open keeps the second
`communicate` waiting. Sessions owe no call.

`Sandbox!FairSpec` assumes fairness of the driver and of the deadline timer, never
of the program. `Harness!FairSpec` assumes that the testbench process is scheduled
and that each `top.eval()` returns; where one does not, the deadline of the sandbox
is what ends the run. `Oracles!Spec` assumes that the Python interpreter runs.

## 4. Proofs

The theorems hold for all values of the constants that satisfy the named
assumptions (`GradingAssumption`, `FPGAEnvAssumption`, `MultiSeedAssumption`,
`SandboxAssumption`, `HarnessAssumption`, `ScoringAssumption`,
`ReferencesAssumption`, `OraclesAssumption`: types, and that the markers `None`, `Pending`, `Crash` are
not data).

- `FPGAEnv_proofs!HardGate`: `RewardIffCorrect`, for any sharing of environments.
  It is not inductive: that a call has passed lint and build is known only from
  how far it has come. The strengthening is `CallInv` (a call at "build" has
  passed lint, one at "sims" both), proved first (`CallInvariant`) and used in `Gathered`.
- `FPGAEnv_proofs!Isolation`, from `Isolated` (no two sessions share an
  environment): `IsolationInv` with `ObservationOfEpisode` and
  `GradedImpliesStepped` is inductive. Between the calls of a session the
  environment is as its reset left it, and a call under way carries the task, and
  later the seeds, of that episode; `OwnStep` says that a step of one session
  leaves the others' environments alone. `EpisodesAreKept`,
  `SessionsSeeTheirEpisode`, `SessionsAreGradedOnTheirEpisode` and
  `GradingsFollowSteps` follow. Run `shared_seed` shows that `Isolated` is needed.
- `FPGAEnv_proofs!Refinement`, from `Isolated`: `Spec => AtomicGrading`. Awaits in the
  middle of a call stutter; the step that returns maps to `Refuse`, `Fail`,
  `Accept`, or to a raise. It rests on `CallInv` and `IsolationInv`.
- `MultiSeed_proofs!DriversAlwaysAgree`, `OnlyAsyncRaisesAlways`: for any number of
  seeds, from `DriverInv`, which records what each driver knows of the
  simulations it has been through; `FirstFailureIs` identifies the index at which
  the sequential driver stops with the one `MultiSeedResult` chooses.
- `Sandbox_proofs!Invariant`: type, what has been read, and, in `run`, that nothing
  of the group runs after the deadline; inductive because the leader of `run`
  is not reaped before `Finish`. `RunKillsGroupAlways` and `OutputIsAlwaysWhole`
  follow for any number of processes.
- `Harness_proofs!Invariant`, for any vectors files, any limit of the output and
  any lines the design may print: if the design prints none, OK is the last line
  there can be, right after the total (`Lines`), and cutting an output makes no
  other line an OK (`CutHasOk`, `TruncationHasOk`). So an OK that is found was
  printed, nothing was cut, and the first total is the design's, if it printed
  one, or else `total_cycles`, which `Counts` ties to the cases passed and the
  ticks given. A case that failed has left its marker in the output (`Stopped`),
  and no line added to it takes that away (`StoppedIsFound`).
  `AcceptedIsAlwaysEarned`, `FailureIsAlwaysFinal`, `MeasureAlwaysInRange` and
  `EarnedIsAlwaysAccepted` are conjuncts: they speak of `result`, which is written
  once, in the step that ends the process. The first and the third have the
  premise that the design printed no OK (and no total); `design_lines` shows that
  they need it.
- `Scoring_proofs!Invariant`: over any number of seeds the sum of the scores of the
  faster submission is the larger one, the sum on the scaled task is the same
  fraction, and a sum over n seeds is at most n. Fractions compare by cross
  products: `SumOrder` adds two comparisons. `ClampIsAlwaysIdle`,
  `AlwaysScaleInvariant` and, on a task with a positive baseline,
  `FasterAlwaysScoresHigher` follow; without a baseline every score is 0.
- `References_proofs!InductiveInvariant`, for every width up to the real one, every
  length of a vector set and every word a generator may draw: `Spec => []IInv`.
  `IInv` says of a case under way that the registers are `Midway`: what design X
  holds after n iterations on the input is `XMid`, and the cycles charged are
  n + 1. `LoopInv` is not enough: it relates registers to each other, where the
  next step needs them related to the input and to n. In gcd16, `LoopInv` says
  that the greatest common divisor is kept, `GcdMid` also that the 2s counted in
  k fit its four bits, and that every iteration takes one of the 2 * w bits of a
  and b (`BitsLeft`), which is what bounds the cycles of a case; in div16 `DivMid`
  gives the bounds under which no bit is lost when rem and quot are shifted.
  - `XBegins`, `XIterates`, `XEnds` are lemmas about the operators of a design
    alone: the load state reaches `XMid`, an iteration keeps it, and the last one
    gives what the oracle returns, over whatever the registers held before.
    `XRight` carries them to the state, `EveryDesignRight` to all designs.
  - The actions then keep `IInv` (`StartCaseIInv`, `TickIInv`, `JudgeIInv`,
    `OutsideCasesIInv`), and a case is neither late nor wrong
    (`NeitherLateNorWrong`). `TypeCorrect`, `ReferencesCorrect`,
    `ReferencesCharged` and `ReferencesLoopInv` follow from it.
  - `ReferencesAsDescribed`: the oracles are what the prompts describe.
  - `ReferencesDriven`: `Spec => DrivenByHarness`, action by action. `WrongOutput`
    and `NotFinished` of `Harness` have no counterpart, which is what
    `NeitherLateNorWrong` says.
  - The oracles themselves are recursive functions and folds, and have lemmas of
    their own: `GcdIsGreatest` (Euclid's algorithm returns the greatest common
    divisor), `SearchFinds` (the binary search finds the root) and, for popcount, crc8,
    adler32 and bitrev16, that a fold is what any sequence arrives at that takes in
    one element after the other (`FoldLeftCrc`, ...). The laws the binary
    algorithm of the design rests on (`GcdDoubled`, `GcdOddOther`, `GcdDifference`)
    come from `SameDivisors`: two numbers with the same divisors are equal.
- `Oracles_proofs!InductiveInvariant`, for the twenty-two oracles and every word
  their generators can draw: `Spec => []IInv`. `IInv` is `TypeOK`, `LoopInv` and,
  of a result, that it is the described one and fits its `out_bits`. `TypeCorrect`,
  `OraclesLoopInv`, `OraclesAsDescribed` and `OraclesFit` follow.
  - `LoopInv` says all that the next iteration needs to know: that a bipartite
    graph can still be divided as the colours given so far say (`ColourInv`),
    without which a clash says nothing about the graph; that the cache holds what
    was accessed, in the order of last use (`CacheInv`); that no requester before
    `offset` has the greatest weight (`SchedulerInv`); that in PAYLOAD a byte is
    still to come (`PacketInv`).
  - A section per task has the same lemmas: `NameCase` says what `TypeOK`,
    `LoopInv` and `Described` are for it, `NameInit` that the locals before
    the loop satisfy them, `NameStep` that its action keeps them and returns what is
    described. `NextKept` puts them together.
  - What the descriptions need is proved beside them: the set of visited nodes,
    once nothing is left to visit, is the least set closed under edges, as
    reachability is defined; a number without a divisor up to its root is prime;
    what is put out in front of what is left to merge sorts to the same word as
    the two inputs; a key is in the cache exactly if fewer than four others were
    accessed since its last use.

The induction rules of the library take a predicate as a parameter, which the
provers cannot instantiate. `Mathematics_proofs!Induction` is stated for a set
instead, and a proof by induction names the set of numbers for which its claim holds.
`Recursion` and `TailRecursion` derive from it that functions defined by
recursion exist, which is what a recursive definition has to be given before its
equation may be used; `FoldExists` does it for the folds of the community
modules. `2 ^ n` is known to the provers through the number of subsets of a set
(`PowOfCardinality`). `Euclid` and the search of `IsqrtIn` take a pair as their
argument, as a function of two arguments is to TLAPS not the same as one of pairs.

What the theorems on References assume is `ReferencesAssumption`: a run is a
design, a width from 1 to that of the task (four bytes for adler32), and a
sequence of words the generator may draw at that width. The real vector sets are
such runs, at the real width. Those on Oracles assume that `Words`, the words the
oracles are called with, are words the generators may draw (`RandomWords`), as all
calls of an oracle are made by its generator.

Only model-checked: the liveness properties (`CallEnds`, `RunReturns`,
`ReturnsOnceReleased`, `Ends`, `Returns`), which the prover does not handle. Every
invariant and every action property of a passing run is proved.

## 5. Abstractions, and what is not modelled

- Text. Submissions are classified as the pipeline tells them apart (what the
  guard found, whether there was an answer block); `check_verilog` and
  `parse_submission` themselves are not modelled. They hold no state and no
  control but the order of regular expressions over the characters of a
  submission; a model would be a regular expression engine. Standard error,
  prompts and details other than the seeds are left out.
- What a design prints is whole lines: `$write` and `$fwrite`, which do not end the
  line, are blocked (`verilog_guard.py:77`, `123`). Which of its lines look like the
  testbench's is open.
- Resource limits are processes that may end with any status at any time.
  Wall-clock time is a deadline that may pass at any moment of a run.
- `timeout_s` only moves deadlines (`_cap`), which the models leave open anyway.
- Floating point: scores are exact fractions.
- Nothing in the repository cancels a call; if a caller did, `CancelledError` would
  leave `run_async` (`sandbox.py:181`) with its process running and nobody to stop
  it. That is not modelled, nor is pid reuse after a leader has been reaped.
- The episode directories are written and never removed; nothing in the code
  depends on it until the disk is full, which is a call that raises.
- The client class, `MockSandbox` and the LLM runner hold no logic of the system.
- Random words are any words the generator may draw; the generator itself, and
  how a word is laid out in one integer, are not modelled. For gcd16 and
  arbiter_rr, whose time depends on the input, `ChargedAsBaseline` bounds the
  cycles of a case; the exact baselines 500 and 105 depend on the words drawn for
  seed 0.
- A vectors file the testbench cannot read ends it without a marker, which the
  pipeline reports as INCORRECT: a failure of the grader looks like one of the
  submission.

Met while modelling, where text and code differ in other places:

- README.md:93 gives "+0.25 score" for halved cycles; by `SpeedScore` it is 1/6
  from the baseline and nowhere 1/4.
- `tasks.py:740`-`741` calls the word 0b0000000111 of graph_triangle_5 the edges
  (0,1), (0,2), (1,2), "1 triangle", and 0b0000001000 the edge (0,3). In the order
  of the bits they are the star (0,1), (0,2), (0,3), without a triangle, and the
  edge (0,4). The oracle counts right; the corner case is not the one meant.
- `base_env.py:120` says "single-step episode: one grading per reset". Nothing
  remembers that the episode is done: each further `step` is graded as well, which
  the models allow (`MaxSteps`).
- The prompt of xor_cipher16 (`tasks.py:384`-`385`) says that the test harness "also
  feeds the output back as input"; it gives every word of the vectors file to the
  design once (`harness.py:115`), and no output.
- `references.py:1` speaks of "all FPGA tasks"; twelve of thirty-four have one.
- `parse.py:21`-`22` returns a text without an answer block as it is; the code
  looks for a code fence in it first (`parse.py:77`-`86`).
- `verilog_guard.py:27`-`28` lists `$display`, `$write` and `$monitor` as warnings;
  they are in `BLOCKED_DEFAULT` (`verilog_guard.py:122`-`124`).

## 6. State of the plan

Done: the environment and its promise, both drivers, the sandbox, the testbench,
scoring, all tasks and all reference designs, the refinement of `Harness` by
`References`, and the proofs of section 4. Open: the safety half of termination of
the oracles and of the testbench, a measure that every iteration lowers, which
would leave only fairness to TLC.
