------------------------------- MODULE Episodes ------------------------------
(***************************************************************************)
(* What the environment promises each session: an episode has one task and *)
(* one seed, and grading a submission is one atomic step that looks at     *)
(* nothing but that episode and at how the submission behaves on the seeds *)
(* of that episode.  FPGAEnv shows that an environment of one's own keeps  *)
(* this promise although a grading takes several awaits.                   *)
(***************************************************************************)
EXTENDS Grading

CONSTANTS Session, Task, Seeds, None, MaxEpisodes

VARIABLES
  episode,   \* of each session: its id, task and primary seed
  answer,    \* what the session's latest call gave it
  issued     \* episode ids handed out so far

epVars == <<episode, answer, issued>>

Prompt(id, task) ==
  [status |-> "returned", verdict |-> "OK", score |-> ZeroScore, prompt |-> task,
   episode_id |-> id, seeds |-> << >>, done |-> FALSE]

Nothing(status) ==
  [status |-> status, verdict |-> None, score |-> ZeroScore, prompt |-> None,
   episode_id |-> 0, seeds |-> << >>, done |-> FALSE]

Graded(ep, v, score, seeds) ==
  [status |-> "returned", verdict |-> v, score |-> score, prompt |-> ep.task,
   episode_id |-> ep.id, seeds |-> seeds, done |-> TRUE]

EpInit ==
  /\ episode = [s \in Session |-> [id |-> 0, task |-> None, seed |-> 0]]
  /\ answer = [s \in Session |-> Nothing("none")]
  /\ issued = 0

NewEpisode(s, task, seed) ==
  /\ issued < MaxEpisodes
  /\ issued' = issued + 1
  /\ episode' = [episode EXCEPT ![s] = [id |-> issued', task |-> task, seed |-> seed]]
  /\ answer' = [answer EXCEPT ![s] = Prompt(issued', task)]

\* A reset that fails uses up an id and leaves the old task and seed under it.
NoNewEpisode(s) ==
  /\ issued < MaxEpisodes
  /\ issued' = issued + 1
  /\ episode' = [episode EXCEPT ![s].id = issued']
  /\ answer' = [answer EXCEPT ![s] = Nothing("raised")]

Answer(s, v, score, seeds) ==
  /\ episode[s].task # None
  /\ answer' = [answer EXCEPT ![s] = Graded(episode[s], v, score, seeds)]
  /\ UNCHANGED <<episode, issued>>

\* The submission does not get as far as a simulation.
Refuse(s) ==
  \E v \in {"COMPILE_ERROR", "FORBIDDEN"} : Answer(s, v, ZeroScore, << >>)

\* One of the simulations fails; which one is not for the session to see.
Fail(s) ==
  \E r \in SimResults :
    /\ Fails(r)
    /\ Answer(s, FailureVerdict(r), ZeroScore, << >>)

\* Every validation seed of the episode passes, and nothing else scores.
Accept(s) ==
  \E sims \in [SimIndex -> {r \in SimResults : ~Fails(r)}], bonus \in {FALSE, FormatBonus} :
    Answer(s, "OK", [cycles |-> [i \in SimIndex |-> Cycles(sims[i])], bonus |-> bonus],
           ValidationSeeds(episode[s].seed))

\* The call raises, before or after there is an episode.
Abort(s) ==
  /\ answer' = [answer EXCEPT ![s] = Nothing("raised")]
  /\ UNCHANGED <<episode, issued>>

EpNext ==
  \E s \in Session :
    \/ \E task \in Task, seed \in Seeds \cup {0} : NewEpisode(s, task, seed)
    \/ NoNewEpisode(s)
    \/ Refuse(s) \/ Fail(s) \/ Accept(s)
    \/ Abort(s)

EpSpec == EpInit /\ [][EpNext]_epVars
=============================================================================
