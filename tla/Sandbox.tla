------------------------------- MODULE Sandbox -------------------------------
(***************************************************************************)
(* One invocation of SubprocessSandbox: the program it runs, with whatever *)
(* processes that program starts, and run or run_async waiting for it.     *)
(*                                                                         *)
(* The program leads a process group of its own (os.setsid) and writes to  *)
(* a pipe.  The two drivers are the same lines of code; they differ in who *)
(* takes the exit status of the leader.  subprocess takes it in wait(),    *)
(* after the end of the output; asyncio watches the process and takes it   *)
(* as soon as there is one, and from then on getpgid(pid) fails.           *)
(***************************************************************************)
EXTENDS Integers, FiniteSets

CONSTANTS
  Leader, Child,  \* the program, and the processes it may start
  MaxWrites,      \* bound: pieces of output the processes write
  MaxOutput       \* max_output_bytes, in pieces

ASSUME SandboxAssumption ==
  /\ Leader \notin Child
  /\ MaxWrites \in Nat /\ MaxOutput \in Nat

Proc == {Leader} \cup Child
SIGKILL == 9
ExitStatus == {0, 1, -SIGKILL}   \* success, failure, killed (by a limit, or at the deadline)

VARIABLES
  async,     \* the driver: run_async, or run
  proc,      \* each process; only the leader is ever "zombie" or "reaped"
  group,     \* the process group of the leader
  holds,     \* who has the write end of the pipe open
  status,    \* exit status of the leader, once it has one
  written,   \* pieces written to the pipe
  kept,      \* pieces communicate has read
  lost,      \* pieces a cancelled communicate had read
  pc,        \* in the first communicate, in the second, or returned
  timedOut,
  result

program == <<proc, group, holds, status, written>>
driver  == <<async, kept, lost, pc, timedOut, result>>
vars    == <<program, driver>>

NoResult == [returncode |-> 0, timed_out |-> FALSE, output |-> 0, truncated |-> FALSE]

Init ==
  /\ async \in BOOLEAN
  /\ proc = [p \in Proc |-> IF p = Leader THEN "running" ELSE "unborn"]
  /\ group = {Leader} /\ holds = {Leader}
  /\ status = 0 /\ written = 0
  /\ kept = 0 /\ lost = 0
  /\ pc = "communicate" /\ timedOut = FALSE
  /\ result = NoResult

Running(p) == proc[p] = "running"

-----------------------------------------------------------------------------
\* What the processes do on their own; a child may leave the group (setsid).
Fork(p, c) ==
  /\ Running(p)
  /\ proc[c] = "unborn"
  /\ proc' = [proc EXCEPT ![c] = "running"]
  /\ group' = IF p \in group THEN group \cup {c} ELSE group
  /\ holds' = IF p \in holds THEN holds \cup {c} ELSE holds
  /\ UNCHANGED <<status, written, driver>>

Detach(c) ==
  /\ Running(c) /\ c \in group
  /\ group' = group \ {c}
  /\ UNCHANGED <<proc, holds, status, written, driver>>

Write(p) ==
  /\ Running(p) /\ p \in holds
  /\ written < MaxWrites
  /\ written' = written + 1
  /\ UNCHANGED <<proc, group, holds, status, driver>>

CloseOutput(p) ==
  /\ Running(p) /\ p \in holds
  /\ holds' = holds \ {p}
  /\ UNCHANGED <<proc, group, status, written, driver>>

ChildExit(c) ==
  /\ Running(c)
  /\ proc' = [proc EXCEPT ![c] = "dead"]
  /\ holds' = holds \ {c}
  /\ UNCHANGED <<group, status, written, driver>>

LeaderExit(code) ==
  /\ Running(Leader)
  /\ proc' = [proc EXCEPT ![Leader] = "zombie"]
  /\ holds' = holds \ {Leader}
  /\ status' = code
  /\ UNCHANGED <<group, written, driver>>

-----------------------------------------------------------------------------
Waiting == pc \in {"communicate", "drain"}

\* Faulty variant: what had been read is read into the result again.
ReadAgain ==
  /\ Waiting
  /\ lost + kept < written
  /\ kept' = kept + written
  /\ UNCHANGED <<program, async, lost, pc, timedOut, result>>

Read ==
  /\ Waiting
  /\ lost + kept < written
  /\ kept' = written - lost
  /\ UNCHANGED <<program, async, lost, pc, timedOut, result>>

\* asyncio's child watcher.
Reap ==
  /\ async
  /\ proc[Leader] = "zombie"
  /\ proc' = [proc EXCEPT ![Leader] = "reaped"]
  /\ UNCHANGED <<group, holds, status, written, driver>>

\* Faulty variants: only the leader is killed; a signal everybody ignores.
KillLeader ==
  IF Running(Leader)
  THEN /\ proc' = [proc EXCEPT ![Leader] = "zombie"]
       /\ holds' = holds \ {Leader}
       /\ status' = -SIGKILL
  ELSE UNCHANGED <<proc, holds, status>>

KillNobody == UNCHANGED <<proc, holds, status>>

\* killpg(getpgid(pid), SIGKILL): no process, no group, nothing is killed.
KillGroup ==
  IF proc[Leader] = "reaped"
  THEN UNCHANGED <<proc, holds, status>>
  ELSE /\ proc' = [p \in Proc |->
                     IF p \in group /\ Running(p)
                     THEN IF p = Leader THEN "zombie" ELSE "dead"
                     ELSE proc[p]]
       /\ holds' = holds \ group
       /\ status' = IF Running(Leader) THEN -SIGKILL ELSE status

\* A communicate of subprocess that times out is taken up by the next one;
\* the one wait_for cancels drops what it has read.
Deadline ==
  /\ pc = "communicate"
  /\ pc' = "drain"
  /\ timedOut' = TRUE
  /\ KillGroup
  /\ kept' = IF async THEN 0 ELSE kept
  /\ lost' = IF async THEN lost + kept ELSE lost
  /\ UNCHANGED <<async, group, written, result>>

\* communicate returns at the end of the output, when the leader has been
\* waited for; the output is then cut at max_output_bytes.
Exited == proc[Leader] = IF async THEN "reaped" ELSE "zombie"

\* Faulty variant: the end of the output is not waited for.
FinishAtExit ==
  /\ Waiting
  /\ Exited
  /\ proc' = [proc EXCEPT ![Leader] = "reaped"]
  /\ pc' = "done"
  /\ result' = [returncode |-> status, timed_out |-> timedOut,
                output |-> IF kept <= MaxOutput THEN kept ELSE MaxOutput,
                truncated |-> kept > MaxOutput]
  /\ UNCHANGED <<async, group, holds, status, written, kept, lost, timedOut>>

Finish ==
  /\ Waiting
  /\ holds = {}
  /\ lost + kept = written
  /\ Exited
  /\ proc' = [proc EXCEPT ![Leader] = "reaped"]
  /\ pc' = "done"
  /\ result' = [returncode |-> status, timed_out |-> timedOut,
                output |-> IF kept <= MaxOutput THEN kept ELSE MaxOutput,
                truncated |-> kept > MaxOutput]
  /\ UNCHANGED <<async, group, holds, status, written, kept, lost, timedOut>>

Next ==
  \/ \E p \in Proc : Write(p) \/ CloseOutput(p) \/ \E c \in Child : Fork(p, c)
  \/ \E c \in Child : Detach(c) \/ ChildExit(c)
  \/ \E code \in ExitStatus : LeaderExit(code)
  \/ Read \/ Reap \/ Deadline \/ Finish

Spec == Init /\ [][Next]_vars

\* Timers expire, the kernel reports exits and the driver is scheduled; the
\* processes owe nothing.
FairSpec == Spec /\ WF_vars(Read \/ Reap \/ Finish) /\ WF_vars(Deadline)

-----------------------------------------------------------------------------
TypeOK ==
  /\ async \in BOOLEAN
  /\ proc \in [Proc -> {"unborn", "running", "zombie", "reaped", "dead"}]
  /\ group \subseteq {p \in Proc : proc[p] # "unborn"}
  /\ holds \subseteq {p \in Proc : Running(p)}
  /\ status \in ExitStatus
  /\ written \in Nat /\ kept \in Nat /\ lost \in Nat /\ lost + kept <= written
  /\ pc \in {"communicate", "drain", "done"}
  /\ timedOut \in BOOLEAN
  /\ result \in [returncode : ExitStatus, timed_out : BOOLEAN, output : Nat, truncated : BOOLEAN]

(***************************************************************************)
(* The class "enforces wall-clock by sending SIGKILL to the process group  *)
(* when the deadline passes": from then on nothing of the group runs.      *)
(***************************************************************************)
DeadlineKillsGroup == timedOut => \A p \in group : ~Running(p)

\* run keeps that promise, whatever its processes do.
RunKillsGroup == ~async => DeadlineKillsGroup

(***************************************************************************)
(* The output of a run that ended in time is whole, up to the documented   *)
(* limit: no piece a process wrote before it let go of the pipe is missing *)
(* when parse_sim_output looks for the OK line.  run keeps the output of a *)
(* run that timed out as well: the second communicate goes on where the    *)
(* first one stopped.                                                      *)
(***************************************************************************)
Whole ==
  /\ result.truncated <=> written > MaxOutput
  /\ result.output = IF result.truncated THEN MaxOutput ELSE written

OutputIsWhole == (pc = "done" /\ (~async \/ ~result.timed_out)) => Whole

(***************************************************************************)
(* run returns: the deadline takes down everything that could keep it      *)
(* waiting, as long as the program's processes stay in its group.          *)
(***************************************************************************)
Together == \A c \in Child : Running(c) => c \in group

RunReturns == [](~async /\ Together) => <>(pc = "done")

(***************************************************************************)
(* Both drivers return once nobody holds the pipe any more, even if the    *)
(* leader itself never ends; it is only an open pipe they can wait for     *)
(* beyond their deadline.                                                  *)
(***************************************************************************)
ReturnsOnceReleased == <>(holds = {}) => <>(pc = "done")
=============================================================================
