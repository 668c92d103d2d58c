--------------------------- MODULE Sandbox_proofs ---------------------------
(***************************************************************************)
(* Theorems about Sandbox for any number of processes and any output.      *)
(***************************************************************************)
EXTENDS Sandbox, TLAPS

\* What the driver has read, and when the leader may already be reaped.
DriverInv ==
  /\ pc = "communicate" => ~timedOut
  /\ pc = "drain" => timedOut
  /\ (~timedOut \/ ~async) => lost = 0
  /\ (~async /\ pc # "done") => proc[Leader] # "reaped"
  /\ pc = "done" =>
       /\ holds = {}
       /\ lost + kept = written
       /\ result.timed_out = timedOut
       /\ result.truncated = (kept > MaxOutput)
       /\ result.output = IF kept <= MaxOutput THEN kept ELSE MaxOutput

IInv == TypeOK /\ DriverInv /\ (~async => DeadlineKillsGroup)

\* An action of the processes, which owes the driver nothing: it keeps IInv if
\* it writes only through an open pipe and starts nobody in a dead group.
LEMMA ProcessStep ==
  ASSUME IInv, UNCHANGED driver,
         proc' \in [Proc -> {"unborn", "running", "zombie", "reaped", "dead"}],
         group' \subseteq {p \in Proc : proc'[p] # "unborn"},
         holds' \subseteq {p \in Proc : proc'[p] = "running"},
         status' \in ExitStatus,
         written' \in Nat, written <= written', holds = {} => written' = written /\ holds' = {},
         proc'[Leader] = "reaped" => proc[Leader] = "reaped",
         \A p \in group' : proc'[p] = "running" => \E q \in group : Running(q)
  PROVE  IInv'
<1> USE SandboxAssumption DEF IInv, TypeOK, driver
<1>1. TypeOK'
  BY DEF Running
<1>2. DriverInv'
  BY DEF DriverInv
<1>3. DeadlineKillsGroup => DeadlineKillsGroup'
  BY DEF DeadlineKillsGroup, Running
<1> QED
  BY <1>1, <1>2, <1>3

\* The whole state of an invocation, whatever the processes do.
THEOREM Invariant == Spec => []IInv
<1> USE SandboxAssumption
<1>1. Init => IInv
  <2> SUFFICES ASSUME Init PROVE IInv
    OBVIOUS
  <2>1. Leader \in Proc /\ Running(Leader)
    BY DEF Init, Running, Proc
  <2>2. 0 \in ExitStatus
    BY DEF ExitStatus
  <2>3. result \in [returncode : ExitStatus, timed_out : BOOLEAN, output : Nat, truncated : BOOLEAN]
    BY <2>2 DEF Init, NoResult
  <2>4. proc \in [Proc -> {"unborn", "running", "zombie", "reaped", "dead"}]
    BY DEF Init
  <2>5. /\ group \subseteq {p \in Proc : proc[p] # "unborn"}
        /\ holds \subseteq {p \in Proc : Running(p)}
    BY <2>1 DEF Init, Running
  <2>6. pc = "communicate" /\ timedOut \in BOOLEAN /\ async \in BOOLEAN /\ status \in ExitStatus
        /\ written = 0 /\ kept = 0 /\ lost = 0
    BY <2>2 DEF Init
  <2>7. TypeOK
    BY <2>3, <2>4, <2>5, <2>6 DEF TypeOK
  <2>8. DriverInv /\ DeadlineKillsGroup
    BY <2>1 DEF Init, DriverInv, DeadlineKillsGroup, Running
  <2> QED
    BY <2>7, <2>8 DEF IInv
<1>2. IInv /\ [Next]_vars => IInv'
  <2> SUFFICES ASSUME IInv, [Next]_vars PROVE IInv'
    OBVIOUS
  <2>1. ASSUME NEW p \in Proc, NEW c \in Child, Fork(p, c)
        PROVE  IInv'
    <3>1. /\ proc' = [proc EXCEPT ![c] = "running"] /\ proc[c] = "unborn" /\ Running(p)
          /\ c # Leader /\ c \in Proc /\ Leader \in Proc
          /\ UNCHANGED <<status, written, driver>>
      BY <2>1 DEF Fork, Proc
    <3>2. /\ group' \subseteq group \cup {c} /\ (c \in group' => p \in group \/ c \in group)
          /\ holds' \subseteq holds \cup {c} /\ (holds = {} => holds' = {})
      BY <2>1 DEF Fork
    <3>3. /\ proc' \in [Proc -> {"unborn", "running", "zombie", "reaped", "dead"}]
          /\ group' \subseteq {q \in Proc : proc'[q] # "unborn"}
          /\ holds' \subseteq {q \in Proc : proc'[q] = "running"}
          /\ proc'[Leader] = proc[Leader]
      BY <3>1, <3>2 DEF IInv, TypeOK, Running
    <3>4. \A q \in group' : proc'[q] = "running" => \E r \in group : Running(r)
      BY <3>1, <3>2 DEF IInv, TypeOK, Running
    <3>5. status' \in ExitStatus /\ written' \in Nat /\ written <= written'
      BY <3>1 DEF IInv, TypeOK
    <3> QED
      BY <3>1, <3>2, <3>3, <3>4, <3>5, ProcessStep
  <2>2. ASSUME NEW c \in Child, Detach(c)
        PROVE  IInv'
    BY <2>2, ProcessStep DEF Detach, IInv, TypeOK, Running, Proc
  <2>3. ASSUME NEW p \in Proc, Write(p) \/ CloseOutput(p)
        PROVE  IInv'
    BY <2>3, ProcessStep DEF Write, CloseOutput, IInv, TypeOK, Running, Proc
  <2>4. ASSUME NEW c \in Child, ChildExit(c)
        PROVE  IInv'
    BY <2>4, ProcessStep DEF ChildExit, IInv, TypeOK, Running, Proc
  <2>5. ASSUME NEW code \in ExitStatus, LeaderExit(code)
        PROVE  IInv'
    BY <2>5, ProcessStep DEF LeaderExit, IInv, TypeOK, Running, Proc
  <2>6. CASE Read
    BY <2>6 DEF Read, Waiting, IInv, TypeOK, DriverInv, DeadlineKillsGroup, Running, program
  <2>7. CASE Reap
    <3>1. TypeOK'
      BY <2>7 DEF Reap, IInv, TypeOK, Running, driver, Proc
    <3>2. DriverInv' /\ async /\ async'
      BY <2>7 DEF Reap, IInv, DriverInv, driver
    <3> QED
      BY <3>1, <3>2 DEF IInv
  <2>8. CASE Deadline
    <3>1. /\ proc' \in [Proc -> {"unborn", "running", "zombie", "reaped", "dead"}]
          /\ holds' \subseteq {p \in Proc : proc'[p] = "running"}
          /\ status' \in ExitStatus
          /\ proc'[Leader] = "reaped" => proc[Leader] = "reaped"
          /\ \A p \in Proc : proc'[p] = "unborn" => proc[p] = "unborn"
      BY <2>8 DEF Deadline, KillGroup, IInv, TypeOK, Running, Proc, ExitStatus, SIGKILL
    <3>2. TypeOK'
      BY <2>8, <3>1 DEF Deadline, IInv, TypeOK, Running
    <3>3. DriverInv'
      BY <2>8, <3>1 DEF Deadline, IInv, TypeOK, DriverInv
    <3>4. UNCHANGED async
      BY <2>8 DEF Deadline
    <3>5. ASSUME ~async
          PROVE  DeadlineKillsGroup'
      <4>1. proc[Leader] # "reaped"
        BY <2>8, <3>5 DEF Deadline, IInv, DriverInv
      <4>2. \A p \in group : proc'[p] # "running"
        BY <2>8, <4>1 DEF Deadline, KillGroup, IInv, TypeOK, Running
      <4> QED
        BY <2>8, <4>2 DEF Deadline, DeadlineKillsGroup, Running
    <3> QED
      BY <3>2, <3>3, <3>4, <3>5 DEF IInv
  <2>9. CASE Finish
    <3>1. TypeOK'
      <4>1. /\ proc' \in [Proc -> {"unborn", "running", "zombie", "reaped", "dead"}]
            /\ group' \subseteq {p \in Proc : proc'[p] # "unborn"}
            /\ holds' = {}
        BY <2>9 DEF Finish, IInv, TypeOK
      <4>2. /\ UNCHANGED <<async, status, written, kept, lost, timedOut>>
            /\ pc' = "done"
        BY <2>9 DEF Finish
      <4>3. result' \in [returncode : ExitStatus, timed_out : BOOLEAN, output : Nat,
                         truncated : BOOLEAN]
        BY <2>9 DEF Finish, IInv, TypeOK
      <4> QED
        BY <4>1, <4>2, <4>3 DEF IInv, TypeOK
    <3>2. DriverInv'
      BY <2>9 DEF Finish, Waiting, IInv, TypeOK, DriverInv
    <3>3. DeadlineKillsGroup => DeadlineKillsGroup'
      BY <2>9 DEF Finish, IInv, TypeOK, DeadlineKillsGroup, Running, Proc
    <3> QED
      BY <2>9, <3>1, <3>2, <3>3 DEF IInv, Finish
  <2>10. CASE UNCHANGED vars
    BY <2>10 DEF vars, program, driver, IInv, TypeOK, DriverInv, DeadlineKillsGroup, Running
  <2> QED
    BY <2>1, <2>2, <2>3, <2>4, <2>5, <2>6, <2>7, <2>8, <2>9, <2>10 DEF Next
<1> QED
  BY <1>1, <1>2, PTL DEF Spec

\* The processes and the driver keep their types.
THEOREM TypeCorrect == Spec => []TypeOK
BY Invariant, PTL DEF IInv

\* With run, nothing of the group runs once the deadline has passed.
THEOREM RunKillsGroupAlways == Spec => []RunKillsGroup
<1>1. IInv => RunKillsGroup
  BY DEF IInv, RunKillsGroup
<1> QED
  BY <1>1, Invariant, PTL

\* Neither driver loses output of a run that ends in time, and run loses none
\* of a run that times out either.
THEOREM OutputIsAlwaysWhole == Spec => []OutputIsWhole
<1>1. IInv => OutputIsWhole
  BY SandboxAssumption DEF IInv, TypeOK, DriverInv, OutputIsWhole, Whole
<1> QED
  BY <1>1, Invariant, PTL
=============================================================================
