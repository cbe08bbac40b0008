-------------------------- MODULE SandboxVerification --------------------------
(***************************************************************************)
(* The verification of one run: the checks of the plan, each in a Docker   *)
(* container of its own (sandbox/docker.py), the proof gate, the evidence  *)
(* and the step to human approval (activities/sandbox.py and               *)
(* providers/operations.py), with the attempts Temporal makes of it.       *)
(*                                                                         *)
(* A step is one call of the Docker CLI.  The daemon is on the other side: *)
(* a call that was cut off may still be carried out, and a container says  *)
(* exit status 0 until its command has ended.                              *)
(***************************************************************************)
EXTENDS CheckPlan, ProofGate

CONSTANTS
  Paths,         \* paths a push may change
  Heads,         \* configurations and changed paths the reviewed head may have
  Reporting,     \* approved checks with report files
  MaxAttempts,   \* bound: attempts of the verify activity
  MaxFaults      \* bound: failed, cut off, cancelled or abandoned steps

\* What the parsed configuration of a head consists of.
GivenCheck == [name : STRING, conforms : BOOLEAN, timeout : Nat, paths : SUBSET Seq(STRING)]
ReviewedHead == [file : {"missing", "broken", "read"}, checks : Seq(GivenCheck),
                 changed : SUBSET Seq(STRING)]

ASSUME SandboxAssumption ==
  /\ MaxAttempts \in Nat \ {0} /\ MaxFaults \in Nat
  /\ Heads \subseteq ReviewedHead /\ Paths \cup {ConfigFile} \subseteq Seq(STRING)

Attempts == 1 .. MaxAttempts

VARIABLES
  head,      \* what the checkout of the run holds
  at,        \* at[a]: where attempt a is, and what it knows and did
  box,       \* box[a]: the container of the check attempt a is at
  late,      \* attempts whose container the daemon may still create
  receipt,   \* the evidence of the run: the attempt that wrote it and its conclusion
  run,       \* verifying, awaiting (approval) or inactive
  server,    \* the attempt Temporal waits for (0: none) and the verdict of the stage
  faults

vars == <<head, at, box, late, gate, receipt, run, server, faults>>

-----------------------------------------------------------------------------
(* Values *)

Plan == LoadPlan(head)
NoReceipt == [by |-> 0, passed |-> FALSE]

\* stop: why run() will raise.  passed: checks whose command ended with status 0 and whose
\* reports are good; lost: checks whose attached call failed before their container ended.
Absent == [pc |-> "absent", check |-> 1, bad |-> FALSE, stop |-> "no", proof |-> "none",
           passed |-> {}, lost |-> {}]

Ended == {"absent", "passed", "failed", "retry", "cancelled", "dead"}
InDocker == {"create", "start", "attach", "kill", "inspect", "export", "rm", "confirm"}

At(a, pc) == at[a].pc = pc
Live(a) == at[a].pc \notin Ended
To(a, pc) == at' = [at EXCEPT ![a].pc = pc]
Raise(a, pc, why) == at' = [at EXCEPT ![a].pc = pc, ![a].stop = why, ![a].bad = TRUE]

Check(a) == Plan.checks[at[a].check]
Reports(a) == Check(a).name \in Reporting

Fault == faults < MaxFaults /\ faults' = faults + 1
Steady == UNCHANGED <<head, gate, receipt, run, server>>
Quiet == Steady /\ UNCHANGED <<late, faults>>

-----------------------------------------------------------------------------
(* SandboxVerificationOperation and prepare_verification *)

\* Faulty variant: the replay of a passed receipt leaves the run as it is.
ReplayOnly(a) ==
  /\ At(a, "begin")
  /\ IF run = "inactive" THEN To(a, "retry")
     ELSE IF receipt.by # 0 THEN To(a, IF receipt.passed THEN "passed" ELSE "failed")
     ELSE IF Plan.error # "none" THEN Raise(a, "record", "error")
     ELSE To(a, "next")
  /\ UNCHANGED box /\ Quiet

\* A recorded verdict is replayed before anything runs, and a run whose worker died
\* between the receipt and the step to approval makes that step now.
Prepare(a) ==
  /\ At(a, "begin")
  /\ IF run = "inactive" THEN To(a, "retry")
     ELSE IF receipt.by # 0 THEN To(a, IF receipt.passed THEN "mark" ELSE "failed")
     ELSE IF Plan.error # "none" THEN Raise(a, "record", "error")
     ELSE To(a, "next")
  /\ UNCHANGED box /\ Quiet

\* A failed check does not stop the others; the proof gate needs them all.
NextCheck(a) ==
  /\ At(a, "next")
  /\ IF at[a].check > Len(Plan.checks) THEN To(a, IF at[a].bad THEN "record" ELSE "proof")
     ELSE IF Check(a).selected THEN To(a, "stage")
     ELSE at' = [at EXCEPT ![a].check = @ + 1]
  /\ UNCHANGED box /\ Quiet

Aside == UNCHANGED <<head, box, late, receipt, run, server>>

StartProof(a) == At(a, "proof") /\ EnterGate(a) /\ UNCHANGED <<at, faults>> /\ Aside

\* The caller, the supervisor or the gate goes on.
RunGate(a) == (GateStep(a) \/ ProcessStep(a)) /\ UNCHANGED <<at, faults>> /\ Aside

\* The gate is over: it passed the changeset, or it did not.  A cleanup that failed takes the
\* place of the cancellation that led to it.
Proof(a) ==
  /\ At(a, "proof") /\ In(a, "over")
  /\ IF at[a].stop = "cancelled" /\ gate[a].result = "interrupted" THEN To(a, "cancelled")
     ELSE at' = [at EXCEPT ![a].pc = "record", ![a].proof = gate[a].result,
                           ![a].bad = gate[a].result # "passed"]
  /\ UNCHANGED box /\ Quiet

-----------------------------------------------------------------------------
(* DockerSandboxRunner.run *)

\* _require_linux_engine and _stage_workspace: nothing exists yet.
Stage(a) == At(a, "stage") /\ To(a, "create") /\ UNCHANGED box /\ Quiet

Create(a) ==
  /\ At(a, "create") /\ box[a] = "none"
  /\ box' = [box EXCEPT ![a] = "created"]
  /\ To(a, IF Reports(a) THEN "start" ELSE "attach")
  /\ Quiet

\* Only with report files: the container sleeps and the command is a docker exec.
Start(a) ==
  /\ At(a, "start")
  /\ box' = [box EXCEPT ![a] = "running"] /\ To(a, "attach")
  /\ Quiet

\* The command ends, or runs into its time or output limit.
Attach(a) ==
  /\ At(a, "attach")
  /\ \/ /\ box' = [box EXCEPT ![a] = "running"] /\ To(a, "kill")
     \/ \E status \in {"zero", "nonzero"} :
          /\ IF Reports(a)
             THEN at' = [at EXCEPT ![a].pc = "export", ![a].bad = @ \/ status # "zero",
                                   ![a].passed = IF status = "zero" THEN @ \cup {at[a].check} ELSE @]
             ELSE at' = [at EXCEPT ![a].pc = "inspect",
                                   ![a].passed = IF status = "zero" THEN @ \cup {at[a].check} ELSE @]
          /\ box' = [box EXCEPT ![a] = IF Reports(a) THEN "running" ELSE status]
  /\ Quiet

\* _best_effort_kill; the check failed whatever comes of it.
Kill(a) ==
  /\ At(a, "kill")
  /\ box' \in {box, [box EXCEPT ![a] = "nonzero"]}
  /\ at' = [at EXCEPT ![a].pc = "rm", ![a].bad = TRUE]
  /\ Quiet

\* .State.ExitCode is 0 too for a container that is created or running.
Inspect(a) ==
  /\ At(a, "inspect")
  /\ at' = [at EXCEPT ![a].pc = "rm", ![a].bad = @ \/ box[a] = "nonzero"]
  /\ UNCHANGED box /\ Quiet

\* export_reports: a report that is missing, malformed or names a failed test fails the check.
Export(a) ==
  /\ At(a, "export")
  /\ \/ To(a, "rm")
     \/ at' = [at EXCEPT ![a].pc = "rm", ![a].bad = TRUE, ![a].passed = @ \ {at[a].check}]
  /\ UNCHANGED box /\ Quiet

-----------------------------------------------------------------------------
(* _remove_container, in finally: forced removal, absence, engine still there *)

\* Forced removal of a container that does not exist succeeds or fails by the engine's version.
RemoveContainer(a) ==
  /\ At(a, "rm")
  /\ box' = [box EXCEPT ![a] = "none"]
  /\ \/ To(a, "confirm")
     \/ box[a] = "none" /\ Raise(a, "record", "cleanup")
  /\ Quiet

\* What was on its way before the cleanup goes on after it: a cancellation, an error, or the
\* result.
GoOn(a, next) ==
  at' = [at EXCEPT ![a].pc = CASE at[a].stop = "cancelled" -> "cancelled"
                               [] at[a].stop = "error" -> "record"
                               [] OTHER -> "next",
                   ![a].check = IF at[a].stop = "no" THEN next ELSE @]

\* Faulty variant: a check that failed is run again.
RunAgain(a) ==
  /\ At(a, "confirm")
  /\ IF box[a] = "none" THEN GoOn(a, IF at[a].bad THEN at[a].check ELSE at[a].check + 1)
     ELSE Raise(a, "record", "cleanup")
  /\ UNCHANGED box /\ Quiet

\* No container of that name is listed, and the engine that said so is still the one.
Confirm(a) ==
  /\ At(a, "confirm")
  /\ IF box[a] = "none" THEN GoOn(a, at[a].check + 1) ELSE Raise(a, "record", "cleanup")
  /\ UNCHANGED box /\ Quiet

-----------------------------------------------------------------------------
(* record_verification *)

Sound(a) == ~at[a].bad /\ at[a].proof = "passed"

\* The receipt is written under the row lock of an active run.  The evidence of another
\* attempt is not this one's, as durations differ, except for a refused configuration and
\* for failures of the infrastructure, which may be equal.
Record(a) ==
  /\ At(a, "record")
  /\ IF run = "inactive" THEN To(a, "retry") /\ UNCHANGED receipt
     ELSE IF receipt.by = 0
     THEN /\ receipt' = [by |-> a, passed |-> Sound(a)]
          /\ To(a, IF Sound(a) THEN "mark" ELSE "failed")
     ELSE /\ UNCHANGED receipt
          /\ \/ Plan.error = "none" /\ To(a, "retry")
             \/ ~receipt.passed /\ at[a].stop # "no" /\ To(a, "failed")
  /\ UNCHANGED <<head, gate, box, late, run, server, faults>>

\* _mark_awaiting_approval.
Mark(a) ==
  /\ At(a, "mark")
  /\ IF run = "inactive" THEN To(a, "retry") /\ UNCHANGED run
                         ELSE To(a, "passed") /\ run' = "awaiting"
  /\ UNCHANGED <<head, gate, box, late, receipt, server, faults>>

Step(a) ==
  \/ Prepare(a) \/ NextCheck(a) \/ StartProof(a) \/ RunGate(a) \/ Proof(a) \/ Record(a) \/ Mark(a)
  \/ Stage(a) \/ Create(a) \/ Start(a) \/ Attach(a) \/ Kill(a) \/ Inspect(a)
  \/ Export(a) \/ RemoveContainer(a) \/ Confirm(a)

-----------------------------------------------------------------------------
(* What goes wrong with a call *)

\* The CLI is missing, the daemon refuses or cannot be reached, or the call takes too long.
\* run() raises, and removes the container once a creation was attempted.
CallFails(a) ==
  /\ Fault /\ Steady
  /\ \/ At(a, "stage") /\ Raise(a, "record", "error") /\ UNCHANGED <<box, late>>
     \/ At(a, "create") /\ Raise(a, "rm", "error") /\ late' \in {late, late \cup {a}} /\ UNCHANGED box
     \/ at[a].pc \in {"start", "attach", "kill", "inspect"} /\ Raise(a, "rm", "error")
        /\ UNCHANGED <<box, late>>
     \/ At(a, "confirm") /\ Raise(a, "record", "cleanup") /\ UNCHANGED <<box, late>>
     \/ At(a, "rm") /\ Raise(a, "record", "cleanup")
        /\ box' \in {box, [box EXCEPT ![a] = "none"]} /\ UNCHANGED late

\* The attached CLI exits by itself and the container has not ended, or not even started.
\* Its status is looked at with report files only.
LoseAttach(a) ==
  /\ At(a, "attach") /\ Fault
  /\ box' \in {box, [box EXCEPT ![a] = "running"]}
  /\ at' = IF Reports(a) THEN [at EXCEPT ![a].pc = "export", ![a].bad = TRUE]
           ELSE [at EXCEPT ![a].pc = "inspect", ![a].lost = @ \cup {at[a].check}]
  /\ Steady /\ UNCHANGED late

\* The daemon carries out, late, a creation whose call was cut off.
CreateLate(a) ==
  /\ a \in late /\ box[a] = "none" /\ late' = late \ {a}
  /\ box' = [box EXCEPT ![a] = "late"]
  /\ UNCHANGED <<head, gate, at, receipt, run, server, faults>>

KillSupervisor(a) == SupervisorDies(a) /\ Fault /\ UNCHANGED at /\ Aside

\* The database, the checkout or git fails the preparation, or the database fails before or
\* after the commit of a record; the attempt may be repeated.
ActivityFails(a) ==
  /\ at[a].pc \in {"begin", "record", "mark"} /\ Fault /\ To(a, "retry")
  /\ UNCHANGED <<head, gate, box, late, receipt, run, server>>

-----------------------------------------------------------------------------
(* Temporal, the run and the worker *)

\* Faulty variant: a cancellation reaches the cleanup as well.
CancelAnywhere(a) ==
  /\ Live(a) /\ Fault
  /\ To(a, "cancelled")
  /\ late' \in IF At(a, "create") THEN {late, late \cup {a}} ELSE {late}
  /\ UNCHANGED box /\ Steady

\* The current call is cut off; within the cleanup it is waited for.  A receipt on its way
\* in a thread is written all the same, as by an attempt that was given up.
Cancel(a) ==
  /\ Live(a) /\ Fault
  /\ \/ /\ at[a].pc \in InDocker /\ UNCHANGED gate
        /\ at' = [at EXCEPT ![a].stop = "cancelled",
                             ![a].pc = IF @ \in {"rm", "confirm"} THEN @ ELSE "rm"]
     \/ /\ At(a, "proof") /\ CancelGate(a)
        /\ at' = [at EXCEPT ![a].stop = "cancelled"]
     \/ /\ at[a].pc \notin InDocker /\ (At(a, "proof") => gate[a].pc \in {"none", "over"})
        /\ To(a, "cancelled") /\ UNCHANGED gate
  /\ late' \in IF At(a, "create") THEN {late, late \cup {a}} ELSE {late}
  /\ UNCHANGED <<head, box, receipt, run, server>>

StartAttempt ==
  /\ server.waits = 0 /\ server.verdict = "none"
  /\ \E a \in Attempts :
       /\ At(a, "absent") /\ \A b \in 1 .. a - 1 : ~At(b, "absent")
       /\ To(a, "begin") /\ server' = [server EXCEPT !.waits = a]
  /\ UNCHANGED <<head, gate, box, late, receipt, run, faults>>

\* An attempt that may be repeated is, until there are none left or the run is cancelled.
Unanswered(a) ==
  server' = [waits |-> 0, verdict |-> IF a = MaxAttempts \/ run = "inactive" THEN "failed" ELSE "none"]

Answer ==
  /\ server.waits # 0
  /\ LET a == server.waits IN
       \/ at[a].pc \in {"passed", "failed"} /\ server' = [waits |-> 0, verdict |-> at[a].pc]
       \/ at[a].pc \in {"retry", "cancelled", "dead"} /\ Unanswered(a)
  /\ UNCHANGED <<head, gate, at, box, late, receipt, run, faults>>

\* No heartbeat arrives: Temporal goes on without the attempt, which does not know.
Abandon ==
  /\ server.waits # 0 /\ Live(server.waits) /\ Fault
  /\ Unanswered(server.waits)
  /\ UNCHANGED <<head, gate, at, box, late, receipt, run>>

\* A push replaces the head, or the failed workflow records its terminal state.
Deactivate ==
  /\ run # "inactive"
  /\ \/ server.verdict = "failed" /\ UNCHANGED faults
     \/ Fault
  /\ run' = "inactive"
  /\ UNCHANGED <<head, gate, at, box, late, receipt, server>>

\* The worker dies with all its attempts; nobody looks for their containers afterwards.
Crash ==
  /\ Fault /\ \E a \in Attempts : Live(a)
  /\ at' = [a \in Attempts |-> IF Live(a) THEN [at[a] EXCEPT !.pc = "dead"] ELSE at[a]]
  /\ gate' = [a \in Attempts |-> Orphaned(gate[a])]
  /\ UNCHANGED <<head, box, late, receipt, run, server>>

-----------------------------------------------------------------------------
(* Specification *)

Init ==
  /\ head \in Heads
  /\ at = [a \in Attempts |-> Absent] /\ box = [a \in Attempts |-> "none"] /\ late = {}
  /\ gate = [a \in Attempts |-> NoGate]
  /\ receipt = NoReceipt /\ run = "verifying"
  /\ server = [waits |-> 0, verdict |-> "none"] /\ faults = 0

Next ==
  \/ StartAttempt \/ Answer \/ Abandon \/ Deactivate \/ Crash
  \/ \E a \in Attempts :
       Step(a) \/ CallFails(a) \/ LoseAttach(a) \/ CreateLate(a) \/ KillSupervisor(a)
       \/ ActivityFails(a) \/ Cancel(a)

Spec == Init /\ [][Next]_vars

\* Temporal and the attempts go on, in any order; every call of the CLI has a time limit.
Fairness == WF_vars(StartAttempt \/ Answer \/ \E a \in Attempts : Step(a))
FairSpec == Spec /\ Fairness

-----------------------------------------------------------------------------
(* Properties *)

Selected == {i \in DOMAIN Plan.checks : Plan.checks[i].selected}

\* Whichever paths the push changed, the plan runs a check when one of its filters
\* stands for one of them, ** for any number of segments, none included, and skips it
\* otherwise; and a push that touches the configuration cannot skip a check.
SelectionFollowsFilters ==
  (\A a \in Attempts : At(a, "absent")) /\ Plan.error = "none" =>
    \A path \in Paths \cup {ConfigFile} :
      LET checks == LoadPlan([head EXCEPT !.changed = {path}]).checks IN
      \A i \in DOMAIN checks :
        checks[i].selected <=>
          path = ConfigFile \/ \E pattern \in head.checks[i].paths : Covers(path, pattern)

\* A verification passes only on the evidence of one attempt: a valid configuration, every
\* selected check ended with status 0 and good reports, and the proof gate passed.  The run
\* waits for approval only then, the workflow goes on only when it does, and a refusal is
\* final only once it is recorded.  A check whose attached call failed before its container
\* ended is left out: see FailedCommandNeverPasses.
VerdictSound ==
  LET writer == at[receipt.by] IN
  /\ receipt.passed =>
       /\ Plan.error = "none" /\ Plan.checks # <<>> /\ writer.proof = "passed"
       /\ Selected \subseteq writer.passed \cup writer.lost
  /\ run = "awaiting" => receipt.passed
  /\ server.verdict = "passed" => receipt.passed /\ run # "verifying"
  /\ \A a \in Attempts : At(a, "failed") => receipt.by # 0 /\ ~receipt.passed

\* docs/architecture.md: a failed sandbox command can never advance to approval, and an
\* unreachable daemon fails closed.
FailedCommandNeverPasses == receipt.passed => Selected \subseteq at[receipt.by].passed

\* The container of a check is gone before its result counts, and before the attempt is
\* over however it ends, a cancellation in the cleanup included.  What may stay is the
\* container of a cleanup that failed, which fails the verification, of a creation whose
\* call was cut off and carried out later, and of a worker that died.  The processes of the
\* proof gate are gone before its verdict, too, and may stay only if their cleanup did not
\* see them go: its supervisor or the worker was killed, it forked the gate after the
\* cleanup began, five seconds were not enough, or a second interruption cut the cleanup off.
NothingLeftRunning ==
  /\ \A a \in Attempts :
       /\ at[a].pc \in {"next", "proof", "record", "mark", "passed", "failed", "retry", "cancelled"}
       /\ box[a] # "none"
       => at[a].stop = "cleanup" \/ (box[a] = "late" /\ at[a].stop # "no")
  /\ \A a \in Attempts : at[a].stop = "cleanup" => ~(receipt.passed /\ receipt.by = a)
  /\ \A a \in Attempts : In(a, "over") /\ ~gate[a].failed => ~LeftRunning(a)
  /\ receipt.passed => box[receipt.by] = "none" /\ ~LeftRunning(receipt.by)

\* However calls fail and attempts are cancelled or lost, the stage gets a verdict, and no
\* attempt stays at work.
VerificationEnds ==
  <>[](server.verdict # "none" /\ \A a \in Attempts : ~Live(a))
=============================================================================
