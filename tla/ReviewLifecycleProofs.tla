----------------------- MODULE ReviewLifecycleProofs -----------------------
(***************************************************************************)
(* Proofs about ReviewLifecycle for any number of generations, heads,      *)
(* dispatchers, attempts and disturbances.                                 *)
(*                                                                         *)
(* The inductive invariant says what an attempt of an activity, awaited or *)
(* abandoned, relies on: the run has come at least as far as the step the  *)
(* attempt is in (JobOK), which holds because no step of the system ever   *)
(* takes a run back (Later).                                               *)
(*                                                                         *)
(* Two more invariants, for executions whose terminal record is written:   *)
(* OneRunInv says which runs may be worked on or have a review, HeldInv    *)
(* who answers for a run whose start was accepted.                         *)
(***************************************************************************)
EXTENDS ReviewLifecycle, TLAPS

\* The run has reached the active state of rank n, or is over.
AtLeast(s, n) ==
  \/ s \in Terminal
  \/ s \in Contract!ActiveStates /\ StateRank[s] >= n

StepsOf ==
  [checks |-> {"remote"}, select_context |-> {"load", "record"},
   analyze |-> {"load", "record"}, verify |-> {"load", "record", "mark"},
   publish |-> {"prepare", "submit"}, record_terminal |-> {"commit"}]

\* How far the run of attempt j has come.
MinRank(j) ==
  CASE j.act = "select_context" -> IF j.step \in {"record", "ok"} THEN 1 ELSE 0
    [] j.act = "analyze" -> IF j.step \in {"record", "ok"} THEN 2 ELSE 1
    [] j.act = "verify" -> IF j.step = "ok" THEN 4
                           ELSE IF j.step \in {"record", "mark"} THEN 3 ELSE 2
    [] j.act = "publish" -> 4
    [] j.act = "record_terminal" -> IF j.outcome \in {"published", "rejected"} THEN 4 ELSE 0
    [] OTHER -> 0

\* What attempt j may rely on about r, the record of its run.
JobOK(j, r) ==
  /\ j.step \in StepsOf[j.act] \cup Results
  /\ AtLeast(r.state, MinRank(j))
  /\ j.act = "publish" => r.decision = "approve"
  /\ j.act = "publish" /\ j.step = "ok" => r.reviewed
  /\ j.act = "record_terminal" =>
       /\ j.outcome # "none"
       /\ j.outcome = "published" => r.reviewed

\* What a step may make of r, the record of a run that exists.
Later(r, s) ==
  /\ s.state = r.state \/ s.state \in Contract!Allowed(r.state)
  /\ s.state = "published" => r.state = "published" \/ s.reviewed
  /\ r.reviewed => s.reviewed
  /\ r.decision # "none" => s.decision = r.decision
  /\ r.receipt # "none" => s.receipt # "none"

\* A receipt is given in order, and only a run that exists is dispatched or
\* decided.
RunsOK ==
  /\ \A g \in Gens : run[g].receipt # "none" => Created(g)
  /\ \A g \in Gens : run[g].decision # "none" => Created(g)
  /\ ReceiptsInOrder
  /\ PublishedMeansReviewed

\* A dispatcher acts on a command only when the earlier ones have a receipt.
CommandOK(command, runs) ==
  command.pc # "idle" =>
    /\ command.gen \in Gens
    /\ runs[command.gen].state # Contract!Absent
    /\ \A p \in Gens : p < command.gen => runs[p].receipt # "none"

DispatchersOK == \A d \in Dispatchers : CommandOK(disp[d], run)

ZombiesOK == \A j \in zombies : JobOK(j, run[j.gen])

JobOf(w) == [gen |-> w.gen, act |-> w.pc, step |-> w.step, outcome |-> w.outcome]

\* What execution w, the signals it holds included, relies on about the runs.
ExecutionOK(w, runs) ==
  /\ w \in Execution
  /\ w.pc # "closed" => w.gen \in Gens /\ runs[w.gen].state # Contract!Absent
  /\ w.pc \in Activities => JobOK(JobOf(w), runs[w.gen])
  /\ w.pc \notin Activities => w.step = "idle"
  /\ w.pc = "await" => AtLeast(runs[w.gen].state, 4)
  /\ w.outcome = "rejected" => w.pc # "closed" /\ runs[w.gen].decision = "reject"
  /\ w.supersede > 0 => runs[w.supersede].state # Contract!Absent
  /\ w.pc \notin {"closed", "starting"} => w.supersede = 0 \/ w.supersede > w.gen
  /\ w.approval # NoApproval =>
       /\ w.approval.gen \in Gens
       /\ runs[w.approval.gen].state # Contract!Absent
       /\ runs[w.approval.gen].decision = IF w.approval.approved THEN "approve" ELSE "reject"
       /\ w.pc # "starting" => w.approval.gen = w.gen

IInv == TypeOK /\ RunsOK /\ DispatchersOK /\ ZombiesOK /\ ExecutionOK(wf, run)

-----------------------------------------------------------------------------
(* Runs only move forward *)

Job ==
  [gen : Gens, act : Activities, step : Steps \cup Results, outcome : Outcomes \cup {"none"}]

\* A step that Later allows takes no run back behind a rank it has reached.
LEMMA LaterKeepsRank ==
  ASSUME NEW r \in RunRecord, NEW s \in RunRecord, Later(r, s), NEW n \in 0 .. 4,
         AtLeast(r.state, n)
  PROVE  AtLeast(s.state, n)
  BY SMT DEF Later, AtLeast, StateRank, RunRecord, Terminal, Contract!Allowed, Contract!Successors,
         Contract!ActiveStates, Contract!TerminalStates, Contract!RunState

LEMMA MinRankType ==
  ASSUME NEW j \in Job
  PROVE  MinRank(j) \in 0 .. 4
  BY DEF MinRank, Job, Activities, Stages

\* What an attempt relies on stays true when its run moves forward.
LEMMA JobStable ==
  ASSUME NEW j \in Job, NEW r \in RunRecord, NEW s \in RunRecord,
         JobOK(j, r), Later(r, s)
  PROVE  JobOK(j, s)
  <1>1. AtLeast(s.state, MinRank(j))
    BY LaterKeepsRank, MinRankType DEF JobOK
  <1> QED
    BY <1>1 DEF JobOK, Later, RunRecord

-----------------------------------------------------------------------------
(* The transactions of an activity attempt *)

\* The postcondition of a transaction of attempt j, on the record of its run.
Advanced(j, next) ==
  /\ run' \in [Gens -> RunRecord]
  /\ \A g \in Gens \ {j.gen} : run'[g] = run[g]
  /\ Later(run[j.gen], run'[j.gen])
  /\ run'[j.gen].receipt = run[j.gen].receipt
  /\ JobOK([j EXCEPT !.step = next], run'[j.gen])

\* The attempt that may load an active run is one of a stage.
LEMMA StepOfAct ==
  ASSUME NEW j \in Job, NEW r \in RunRecord, JobOK(j, r)
  PROVE  /\ j.step = "load" => j.act \in Stages
         /\ j.step = "record" => j.act \in Stages
         /\ j.step = "mark" => j.act = "verify"
         /\ j.step \in {"prepare", "submit"} => j.act = "publish"
         /\ j.step = "commit" => j.act = "record_terminal"
         /\ j.step = "remote" => j.act = "checks"
  BY DEF JobOK, Job, StepsOf, Activities, Stages, Steps, Results

\* The attempt goes on to its step next with what it relies on there.
LEMMA NextStepOK ==
  ASSUME NEW j \in Job, NEW r \in RunRecord, JobOK(j, r),
         NEW next \in Steps \cup Results,
         next \in StepsOf[j.act] \cup Results,
         AtLeast(r.state, MinRank([j EXCEPT !.step = next])),
         j.act = "publish" /\ next = "ok" => r.reviewed
  PROVE  JobOK([j EXCEPT !.step = next], r)
  BY DEF JobOK, Job

\* An attempt that fails relies on less than before.
LEMMA FailedStepOK ==
  ASSUME NEW j \in Job, NEW r \in RunRecord, JobOK(j, r),
         NEW next \in {"error", "fatal"}
  PROVE  JobOK([j EXCEPT !.step = next], r)
  <1> DEFINE k == [j EXCEPT !.step = next]
  <1>1. k \in Job
    BY DEF Job, Results
  <1>2. MinRank(k) <= MinRank(j)
    BY DEF MinRank, Job, Activities, Stages
  <1>3. AtLeast(r.state, MinRank(k))
    BY <1>1, <1>2, MinRankType DEF JobOK, AtLeast, StateRank, Contract!ActiveStates
  <1> QED
    BY <1>1, <1>3 DEF JobOK, Job, Results

LEMMA KeepAdvances ==
  ASSUME run \in [Gens -> RunRecord], NEW j \in Job, NEW next, UNCHANGED run,
         JobOK([j EXCEPT !.step = next], run[j.gen])
  PROVE  Advanced(j, next)
  BY DEF Advanced, Later, Job

LEMMA ChangeAdvances ==
  ASSUME run \in [Gens -> RunRecord], NEW j \in Job, NEW next, NEW s \in RunRecord,
         run' = [run EXCEPT ![j.gen] = s],
         Later(run[j.gen], s), s.receipt = run[j.gen].receipt,
         JobOK([j EXCEPT !.step = next], s)
  PROVE  Advanced(j, next)
  BY DEF Advanced, Job

LEMMA LoadAdvances ==
  ASSUME run \in [Gens -> RunRecord], NEW j \in Job, JobOK(j, run[j.gen]),
         NEW next \in Steps \cup Results, LoadActiveRun(j, next)
  PROVE  Advanced(j, next)
  <1> DEFINE r == run[j.gen]
             target == TargetState[j.act]
             s == [r EXCEPT !.state = IF StateRank[r.state] > StateRank[target]
                                      THEN r.state ELSE target]
  <1>1. r \in RunRecord /\ j.gen \in Gens
    BY DEF Job
  <1>2. j.act \in Stages
    BY <1>1, StepOfAct DEF LoadActiveRun
  <1>3. CASE next = "error" /\ UNCHANGED run
    BY <1>1, <1>3, FailedStepOK, KeepAdvances
  <1>4. CASE ~(next = "error" /\ UNCHANGED run)
    <2>1. /\ run' = [run EXCEPT ![j.gen] = s]
          /\ next \in {"ok", "record"}
          /\ j.act = "verify" => next = "record"
          /\ ~IsTerminal(j.gen)
      BY <1>1, <1>4 DEF LoadActiveRun, AfterLoad
    <2>2. r.state \in Contract!ActiveStates /\ StateRank[r.state] >= MinRank(j)
      BY <2>1 DEF JobOK, AtLeast, IsTerminal
    <2>3. /\ s.state \in Contract!ActiveStates
          /\ StateRank[s.state] >= StateRank[target]
          /\ s.state = r.state \/ s.state \in Contract!Allowed(r.state)
      BY <1>1, <1>2, <2>2 DEF LoadActiveRun, MinRank, Job, Stages, StateRank, TargetState, RunRecord,
         Contract!ActiveStates, Contract!Allowed, Contract!Successors
    <2>4. s \in RunRecord
      BY <1>1, <2>3 DEF RunRecord, Contract!RunState
    <2>5. Later(r, s) /\ s.receipt = r.receipt
      BY <1>1, <2>3 DEF Later, RunRecord, Contract!ActiveStates
    <2>6. JobOK(j, s)
      BY <1>1, <2>4, <2>5, JobStable
    <2>7. MinRank([j EXCEPT !.step = next]) = StateRank[target]
      BY <1>2, <2>1 DEF MinRank, Job, Stages, StateRank, TargetState
    <2>8. AtLeast(s.state, MinRank([j EXCEPT !.step = next]))
      BY <2>3, <2>7 DEF AtLeast
    <2>9. next \in StepsOf[j.act] \cup Results /\ j.act # "publish"
      BY <1>2, <2>1 DEF StepsOf, Stages, Results
    <2>10. JobOK([j EXCEPT !.step = next], s)
      <3> HIDE DEF s
      <3> QED
        BY <2>4, <2>6, <2>8, <2>9, NextStepOK
    <2> QED
      BY <2>1, <2>4, <2>5, <2>10, ChangeAdvances
  <1> QED
    BY <1>3, <1>4

LEMMA RecordAdvances ==
  ASSUME run \in [Gens -> RunRecord], NEW j \in Job, JobOK(j, run[j.gen]),
         NEW next \in Steps \cup Results,
         RecordStage(j, next) \/ RecordVerification(j, next)
  PROVE  Advanced(j, next)
  <1> DEFINE r == run[j.gen]
  <1>1. r \in RunRecord /\ j.gen \in Gens
    BY DEF Job
  <1>2. j.step = "record" /\ j.act \in Stages
    BY <1>1, StepOfAct DEF RecordStage, RecordVerification
  <1>3. CASE next \in {"error", "fatal"} /\ UNCHANGED run
    BY <1>1, <1>3, FailedStepOK, KeepAdvances
  <1>4. CASE ~(next \in {"error", "fatal"} /\ UNCHANGED run)
    <2>1. PICK x \in {"select_context", "analyze", "passed", "failed"} :
            /\ run' = [run EXCEPT ![j.gen].recorded = @ \cup {x}]
            /\ next \in {"ok", "error", "mark", "fatal"}
            /\ next = "ok" => j.act # "verify"
            /\ next = "mark" => j.act = "verify"
      BY <1>1, <1>2, <1>4 DEF RecordStage, RecordVerification, Stages
    <2> DEFINE s == [r EXCEPT !.recorded = @ \cup {x}]
    <2>2. s \in RunRecord /\ run' = [run EXCEPT ![j.gen] = s]
      BY <1>1, <2>1 DEF RunRecord
    <2>3. Later(r, s) /\ s.receipt = r.receipt
      BY <1>1 DEF Later, RunRecord
    <2> HIDE DEF s
    <2>4. JobOK(j, s)
      BY <1>1, <2>2, <2>3, JobStable
    <2>5. CASE next \in {"error", "fatal"}
      BY <2>2, <2>3, <2>4, <2>5, FailedStepOK, ChangeAdvances
    <2>6. CASE next \in {"ok", "mark"}
      <3>1. MinRank([j EXCEPT !.step = next]) = MinRank(j)
        BY <1>2, <2>1, <2>6 DEF MinRank, Job, Stages
      <3>2. next \in StepsOf[j.act] \cup Results /\ j.act # "publish"
        BY <1>2, <2>1, <2>6 DEF StepsOf, Stages, Results
      <3>3. AtLeast(s.state, MinRank([j EXCEPT !.step = next]))
        BY <2>4, <3>1 DEF JobOK
      <3>4. JobOK([j EXCEPT !.step = next], s)
        BY <2>2, <2>4, <3>2, <3>3, NextStepOK
      <3> QED
        BY <2>2, <2>3, <3>4, ChangeAdvances
    <2> QED
      BY <2>1, <2>5, <2>6
  <1> QED
    BY <1>3, <1>4

LEMMA MarkAdvances ==
  ASSUME run \in [Gens -> RunRecord], NEW j \in Job, JobOK(j, run[j.gen]),
         NEW next \in Steps \cup Results, MarkAwaitingApproval(j, next)
  PROVE  Advanced(j, next)
  <1> DEFINE r == run[j.gen]
             s == [r EXCEPT !.state = "awaiting_approval"]
  <1>1. r \in RunRecord /\ j.gen \in Gens
    BY DEF Job
  <1>2. j.step = "mark" /\ j.act = "verify"
    BY <1>1, StepOfAct DEF MarkAwaitingApproval
  <1>3. CASE next = "error" /\ UNCHANGED run
    BY <1>1, <1>3, FailedStepOK, KeepAdvances
  <1>4. CASE ~(next = "error" /\ UNCHANGED run)
    <2>1. /\ run' = [run EXCEPT ![j.gen] = s]
          /\ next = "ok"
          /\ r.state \in {"verifying", "awaiting_approval"}
      BY <1>1, <1>4 DEF MarkAwaitingApproval
    <2>2. s \in RunRecord
      BY <1>1 DEF RunRecord, Contract!RunState, Contract!ActiveStates
    <2>3. Later(r, s) /\ s.receipt = r.receipt
      BY <1>1, <2>1 DEF Later, RunRecord, Contract!Allowed, Contract!Successors, Contract!ActiveStates
    <2>4. JobOK(j, s)
      BY <1>1, <2>2, <2>3, JobStable
    <2>5. AtLeast(s.state, MinRank([j EXCEPT !.step = next]))
      BY <1>1, <1>2, <2>1 DEF AtLeast, MinRank, Job, StateRank, Contract!ActiveStates, RunRecord
    <2>6. next \in StepsOf[j.act] \cup Results /\ j.act # "publish"
      BY <1>2, <2>1 DEF Results
    <2>7. JobOK([j EXCEPT !.step = next], s)
      <3> HIDE DEF s
      <3> QED
        BY <2>2, <2>4, <2>5, <2>6, NextStepOK
    <2> QED
      BY <2>1, <2>2, <2>3, <2>7, ChangeAdvances
  <1> QED
    BY <1>3, <1>4

LEMMA PublishAdvances ==
  ASSUME run \in [Gens -> RunRecord], NEW j \in Job, JobOK(j, run[j.gen]),
         NEW next \in Steps \cup Results,
         PreparePublish(j, next) \/ SubmitReview(j, next)
  PROVE  Advanced(j, next)
  <1> DEFINE r == run[j.gen]
             s == [r EXCEPT !.reviewed = TRUE]
  <1>1. r \in RunRecord /\ j.gen \in Gens
    BY DEF Job
  <1>2. j.act = "publish"
    BY <1>1, StepOfAct DEF PreparePublish, SubmitReview
  <1>3. CASE next = "fatal" /\ UNCHANGED run
    BY <1>1, <1>3, FailedStepOK, KeepAdvances
  <1>4. CASE next \in {"ok", "submit"} /\ UNCHANGED run /\ (next = "ok" => r.reviewed)
    <2>1. AtLeast(r.state, MinRank([j EXCEPT !.step = next]))
      BY <1>1, <1>2 DEF JobOK, MinRank, Job
    <2>2. next \in StepsOf[j.act] \cup Results
      BY <1>2, <1>4 DEF StepsOf, Results
    <2>3. JobOK([j EXCEPT !.step = next], r)
      BY <1>1, <1>4, <2>1, <2>2, NextStepOK
    <2> QED
      BY <1>4, <2>3, KeepAdvances
  <1>5. CASE next = "ok" /\ run' = [run EXCEPT ![j.gen] = s]
    <2>1. s \in RunRecord
      BY <1>1 DEF RunRecord
    <2>2. Later(r, s) /\ s.receipt = r.receipt /\ s.reviewed
      BY <1>1 DEF Later, RunRecord
    <2> HIDE DEF s
    <2>3. JobOK(j, s)
      BY <1>1, <2>1, <2>2, JobStable
    <2>4. AtLeast(s.state, MinRank([j EXCEPT !.step = next]))
      BY <1>2, <2>3 DEF JobOK, MinRank, Job
    <2>5. JobOK([j EXCEPT !.step = next], s)
      BY <1>5, <2>1, <2>2, <2>3, <2>4, NextStepOK DEF Results
    <2> QED
      BY <1>5, <2>1, <2>2, <2>5, ChangeAdvances
  <1> QED
    BY <1>1, <1>3, <1>4, <1>5 DEF PreparePublish, SubmitReview

LEMMA TerminalAdvances ==
  ASSUME run \in [Gens -> RunRecord], NEW j \in Job, JobOK(j, run[j.gen]),
         NEW next \in Steps \cup Results, RecordTerminal(j, next)
  PROVE  Advanced(j, next)
  <1> DEFINE r == run[j.gen]
             s == [r EXCEPT !.state = TerminalState(j.outcome)]
  <1>1. r \in RunRecord /\ j.gen \in Gens
    BY DEF Job
  <1>2. j.step = "commit" /\ j.act = "record_terminal"
    BY <1>1, StepOfAct DEF RecordTerminal
  <1>3. CASE next = "error" /\ UNCHANGED run
    BY <1>1, <1>3, FailedStepOK, KeepAdvances
  <1>4. CASE ~(next = "error" /\ UNCHANGED run)
    <2>1. /\ run' = [run EXCEPT ![j.gen] = s]
          /\ next = "ok"
          /\ r.state \in Terminal => r.state = TerminalState(j.outcome)
      BY <1>1, <1>4 DEF RecordTerminal, IsTerminal
    <2>2. /\ TerminalState(j.outcome) \in Terminal
          /\ TerminalState(j.outcome) \in {"published", "rejected"} => MinRank(j) = 4
          /\ TerminalState(j.outcome) = "published" => r.reviewed
      BY <1>2 DEF TerminalState, Terminal, Contract!TerminalStates, JobOK, Job, Outcomes, MinRank
    <2>3. s \in RunRecord /\ s.state = TerminalState(j.outcome)
      BY <1>1, <2>2 DEF RunRecord, Terminal, Contract!RunState
    <2>4. \/ s.state = r.state
          \/ r.state \in Contract!ActiveStates /\ StateRank[r.state] >= MinRank(j)
      BY <2>1, <2>3 DEF JobOK, AtLeast
    <2>5. s.state = r.state \/ s.state \in Contract!Allowed(r.state)
      BY <1>1, <2>2, <2>3, <2>4 DEF Contract!Allowed, Contract!Successors, Contract!ActiveStates,
         StateRank, Terminal, Contract!TerminalStates
    <2>6. Later(r, s) /\ s.receipt = r.receipt
      BY <1>1, <2>2, <2>3, <2>5 DEF Later, RunRecord
    <2>7. JobOK(j, s)
      BY <1>1, <2>3, <2>6, JobStable
    <2> HIDE DEF s
    <2>8. AtLeast(s.state, MinRank([j EXCEPT !.step = next]))
      BY <1>2, <2>2, <2>3 DEF AtLeast
    <2>9. JobOK([j EXCEPT !.step = next], s)
      BY <1>2, <2>1, <2>3, <2>7, <2>8, NextStepOK DEF Results
    <2> QED
      BY <2>1, <2>3, <2>6, <2>9, ChangeAdvances
  <1> QED
    BY <1>3, <1>4

LEMMA TransactAdvances ==
  ASSUME run \in [Gens -> RunRecord], NEW j \in Job, JobOK(j, run[j.gen]),
         NEW next \in Steps \cup Results, Transact(j, next)
  PROVE  Advanced(j, next)
  <1>1. CASE UpdateChecks(j, next)
    <2>1. j.act = "checks"
      BY <1>1, StepOfAct DEF UpdateChecks, Job
    <2>2. JobOK([j EXCEPT !.step = next], run[j.gen])
      BY <1>1, <2>1, NextStepOK DEF UpdateChecks, JobOK, MinRank, Job, Results
    <2> QED
      BY <1>1, <2>2, KeepAdvances DEF UpdateChecks
  <1> QED
    BY <1>1, LoadAdvances, RecordAdvances, MarkAdvances, PublishAdvances, TerminalAdvances
    DEF Transact

-----------------------------------------------------------------------------
(* The functions of the workflow *)

LEMMA AttemptIsJob ==
  ASSUME NEW runs \in [Gens -> RunRecord], NEW w, ExecutionOK(w, runs), w.pc \in Activities
  PROVE  /\ w.gen \in Gens
         /\ JobOf(w) \in Job
         /\ JobOK(JobOf(w), runs[w.gen])
         /\ w.pc \notin {"closed", "starting", "await", "wrapup"}
  <1>1. w.pc \notin {"closed", "starting", "await", "wrapup"}
    BY DEF Activities, Stages
  <1>2. w \in Execution /\ w.gen \in Gens /\ JobOK(JobOf(w), runs[w.gen])
    BY <1>1 DEF ExecutionOK
  <1>3. w.step \in Steps \cup Results
    BY <1>2 DEF JobOK, JobOf, StepsOf, Activities, Stages, Steps
  <1> QED
    BY <1>1, <1>2, <1>3 DEF Job, JobOf, Execution

\* What an execution relies on stays true when the runs move forward.
LEMMA ExecutionStable ==
  ASSUME NEW runs \in [Gens -> RunRecord], NEW later \in [Gens -> RunRecord],
         \A g \in Gens : runs[g].state # Contract!Absent => Later(runs[g], later[g]),
         NEW w, ExecutionOK(w, runs)
  PROVE  ExecutionOK(w, later)
  <1> USE DEF ExecutionOK
  <1>1. ASSUME NEW g \in Gens, runs[g].state # Contract!Absent
        PROVE  /\ later[g].state # Contract!Absent
               /\ runs[g].decision # "none" => later[g].decision = runs[g].decision
               /\ AtLeast(runs[g].state, 4) => AtLeast(later[g].state, 4)
    <2>1. runs[g] \in RunRecord /\ later[g] \in RunRecord /\ Later(runs[g], later[g])
      BY <1>1
    <2>2. later[g].state # Contract!Absent
      BY <1>1, <2>1 DEF Later, Contract!Allowed, Contract!Successors, Contract!ActiveStates, Contract!Absent
    <2>3. AtLeast(runs[g].state, 4) => AtLeast(later[g].state, 4)
      BY <2>1, LaterKeepsRank
    <2> QED
      BY <2>1, <2>2, <2>3 DEF Later
  <1>2. w.pc \in Activities => JobOK(JobOf(w), later[w.gen])
    BY AttemptIsJob, JobStable
  <1>3. w.supersede > 0 => w.supersede \in Gens
    BY DEF Execution, Gens
  <1>4. w.pc = "await" => AtLeast(later[w.gen].state, 4)
    BY <1>1
  <1>5. w.outcome = "rejected" => later[w.gen].decision = "reject"
    BY <1>1
  <1>6. w.approval # NoApproval =>
          /\ later[w.approval.gen].state # Contract!Absent
          /\ later[w.approval.gen].decision = IF w.approval.approved THEN "approve" ELSE "reject"
    BY <1>1
  <1> QED
    BY <1>1, <1>2, <1>3, <1>4, <1>5, <1>6

LEMMA AttemptsStartAtZero == 0 \in 0 .. MaxAttempts - 1
  BY LifecycleAssumption

LEMMA EnterOK ==
  ASSUME NEW runs \in [Gens -> RunRecord], NEW w, ExecutionOK(w, runs),
         w.pc \notin {"closed", "starting"},
         NEW pc \in Activities \cup {"await", "wrapup"},
         pc \in Activities =>
           JobOK([gen |-> w.gen, act |-> pc, step |-> FirstStep(pc), outcome |-> w.outcome],
                 runs[w.gen]),
         pc = "await" => AtLeast(runs[w.gen].state, 4)
  PROVE  ExecutionOK(Enter(w, pc), runs)
  <1> DEFINE v == Enter(w, pc)
  <1>1. FirstStep(pc) \in Steps \cup {"idle"} /\ (pc \notin Activities => FirstStep(pc) = "idle")
    BY DEF FirstStep, Steps, Activities, Stages
  <1>2. /\ w \in Execution
        /\ v = [w EXCEPT !.pc = pc, !.attempts = 0, !.step = FirstStep(pc)]
    BY DEF Enter, ExecutionOK
  <1>3. v \in Execution
    BY <1>1, <1>2, AttemptsStartAtZero DEF Execution
  <1>4. /\ v.pc = pc /\ v.step = FirstStep(pc) /\ v.gen = w.gen /\ v.outcome = w.outcome
        /\ v.supersede = w.supersede /\ v.approval = w.approval
    BY <1>2 DEF Execution
  <1>5. JobOf(v) = [gen |-> w.gen, act |-> pc, step |-> FirstStep(pc), outcome |-> w.outcome]
    BY <1>4 DEF JobOf
  <1>6. pc \notin {"closed", "starting"}
    BY DEF Activities, Stages
  <1>7. ExecutionOK(v, runs)
    <2> HIDE DEF v
    <2> QED
      BY <1>1, <1>3, <1>4, <1>5, <1>6 DEF ExecutionOK
  <1> QED
    BY <1>7

LEMMA FinishOK ==
  ASSUME NEW runs \in [Gens -> RunRecord], NEW w, ExecutionOK(w, runs),
         w.pc \notin {"closed", "starting"},
         NEW outcome \in Outcomes, NEW guarded \in BOOLEAN,
         outcome \in {"published", "rejected"} => AtLeast(runs[w.gen].state, 4),
         outcome = "published" => runs[w.gen].reviewed,
         outcome = "rejected" => runs[w.gen].decision = "reject"
  PROVE  ExecutionOK(Finish(w, outcome, guarded), runs)
  <1> DEFINE v == Finish(w, outcome, guarded)
             r == runs[w.gen]
  <1>1. /\ w \in Execution /\ w.gen \in Gens /\ r.state # Contract!Absent /\ r \in RunRecord
        /\ v = [w EXCEPT !.pc = "record_terminal", !.attempts = 0, !.step = "commit",
                         !.outcome = outcome, !.guarded = guarded]
    BY DEF Finish, Enter, FirstStep, ExecutionOK, Stages, Execution
  <1>2. v \in Execution
    BY <1>1, AttemptsStartAtZero DEF Execution, Activities, Steps
  <1>3. /\ v.pc = "record_terminal" /\ v.step = "commit" /\ v.gen = w.gen /\ v.outcome = outcome
        /\ v.supersede = w.supersede /\ v.approval = w.approval
    BY <1>1 DEF Execution
  <1>4. AtLeast(r.state, MinRank(JobOf(v)))
    BY <1>1, <1>3 DEF AtLeast, MinRank, JobOf, RunRecord, Contract!RunState, Terminal,
       StateRank, Contract!ActiveStates
  <1>5. JobOK(JobOf(v), r)
    BY <1>3, <1>4 DEF JobOK, JobOf, StepsOf, Outcomes
  <1>6. ExecutionOK(v, runs)
    <2> HIDE DEF v
    <2> QED
      BY <1>1, <1>2, <1>3, <1>5 DEF ExecutionOK, Activities
  <1> QED
    BY <1>6

LEMMA IdleType == Idle \in Execution
  <1>1. /\ 0 \in 0 .. MaxGen
        /\ NoApproval \in [gen : 0 .. MaxGen, approved : BOOLEAN]
    BY LifecycleAssumption DEF NoApproval
  <1> QED
    BY <1>1, AttemptsStartAtZero DEF Idle, Execution

LEMMA ClosedOK ==
  ASSUME NEW runs \in [Gens -> RunRecord], NEW w \in Execution
  PROVE  /\ ExecutionOK(ClosedExecution(w), runs)
         /\ ClosedExecution(w).pc = "closed"
  <1> DEFINE v == ClosedExecution(w)
  <1>1. /\ v \in Execution /\ v.pc = "closed" /\ v.step = "idle" /\ v.outcome = "none"
        /\ v.supersede = 0 /\ v.approval = NoApproval
    BY IdleType DEF ClosedExecution, Idle, Execution
  <1>2. ExecutionOK(v, runs)
    <2> HIDE DEF v
    <2> QED
      BY <1>1 DEF ExecutionOK, Activities, Stages
  <1> QED
    BY <1>1, <1>2

LEMMA StartingOK ==
  ASSUME NEW runs \in [Gens -> RunRecord], NEW g \in Gens, runs[g].state # Contract!Absent,
         NEW pending \in {0, g}
  PROVE  /\ ExecutionOK(Starting(g, pending), runs)
         /\ Starting(g, pending).gen = g
  <1> DEFINE v == Starting(g, pending)
  <1>1. g \in 0 .. MaxGen /\ pending \in 0 .. MaxGen
    BY LifecycleAssumption DEF Gens
  <1>2. /\ v \in Execution /\ v.pc = "starting" /\ v.step = "idle" /\ v.outcome = "none"
        /\ v.gen = g /\ v.supersede = pending /\ v.approval = NoApproval
    BY <1>1, IdleType DEF Starting, Idle, Execution
  <1>3. ExecutionOK(v, runs)
    <2> HIDE DEF v
    <2> QED
      BY <1>2 DEF ExecutionOK, Activities, Stages
  <1> QED
    BY <1>2, <1>3

LEMMA AfterSuccessOK ==
  ASSUME NEW runs \in [Gens -> RunRecord], NEW w, ExecutionOK(w, runs), w.step = "ok"
  PROVE  ExecutionOK(AfterSuccess(w), runs) /\ AfterSuccess(w).gen = w.gen
  <1>1. w \in Execution /\ w.pc \in Activities
    BY DEF ExecutionOK
  <1>2. /\ w.gen \in Gens /\ JobOK(JobOf(w), runs[w.gen])
        /\ w.pc \notin {"closed", "starting", "await", "wrapup"}
    BY <1>1, AttemptIsJob
  <1>3. \A outcome, guarded : Finish(w, outcome, guarded).gen = w.gen
    BY <1>1 DEF Finish, Enter, Execution
  <1>4. \A pc : Enter(w, pc).gen = w.gen
    BY <1>1 DEF Enter, Execution
  <1>5. CASE w.pc \in Stages /\ Interrupted(w)
    <2>1. ExecutionOK(Finish(w, "cancelled", TRUE), runs)
      BY <1>2, FinishOK DEF Outcomes
    <2> QED
      BY <1>3, <1>5, <2>1 DEF AfterSuccess, Stages
  <1>6. CASE w.pc = "checks" \/ (w.pc \in Stages /\ ~Interrupted(w))
    <2> DEFINE pc == NextStage[w.pc]
    <2>1. AfterSuccess(w) = Enter(w, pc)
      BY <1>6 DEF AfterSuccess, Stages
    <2>2. pc \in Activities \cup {"await", "wrapup"}
      BY <1>6 DEF NextStage, Activities, Stages
    <2>3. AtLeast(runs[w.gen].state, MinRank(JobOf(w)))
      BY <1>2 DEF JobOK
    <2>4. pc = "await" => AtLeast(runs[w.gen].state, 4)
      BY <1>6, <2>3 DEF NextStage, Stages, MinRank, JobOf
    <2>5. pc \in Activities =>
            JobOK([gen |-> w.gen, act |-> pc, step |-> FirstStep(pc), outcome |-> w.outcome],
                  runs[w.gen])
      BY <1>6, <2>3 DEF NextStage, Stages, Activities, MinRank, JobOf, JobOK, StepsOf, FirstStep
    <2>6. ExecutionOK(Enter(w, pc), runs)
      BY <1>2, <2>2, <2>4, <2>5, EnterOK
    <2> QED
      BY <1>4, <2>1, <2>6
  <1>7. CASE w.pc = "publish"
    <2>1. AfterSuccess(w) = Finish(w, "published", FALSE)
      BY <1>7 DEF AfterSuccess, Stages
    <2>2. AtLeast(runs[w.gen].state, 4) /\ runs[w.gen].reviewed
      BY <1>2, <1>7 DEF JobOK, JobOf, MinRank
    <2>3. ExecutionOK(Finish(w, "published", FALSE), runs)
      BY <1>2, <2>2, FinishOK DEF Outcomes
    <2> QED
      BY <1>3, <2>1, <2>3
  <1>8. CASE w.pc = "record_terminal"
    <2>1. AfterSuccess(w) = Enter(w, "wrapup")
      BY <1>8 DEF AfterSuccess, Stages
    <2>2. ExecutionOK(Enter(w, "wrapup"), runs)
      BY <1>2, EnterOK DEF Activities, Stages
    <2> QED
      BY <1>4, <2>1, <2>2
  <1>9. w.pc \in Stages \/ w.pc = "checks" \/ w.pc = "publish" \/ w.pc = "record_terminal"
    BY <1>1 DEF Activities
  <1> QED
    BY <1>5, <1>6, <1>7, <1>8, <1>9

LEMMA AfterErrorOK ==
  ASSUME NEW runs \in [Gens -> RunRecord], NEW w, ExecutionOK(w, runs), w.pc \in Activities
  PROVE  /\ ExecutionOK(AfterActivityError(w), runs)
         /\ AfterActivityError(w).gen = w.gen
  <1>1. /\ w \in Execution
        /\ w.pc \notin {"closed", "starting", "await", "wrapup"}
    BY AttemptIsJob DEF ExecutionOK
  <1>2. ASSUME NEW outcome \in {"cancelled", "failed"}, NEW guarded \in BOOLEAN
        PROVE  /\ ExecutionOK(Finish(w, outcome, guarded), runs)
               /\ Finish(w, outcome, guarded).gen = w.gen
    <2>1. ExecutionOK(Finish(w, outcome, guarded), runs)
      BY <1>1, FinishOK DEF Outcomes
    <2> QED
      BY <1>1, <2>1 DEF Finish, Enter, Execution
  <1>3. ExecutionOK(ClosedExecution(w), runs) /\ ClosedExecution(w).gen = w.gen
    BY <1>1, ClosedOK DEF ClosedExecution, Idle
  <1>4. AfterActivityError(w) \in
          {Finish(w, "cancelled", TRUE), ClosedExecution(w), Finish(w, "failed", FALSE)}
    BY DEF AfterActivityError
  <1>5. /\ ExecutionOK(Finish(w, "cancelled", TRUE), runs)
        /\ Finish(w, "cancelled", TRUE).gen = w.gen
    BY <1>2
  <1>6. /\ ExecutionOK(Finish(w, "failed", FALSE), runs)
        /\ Finish(w, "failed", FALSE).gen = w.gen
    BY <1>2
  <1> QED
    BY <1>3, <1>4, <1>5, <1>6

\* A further attempt starts with less than the failed one relied on.
LEMMA AfterAttemptOK ==
  ASSUME NEW runs \in [Gens -> RunRecord], NEW w, ExecutionOK(w, runs), w.pc \in Activities,
         NEW retryable \in BOOLEAN
  PROVE  /\ ExecutionOK(AfterAttempt(w, retryable), runs)
         /\ AfterAttempt(w, retryable).gen = w.gen
  <1> DEFINE v == [w EXCEPT !.attempts = @ + 1, !.step = FirstStep(w.pc)]
             r == runs[w.gen]
  <1>1. /\ w \in Execution /\ w.gen \in Gens /\ JobOf(w) \in Job /\ JobOK(JobOf(w), r)
        /\ w.pc \notin {"closed", "starting", "await", "wrapup"} /\ r \in RunRecord
    BY AttemptIsJob DEF ExecutionOK
  <1>2. CASE retryable /\ w.attempts + 1 < MaxAttempts
    <2>1. FirstStep(w.pc) \in Steps /\ FirstStep(w.pc) \in StepsOf[w.pc]
      BY DEF FirstStep, Steps, StepsOf, Activities, Stages
    <2>2. w.attempts + 1 \in 0 .. MaxAttempts - 1
      BY <1>1, <1>2, LifecycleAssumption DEF Execution
    <2>3. v \in Execution
      BY <1>1, <2>1, <2>2 DEF Execution
    <2>4. /\ v.pc = w.pc /\ v.step = FirstStep(w.pc) /\ v.gen = w.gen /\ v.outcome = w.outcome
          /\ v.supersede = w.supersede /\ v.approval = w.approval
      BY <1>1 DEF Execution
    <2> HIDE DEF v
    <2>5. MinRank(JobOf(v)) <= MinRank(JobOf(w))
      BY <2>4 DEF MinRank, JobOf, FirstStep, Activities, Stages
    <2>6. MinRank(JobOf(v)) \in 0 .. 4 /\ MinRank(JobOf(w)) \in 0 .. 4
      BY <1>1, MinRankType, <2>4 DEF MinRank, JobOf
    <2>7. AtLeast(r.state, MinRank(JobOf(v)))
      BY <1>1, <2>5, <2>6 DEF JobOK, AtLeast, StateRank, Contract!ActiveStates
    <2>8. JobOK(JobOf(v), r)
      BY <1>1, <2>1, <2>4, <2>7 DEF JobOK, JobOf, FirstStep, Stages
    <2>9. ExecutionOK(v, runs)
      BY <1>1, <2>3, <2>4, <2>8 DEF ExecutionOK
    <2>10. AfterAttempt(w, retryable) = v
      BY <1>2 DEF AfterAttempt, v
    <2> QED
      BY <2>4, <2>9, <2>10
  <1>3. CASE ~(retryable /\ w.attempts + 1 < MaxAttempts)
    BY <1>3, AfterErrorOK DEF AfterAttempt
  <1> QED
    BY <1>2, <1>3

LEMMA SupersededOK ==
  ASSUME NEW runs \in [Gens -> RunRecord], NEW w, ExecutionOK(w, runs),
         NEW g \in Gens, runs[g].state # Contract!Absent
  PROVE  ExecutionOK(Superseded(w, g), runs) /\ Superseded(w, g).gen = w.gen
  <1> DEFINE v == [w EXCEPT !.supersede = g]
  <1>1. CASE Superseded(w, g) = w
    BY <1>1
  <1>2. CASE Superseded(w, g) # w
    <2>1. /\ Superseded(w, g) = v
          /\ w.pc # "starting" => g > w.gen
      BY <1>2 DEF Superseded
    <2>2. w \in Execution /\ g \in 0 .. MaxGen
      BY LifecycleAssumption DEF Gens, ExecutionOK
    <2>3. /\ v \in Execution
          /\ v.pc = w.pc /\ v.step = w.step /\ v.gen = w.gen /\ v.outcome = w.outcome
          /\ v.supersede = g /\ v.approval = w.approval
      BY <2>2 DEF Execution
    <2>4. JobOf(v) = JobOf(w)
      BY <2>3 DEF JobOf
    <2>5. ExecutionOK(v, runs)
      <3> HIDE DEF v
      <3> QED
        BY <2>1, <2>3, <2>4 DEF ExecutionOK
    <2> QED
      BY <2>1, <2>3, <2>5
  <1> QED
    BY <1>1, <1>2

LEMMA ApprovedOK ==
  ASSUME NEW runs \in [Gens -> RunRecord], NEW w, ExecutionOK(w, runs),
         NEW g \in Gens, runs[g].state # Contract!Absent,
         runs[g].decision \in {"approve", "reject"}
  PROVE  /\ ExecutionOK(Approved(w, g, runs[g].decision = "approve"), runs)
         /\ Approved(w, g, runs[g].decision = "approve").gen = w.gen
  <1> DEFINE a == [gen |-> g, approved |-> runs[g].decision = "approve"]
             v == [w EXCEPT !.approval = a]
  <1>1. CASE w.pc = "starting" \/ w.gen = g
    <2>1. w \in Execution /\ g \in 0 .. MaxGen
      BY LifecycleAssumption DEF Gens, ExecutionOK
    <2>2. a \in [gen : 0 .. MaxGen, approved : BOOLEAN] /\ a.gen = g
      BY <2>1
    <2>3. runs[g].decision = IF a.approved THEN "approve" ELSE "reject"
      OBVIOUS
    <2> HIDE DEF a
    <2>4. /\ v \in Execution
          /\ v.pc = w.pc /\ v.step = w.step /\ v.gen = w.gen /\ v.outcome = w.outcome
          /\ v.supersede = w.supersede /\ v.approval = a
      BY <2>1, <2>2 DEF Execution
    <2>5. JobOf(v) = JobOf(w)
      BY <2>4 DEF JobOf
    <2>6. ExecutionOK(v, runs)
      <3> HIDE DEF v
      <3> QED
        BY <1>1, <2>2, <2>3, <2>4, <2>5 DEF ExecutionOK
    <2>7. Approved(w, g, runs[g].decision = "approve") = v
      BY <1>1 DEF Approved, a
    <2> QED
      BY <2>4, <2>6, <2>7
  <1>2. CASE ~(w.pc = "starting" \/ w.gen = g)
    BY <1>2 DEF Approved
  <1> QED
    BY <1>1, <1>2

-----------------------------------------------------------------------------
(* What every step has in common *)

\* At most one run changes: it moves forward, or it is created.
RunsForward ==
  /\ run' \in [Gens -> RunRecord]
  /\ \A g, n \in Gens : g # n => run'[g] = run[g] \/ run'[n] = run[n]
  /\ \A g \in Gens : Created(g) => Later(run[g], run'[g])
  /\ \A g \in Gens : ~Created(g) =>
       /\ run'[g].state \in {Contract!Absent, "queued"}
       /\ run'[g].receipt = "none" /\ run'[g].decision = "none"

\* A receipt is given to the command a dispatcher holds.
ReceiptsGrow ==
  \A g \in Gens : run'[g].receipt # "none" =>
    run[g].receipt # "none" \/ \E d \in Dispatchers : disp[d].pc # "idle" /\ disp[d].gen = g

ExecutionAdvances ==
  wf.pc # "closed" /\ wf'.pc # "closed" =>
    \/ wf'.gen > wf.gen
    \/ wf'.gen = wf.gen /\ (wf'.pc = "starting" => wf.pc = "starting")

StepOK == IInv' /\ RunsForward /\ ExecutionAdvances

LEMMA LaterIsCreated ==
  ASSUME NEW r \in RunRecord, NEW s \in RunRecord, r.state # Contract!Absent, Later(r, s)
  PROVE  s.state # Contract!Absent
  BY DEF Later, Contract!Allowed, Contract!Successors, Contract!ActiveStates, Contract!Absent

LEMMA ZombieIsJob ==
  ASSUME TypeOK, NEW j \in zombies
  PROVE  j \in Job /\ j.step \in Steps /\ j.act # "checks"
  BY DEF TypeOK, AbandonedAttempt, Job

LEMMA JobRunExists ==
  ASSUME NEW j, NEW r \in RunRecord, JobOK(j, r)
  PROVE  r.state # Contract!Absent
  BY DEF JobOK, AtLeast, Contract!Absent, Terminal, Contract!TerminalStates, Contract!ActiveStates

\* When the runs only move forward, all that is said of them stays true.
LEMMA RunsStable ==
  ASSUME IInv, RunsForward, ReceiptsGrow
  PROVE  /\ RunsOK'
         /\ \A d \in Dispatchers : CommandOK(disp[d], run')
         /\ \A j \in zombies : JobOK(j, run'[j.gen])
         /\ ExecutionOK(wf, run')
  <1> USE DEF IInv
  <1>1. run \in [Gens -> RunRecord] /\ run' \in [Gens -> RunRecord]
    BY DEF TypeOK, RunsForward
  <1>2. \A g \in Gens : Created(g) =>
          run'[g].state # Contract!Absent /\ (run[g].receipt # "none" => run'[g].receipt # "none")
    BY <1>1, LaterIsCreated DEF RunsForward, Created, Later
  <1>3. \A d \in Dispatchers : CommandOK(disp[d], run')
    BY <1>2 DEF DispatchersOK, CommandOK, RunsOK, Created
  <1>4. \A j \in zombies : JobOK(j, run'[j.gen])
    <2> SUFFICES ASSUME NEW j \in zombies PROVE JobOK(j, run'[j.gen])
      OBVIOUS
    <2>1. j \in Job /\ j.gen \in Gens /\ JobOK(j, run[j.gen])
      BY ZombieIsJob DEF ZombiesOK, Job
    <2>2. Later(run[j.gen], run'[j.gen])
      BY <1>1, <2>1, JobRunExists DEF RunsForward, Created
    <2> QED
      BY <1>1, <2>1, <2>2, JobStable
  <1>5. ExecutionOK(wf, run')
    BY <1>1, ExecutionStable DEF RunsForward, Created
  <1>6. \A g \in Gens : run'[g].receipt # "none" => run'[g].state # Contract!Absent
    BY <1>2 DEF ReceiptsGrow, RunsOK, DispatchersOK, CommandOK, Created
  <1>9. \A g \in Gens : run'[g].decision # "none" => run'[g].state # Contract!Absent
    BY <1>2 DEF RunsForward
  <1>7. ASSUME NEW g \in Gens, NEW q \in Gens, q < g, run'[g].receipt # "none"
        PROVE  run'[q].receipt # "none"
    <2>1. run[q].receipt # "none"
      BY <1>7 DEF ReceiptsGrow, RunsOK, ReceiptsInOrder, DispatchersOK, CommandOK
    <2> QED
      BY <1>2, <2>1 DEF RunsOK
  <1>8. \A g \in Gens : run'[g].state = "published" => run'[g].reviewed
    BY <1>1 DEF RunsForward, RunsOK, PublishedMeansReviewed, Later, Created, Contract!Absent
  <1> QED
    BY <1>3, <1>4, <1>5, <1>6, <1>7, <1>8, <1>9
    DEF RunsOK, ReceiptsInOrder, PublishedMeansReviewed, Created

LEMMA SameRuns ==
  ASSUME IInv, UNCHANGED run
  PROVE  RunsForward /\ ReceiptsGrow
  BY DEF IInv, TypeOK, RunsOK, RunsForward, ReceiptsGrow, Later, Created

\* A change of the record of one existing run that is no new receipt.
LEMMA OneRunForward ==
  ASSUME IInv, NEW g \in Gens, Created(g),
         run' \in [Gens -> RunRecord], \A n \in Gens \ {g} : run'[n] = run[n],
         Later(run[g], run'[g])
  PROVE  RunsForward
  BY DEF IInv, TypeOK, RunsOK, RunsForward, Created, Later

\* The parts of a step put together.
LEMMA StepParts ==
  ASSUME IInv, RunsForward, ReceiptsGrow,
         head' \in Heads, open' \in BOOLEAN, policy' \in BOOLEAN,
         disturbed' \in 0 .. MaxDisturbances,
         disp' \in [Dispatchers -> [pc : {"idle", "selected", "sent"}, gen : 0 .. MaxGen]],
         \A d \in Dispatchers : CommandOK(disp'[d], run'),
         zombies' \subseteq AbandonedAttempt,
         \A j \in zombies' : JobOK(j, run'[j.gen]),
         ExecutionOK(wf', run'),
         ExecutionAdvances
  PROVE  StepOK
  <1>1. RunsOK'
    BY RunsStable
  <1>2. TypeOK'
    BY DEF TypeOK, RunsForward, ExecutionOK
  <1>3. DispatchersOK' /\ ZombiesOK'
    BY DEF DispatchersOK, ZombiesOK
  <1>4. ExecutionOK(wf, run)'
    BY DEF ExecutionOK, JobOK, JobOf, AtLeast
  <1> QED
    BY <1>1, <1>2, <1>3, <1>4 DEF StepOK, IInv

\* A signal changes what an execution is told, not where it is.
LEMMA SignalsKeepPc ==
  ASSUME NEW w \in Execution, NEW g, NEW approved
  PROVE  Superseded(w, g).pc = w.pc /\ Approved(w, g, approved).pc = w.pc
  BY DEF Superseded, Approved, Execution

\* Only the end of an execution starts another one.
LEMMA FinishedIsNotStarting ==
  ASSUME NEW w \in Execution
  PROVE  /\ \A pc : Enter(w, pc).pc = pc
         /\ \A outcome : /\ Finish(w, outcome, TRUE).pc = "record_terminal"
                         /\ Finish(w, outcome, FALSE).pc = "record_terminal"
         /\ ClosedExecution(w).pc = "closed"
  BY DEF Enter, Finish, ClosedExecution, Idle, Execution

LEMMA ActivityIsNotStarting ==
  ASSUME NEW w \in Execution, w.pc \in Activities
  PROVE  /\ AfterSuccess(w).pc # "starting"
         /\ \A retryable \in BOOLEAN : AfterAttempt(w, retryable).pc # "starting"
  <1>1. AfterSuccess(w).pc # "starting"
    <2>1. CASE w.pc \in {"publish", "record_terminal"}
      BY <2>1, FinishedIsNotStarting DEF AfterSuccess, Stages
    <2>2. CASE w.pc \in Stages /\ Interrupted(w)
      BY <2>2, FinishedIsNotStarting DEF AfterSuccess, Stages
    <2>3. CASE w.pc = "checks" \/ (w.pc \in Stages /\ ~Interrupted(w))
      <3>1. AfterSuccess(w) = Enter(w, NextStage[w.pc])
        BY <2>3 DEF AfterSuccess, Stages
      <3>2. NextStage[w.pc] # "starting"
        BY <2>3 DEF NextStage, Stages
      <3> QED
        BY <3>1, <3>2, FinishedIsNotStarting
    <2> QED
      BY <2>1, <2>2, <2>3 DEF Activities, Stages
  <1>2. AfterActivityError(w).pc # "starting"
    <2>1. CASE w.pc \in Stages /\ Interrupted(w)
      BY <2>1, FinishedIsNotStarting DEF AfterActivityError
    <2>2. CASE w.pc = "record_terminal" /\ ~w.guarded
      BY <2>2, FinishedIsNotStarting DEF AfterActivityError, Stages
    <2>3. CASE /\ ~(w.pc \in Stages /\ Interrupted(w))
               /\ ~(w.pc = "record_terminal" /\ ~w.guarded)
      BY <2>3, FinishedIsNotStarting DEF AfterActivityError
    <2> QED
      BY <2>1, <2>2, <2>3
  <1>3. ASSUME NEW retryable \in BOOLEAN
        PROVE  AfterAttempt(w, retryable).pc # "starting"
    <2>1. [w EXCEPT !.attempts = @ + 1, !.step = FirstStep(w.pc)].pc # "starting"
      BY DEF Execution, Activities, Stages
    <2> QED
      BY <1>2, <2>1 DEF AfterAttempt
  <1> QED
    BY <1>1, <1>3

LEMMA DisturbType ==
  ASSUME TypeOK, NEW kind, Disturb(kind)
  PROVE  disturbed' \in 0 .. MaxDisturbances
  BY LifecycleAssumption DEF TypeOK, Disturb

-----------------------------------------------------------------------------
(* The steps *)

LEMMA InsertForward ==
  ASSUME IInv, NEW h \in Heads, InsertRun(h)
  PROVE  RunsForward /\ ReceiptsGrow
  <1>1. run \in [Gens -> RunRecord]
    BY DEF IInv, TypeOK
  <1>2. PICK g \in Gens : /\ ~Created(g)
                          /\ run' = [run EXCEPT ![g] = [NoRun(h) EXCEPT !.state = "queued"]]
    BY DEF InsertRun
  <1>3. run'[g] \in RunRecord /\ run'[g].state = "queued" /\ run'[g].receipt = "none"
        /\ run'[g].decision = "none"
    BY <1>1, <1>2 DEF NoRun, RunRecord, Contract!RunState, Contract!ActiveStates
  <1>4. run' \in [Gens -> RunRecord] /\ \A n \in Gens \ {g} : run'[n] = run[n]
    BY <1>1, <1>2, <1>3
  <1>5. \A n \in Gens : ~Created(n) => /\ run[n].receipt = "none" /\ run[n].decision = "none"
                                     /\ run[n].state = Contract!Absent
    BY DEF IInv, RunsOK, Created
  <1> QED
    BY <1>1, <1>2, <1>3, <1>4, <1>5 DEF RunsForward, ReceiptsGrow, Later

LEMMA IntakeStep ==
  ASSUME IInv, Intake
  PROVE  StepOK
  <1>1. RunsForward /\ ReceiptsGrow
    <2>1. head \in Heads
      BY DEF IInv, TypeOK
    <2>2. (\E h \in Heads : InsertRun(h)) \/ UNCHANGED run
      BY <2>1 DEF Intake, ReceivePush, ReceiveReopened, ReceiveClosed, ReceiveRerun, ChangePolicy, CreateRun
    <2> QED
      BY <2>2, InsertForward, SameRuns
  <1>2. /\ head' \in Heads /\ open' \in BOOLEAN /\ policy' \in BOOLEAN
        /\ disturbed' \in 0 .. MaxDisturbances
        /\ UNCHANGED <<disp, wf, zombies>>
    BY DisturbType DEF IInv, TypeOK, Intake, ReceivePush, ReceiveReopened, ReceiveClosed,
       ReceiveRerun, ChangePolicy
  <1>3. /\ \A d \in Dispatchers : CommandOK(disp[d], run')
        /\ \A j \in zombies : JobOK(j, run'[j.gen])
        /\ ExecutionOK(wf, run')
    BY <1>1, RunsStable
  <1>4. ExecutionAdvances
    BY <1>2 DEF ExecutionAdvances, IInv, TypeOK, Execution
  <1> QED
    BY <1>1, <1>2, <1>3, <1>4, StepParts DEF IInv, TypeOK

LEMMA DecideStep ==
  ASSUME IInv, NEW g \in Gens, NEW decision \in {"approve", "reject"}, Decide(g, decision)
  PROVE  StepOK
  <1> DEFINE s == [run[g] EXCEPT !.decision = decision]
  <1>1. run \in [Gens -> RunRecord] /\ run[g] \in RunRecord
    BY DEF IInv, TypeOK
  <1>2. /\ run[g].state = "awaiting_approval" /\ run[g].decision = "none"
        /\ run' = [run EXCEPT ![g] = s]
        /\ UNCHANGED <<head, open, policy, disp, wf, zombies, disturbed>>
    BY <1>1 DEF Decide
  <1>3. s \in RunRecord /\ Later(run[g], s) /\ s.receipt = run[g].receipt
    BY <1>1, <1>2 DEF RunRecord, Later
  <1>4. RunsForward /\ ReceiptsGrow
    <2> HIDE DEF s
    <2>1. Created(g)
      BY <1>2 DEF Created, Contract!Absent
    <2>2. run' \in [Gens -> RunRecord] /\ run'[g] = s /\ \A n \in Gens \ {g} : run'[n] = run[n]
      BY <1>1, <1>2, <1>3
    <2> QED
      BY <1>3, <2>1, <2>2, OneRunForward DEF ReceiptsGrow
  <1>5. /\ \A d \in Dispatchers : CommandOK(disp[d], run')
        /\ \A j \in zombies : JobOK(j, run'[j.gen])
        /\ ExecutionOK(wf, run')
    BY <1>4, RunsStable
  <1>6. ExecutionAdvances
    BY <1>2 DEF ExecutionAdvances, IInv, TypeOK, Execution
  <1> QED
    BY <1>2, <1>4, <1>5, <1>6, StepParts DEF IInv, TypeOK

LEMMA ApprovalStep ==
  ASSUME IInv, NEW g \in Gens, DispatchApproval(g)
  PROVE  StepOK
  <1>1. /\ run \in [Gens -> RunRecord] /\ run[g] \in RunRecord /\ wf \in Execution
        /\ disturbed \in 0 .. MaxDisturbances
    BY DEF IInv, TypeOK
  <1>2. /\ Created(g) /\ run[g].decision \in {"approve", "reject"}
        /\ UNCHANGED <<head, open, policy, disp, zombies>>
    BY <1>1 DEF DispatchApproval, IInv, RunsOK, RunRecord
  <1>3. \/ UNCHANGED run
        \/ \E n \in {"accepted", "skipped"} : run' = [run EXCEPT ![g].notice = n]
    BY DEF DispatchApproval
  <1>4. RunsForward /\ ReceiptsGrow
    <2>1. CASE UNCHANGED run
      BY <2>1, SameRuns
    <2>2. ASSUME NEW n \in {"accepted", "skipped"}, run' = [run EXCEPT ![g].notice = n]
          PROVE  RunsForward /\ ReceiptsGrow
      <3>1. /\ run' \in [Gens -> RunRecord] /\ \A k \in Gens \ {g} : run'[k] = run[k]
            /\ Later(run[g], run'[g]) /\ run'[g].receipt = run[g].receipt
        BY <1>1, <2>2 DEF RunRecord, Later
      <3> QED
        BY <1>2, <3>1, OneRunForward DEF ReceiptsGrow
    <2> QED
      BY <1>3, <2>1, <2>2
  <1>5. /\ \A d \in Dispatchers : CommandOK(disp[d], run')
        /\ \A j \in zombies : JobOK(j, run'[j.gen])
        /\ ExecutionOK(wf, run')
    BY <1>4, RunsStable
  <1>6. wf' = wf \/ wf' = Approved(wf, g, run[g].decision = "approve")
    BY DEF DispatchApproval
  <1>7. ExecutionOK(wf', run') /\ wf'.gen = wf.gen
    <2>1. /\ run'[g].decision = run[g].decision /\ run'[g].state # Contract!Absent
          /\ run' \in [Gens -> RunRecord]
      BY <1>1, <1>2, <1>4, LaterIsCreated DEF RunsForward, Later, Created
    <2>2. /\ ExecutionOK(Approved(wf, g, run'[g].decision = "approve"), run')
          /\ Approved(wf, g, run'[g].decision = "approve").gen = wf.gen
      BY <1>2, <1>5, <2>1, ApprovedOK
    <2> QED
      BY <1>5, <1>6, <2>1, <2>2
  <1>8. disturbed' \in 0 .. MaxDisturbances
    BY <1>1, DisturbType DEF DispatchApproval, IInv
  <1>9. ExecutionAdvances
    <2>1. wf'.pc = wf.pc
      BY <1>1, <1>6, SignalsKeepPc DEF Approved, Execution
    <2> QED
      BY <1>7, <2>1 DEF ExecutionAdvances
  <1> QED
    BY <1>2, <1>4, <1>5, <1>7, <1>8, <1>9, StepParts DEF IInv, TypeOK

LEMMA SelectStep ==
  ASSUME IInv, NEW d \in Dispatchers, SelectCommand(d)
  PROVE  StepOK
  <1>1. PICK g \in Gens :
          /\ Created(g) /\ \A q \in 1 .. g - 1 : run[q].receipt # "none"
          /\ disp' = [disp EXCEPT ![d] = [pc |-> "selected", gen |-> g]]
          /\ UNCHANGED <<head, open, policy, run, wf, zombies, disturbed>>
    BY DEF SelectCommand
  <1>2. /\ RunsForward /\ ReceiptsGrow
        /\ \A j \in zombies : JobOK(j, run'[j.gen])
        /\ ExecutionOK(wf, run')
        /\ \A e \in Dispatchers : CommandOK(disp[e], run')
    BY <1>1, SameRuns, RunsStable
  <1>3. \A q \in Gens : q < g => q \in 1 .. g - 1
    BY LifecycleAssumption DEF Gens
  <1>4. CommandOK([pc |-> "selected", gen |-> g], run')
    BY <1>1, <1>3 DEF CommandOK, Created
  <1>5. g \in 0 .. MaxGen
    BY LifecycleAssumption DEF Gens
  <1>6. /\ disp' \in [Dispatchers -> [pc : {"idle", "selected", "sent"}, gen : 0 .. MaxGen]]
        /\ \A e \in Dispatchers : CommandOK(disp'[e], run')
    BY <1>1, <1>2, <1>4, <1>5 DEF IInv, TypeOK
  <1>7. ExecutionAdvances
    BY <1>1 DEF ExecutionAdvances, IInv, TypeOK, Execution
  <1> QED
    BY <1>1, <1>2, <1>6, <1>7, StepParts DEF IInv, TypeOK

\* A dispatcher that gives its command the receipt status, or none.
LEMMA ReceiptForward ==
  ASSUME IInv, NEW d \in Dispatchers, disp[d].pc # "idle",
         NEW status \in {"accepted", "skipped"},
         NEW state, state = run[disp[d].gen].state
                    \/ (run[disp[d].gen].state = "queued" /\ state = "cancelled"),
         run' = [run EXCEPT ![disp[d].gen] = [Receipted(@, status) EXCEPT !.state = state]]
  PROVE  RunsForward /\ ReceiptsGrow
  <1> DEFINE g == disp[d].gen
             s == [Receipted(run[g], status) EXCEPT !.state = state]
  <1>1. g \in Gens /\ Created(g) /\ run \in [Gens -> RunRecord] /\ run[g] \in RunRecord
    BY DEF IInv, TypeOK, DispatchersOK, CommandOK, Created
  <1>2. s \in RunRecord /\ Later(run[g], s)
    BY <1>1 DEF Receipted, RunRecord, Later, Contract!Allowed, Contract!Successors,
       Contract!ActiveStates, Contract!RunState, Contract!TerminalStates
  <1>3. run' = [run EXCEPT ![g] = s]
    BY <1>1
  <1> HIDE DEF s
  <1>4. run' \in [Gens -> RunRecord] /\ run'[g] = s /\ \A n \in Gens \ {g} : run'[n] = run[n]
    BY <1>1, <1>2, <1>3
  <1> QED
    BY <1>1, <1>2, <1>4, OneRunForward DEF ReceiptsGrow

\* What a dispatcher may do to the runs, the execution and itself.
LEMMA DispatchEffect ==
  ASSUME IInv, NEW d \in Dispatchers,
         DispatchCommand(d) \/ InsertReceipt(d) \/ DispatcherFails(d)
  PROVE  /\ disp[d].pc # "idle"
         /\ UNCHANGED <<head, open, policy, zombies>>
         /\ disturbed' \in 0 .. MaxDisturbances
         /\ \/ disp' = [disp EXCEPT ![d] = IdleDispatcher]
            \/ disp' = [disp EXCEPT ![d].pc = "sent"]
         /\ \/ UNCHANGED wf
            \/ UNCHANGED run /\ wf' = Superseded(wf, disp[d].gen)
            \/ UNCHANGED run /\ wf.pc = "closed" /\ wf' = Starting(disp[d].gen, disp[d].gen)
         /\ RunsForward /\ ReceiptsGrow
  <1>1. /\ disp[d].pc # "idle" /\ UNCHANGED <<head, open, policy, zombies>>
        /\ disturbed' \in 0 .. MaxDisturbances
    BY DisturbType DEF DispatchCommand, InsertReceipt, DispatcherFails, IInv, TypeOK
  <1> DEFINE g == disp[d].gen
  <1>2. run \in [Gens -> RunRecord] /\ g \in Gens /\ run[g] \in RunRecord
    BY <1>1 DEF IInv, TypeOK, DispatchersOK, CommandOK
  <1>3. CASE DispatchCommand(d) /\ SkipTerminal(d, g)
    <2>1. run' = [run EXCEPT ![g] = [Receipted(@, "skipped") EXCEPT !.state = run[g].state]]
      BY <1>2, <1>3 DEF SkipTerminal, Receipted, RunRecord
    <2>2. RunsForward /\ ReceiptsGrow
      BY <1>1, <2>1, ReceiptForward
    <2> QED
      BY <1>1, <1>3, <2>2 DEF SkipTerminal
  <1>4. CASE DispatchCommand(d) /\ SkipBlocked(d, g)
    <2> DEFINE state == IF run[g].state = "queued" THEN "cancelled" ELSE run[g].state
    <2>1. run' = [run EXCEPT ![g] = [Receipted(@, "skipped") EXCEPT !.state = state]]
      BY <1>4 DEF SkipBlocked
    <2>2. RunsForward /\ ReceiptsGrow
      BY <1>1, <2>1, ReceiptForward
    <2> QED
      BY <1>1, <1>4, <2>2 DEF SkipBlocked
  <1>5. CASE InsertReceipt(d)
    <2>1. run' = [run EXCEPT ![g] = [Receipted(@, "accepted") EXCEPT !.state = run[g].state]]
      BY <1>2, <1>5 DEF InsertReceipt, Receipted, RunRecord
    <2>2. RunsForward /\ ReceiptsGrow
      BY <1>1, <2>1, ReceiptForward
    <2> QED
      BY <1>1, <1>5, <2>2 DEF InsertReceipt
  <1>6. CASE \/ DispatchCommand(d) /\ (SkipLocked(d, g) \/ SignalWithStart(d, g))
             \/ DispatcherFails(d)
    <2>1. UNCHANGED run
      BY <1>6 DEF SkipLocked, SignalWithStart, DispatcherFails
    <2>2. RunsForward /\ ReceiptsGrow
      BY <2>1, SameRuns
    <2> QED
      BY <1>1, <1>6, <2>1, <2>2 DEF SkipLocked, SignalWithStart, DispatcherFails
  <1>7. DispatchCommand(d) => \/ SkipTerminal(d, g) \/ SkipBlocked(d, g)
                              \/ SkipLocked(d, g) \/ SignalWithStart(d, g)
    BY DEF DispatchCommand
  <1> QED
    BY <1>3, <1>4, <1>5, <1>6, <1>7

LEMMA DispatcherStep ==
  ASSUME IInv, NEW d \in Dispatchers,
         DispatchCommand(d) \/ InsertReceipt(d) \/ DispatcherFails(d)
  PROVE  StepOK
  <1> DEFINE g == disp[d].gen
  <1>1. /\ run \in [Gens -> RunRecord] /\ wf \in Execution /\ ExecutionOK(wf, run)
        /\ disp \in [Dispatchers -> [pc : {"idle", "selected", "sent"}, gen : 0 .. MaxGen]]
    BY DEF IInv, TypeOK
  <1>2. disp[d].pc # "idle" /\ RunsForward /\ ReceiptsGrow
    BY DispatchEffect
  <1>3. g \in Gens /\ run[g].state # Contract!Absent
    BY <1>2 DEF IInv, DispatchersOK, CommandOK
  <1>4. /\ \A e \in Dispatchers : CommandOK(disp[e], run')
        /\ \A j \in zombies : JobOK(j, run'[j.gen])
        /\ ExecutionOK(wf, run')
    BY <1>2, RunsStable
  <1>5. /\ disp' \in [Dispatchers -> [pc : {"idle", "selected", "sent"}, gen : 0 .. MaxGen]]
        /\ \A e \in Dispatchers : CommandOK(disp'[e], run')
    <2>1. CASE disp' = [disp EXCEPT ![d] = IdleDispatcher]
      BY <1>1, <1>4, <2>1, LifecycleAssumption DEF IdleDispatcher, CommandOK
    <2>2. CASE disp' = [disp EXCEPT ![d].pc = "sent"]
      BY <1>1, <1>2, <1>4, <2>2 DEF CommandOK
    <2> QED
      BY <2>1, <2>2, DispatchEffect
  <1>6. ExecutionOK(wf', run') /\ ExecutionAdvances
    <2>1. CASE UNCHANGED wf
      BY <1>1, <1>4, <2>1 DEF ExecutionAdvances, Execution
    <2>2. CASE UNCHANGED run /\ wf' = Superseded(wf, g)
      <3>1. ExecutionOK(Superseded(wf, g), run) /\ Superseded(wf, g).gen = wf.gen
        BY <1>1, <1>3, SupersededOK
      <3>2. Superseded(wf, g).pc = wf.pc
        BY <1>1, SignalsKeepPc
      <3> QED
        BY <2>2, <3>1, <3>2 DEF ExecutionAdvances
    <2>3. CASE UNCHANGED run /\ wf.pc = "closed" /\ wf' = Starting(g, g)
      <3>1. ExecutionOK(Starting(g, g), run)
        BY <1>1, <1>3, StartingOK
      <3> QED
        BY <2>3, <3>1 DEF ExecutionAdvances
    <2> QED
      BY <2>1, <2>2, <2>3, DispatchEffect
  <1>7. /\ UNCHANGED <<head, open, policy, zombies>>
        /\ disturbed' \in 0 .. MaxDisturbances
    BY DispatchEffect
  <1> QED
    BY <1>2, <1>4, <1>5, <1>6, <1>7, StepParts DEF IInv, TypeOK

LEMMA WorkerStepOK ==
  ASSUME IInv, WorkerStep
  PROVE  StepOK
  <1> DEFINE j == Attempt
  <1>1. /\ run \in [Gens -> RunRecord] /\ wf \in Execution /\ ExecutionOK(wf, run)
    BY DEF IInv, TypeOK
  <1>2. PICK next \in Steps \cup Results :
          Transact(Attempt, next) /\ wf' = [wf EXCEPT !.step = next]
    BY DEF WorkerStep
  <1>3. wf.step # "idle"
    BY DEF WorkerStep, Steps
  <1>4. wf.pc \in Activities
    BY <1>1, <1>3 DEF ExecutionOK
  <1>5. Attempt = JobOf(wf)
    BY DEF Attempt, JobOf
  <1>6. j \in Job /\ j.gen = wf.gen /\ wf.gen \in Gens /\ JobOK(j, run[j.gen])
    BY <1>1, <1>4, <1>5, AttemptIsJob DEF JobOf
  <1>7. Advanced(j, next)
    BY <1>1, <1>2, <1>6, TransactAdvances
  <1>8. Created(wf.gen)
    BY <1>1, <1>6, JobRunExists DEF Created
  <1>9. RunsForward /\ ReceiptsGrow
    BY <1>6, <1>7, <1>8, OneRunForward DEF Advanced, ReceiptsGrow
  <1>10. /\ \A e \in Dispatchers : CommandOK(disp[e], run')
         /\ \A k \in zombies : JobOK(k, run'[k.gen])
         /\ ExecutionOK(wf, run')
    BY <1>9, RunsStable
  <1>11. /\ wf' \in Execution
         /\ wf'.pc = wf.pc /\ wf'.step = next /\ wf'.gen = wf.gen /\ wf'.outcome = wf.outcome
         /\ wf'.supersede = wf.supersede /\ wf'.approval = wf.approval
    BY <1>1, <1>2 DEF Execution
  <1>12. JobOf(wf') = [j EXCEPT !.step = next]
    BY <1>5, <1>11 DEF JobOf
  <1>13. JobOK(JobOf(wf'), run'[wf.gen])
    BY <1>6, <1>7, <1>12 DEF Advanced
  <1>14. ExecutionOK(wf', run')
    BY <1>4, <1>10, <1>11, <1>13 DEF ExecutionOK
  <1>15. ExecutionAdvances
    BY <1>1, <1>11 DEF ExecutionAdvances, Execution
  <1>16. UNCHANGED <<head, open, policy, disp, zombies, disturbed>>
    BY DEF WorkerStep
  <1> QED
    BY <1>9, <1>10, <1>14, <1>15, <1>16, StepParts DEF IInv, TypeOK

LEMMA ZombieStepOK ==
  ASSUME IInv, ZombieStep
  PROVE  StepOK
  <1>1. /\ run \in [Gens -> RunRecord] /\ wf \in Execution /\ zombies \subseteq AbandonedAttempt
    BY DEF IInv, TypeOK
  <1>2. PICK j \in zombies, next \in Steps \cup Results :
          /\ Transact(j, next)
          /\ zombies' = (zombies \ {j}) \cup
                          IF next \in Results THEN {} ELSE {[j EXCEPT !.step = next]}
    BY DEF ZombieStep
  <1> DEFINE k == [j EXCEPT !.step = next]
  <1>3. j \in Job /\ j.gen \in Gens /\ JobOK(j, run[j.gen]) /\ j.act # "checks"
    BY ZombieIsJob DEF IInv, ZombiesOK, Job
  <1>4. Advanced(j, next)
    BY <1>1, <1>2, <1>3, TransactAdvances
  <1>5. Created(j.gen)
    BY <1>1, <1>3, JobRunExists DEF Created
  <1>6. RunsForward /\ ReceiptsGrow
    BY <1>3, <1>4, <1>5, OneRunForward DEF Advanced, ReceiptsGrow
  <1>7. /\ \A e \in Dispatchers : CommandOK(disp[e], run')
        /\ \A z \in zombies : JobOK(z, run'[z.gen])
        /\ ExecutionOK(wf, run')
    BY <1>6, RunsStable
  <1>8. k.gen = j.gen /\ JobOK(k, run'[k.gen])
    BY <1>3, <1>4 DEF Advanced, Job
  <1>9. next \notin Results => k \in AbandonedAttempt
    BY <1>3 DEF Job, AbandonedAttempt
  <1>10. zombies' \subseteq AbandonedAttempt /\ \A z \in zombies' : JobOK(z, run'[z.gen])
    <2> HIDE DEF k
    <2>1. zombies' \subseteq zombies \cup {k} /\ (k \in zombies' => k \in zombies \/ next \notin Results)
      BY <1>2 DEF k
    <2> QED
      BY <1>1, <1>7, <1>8, <1>9, <2>1
  <1>11. UNCHANGED <<head, open, policy, disp, wf, disturbed>>
    BY DEF ZombieStep
  <1>12. ExecutionAdvances
    BY <1>1, <1>11 DEF ExecutionAdvances, Execution
  <1> QED
    BY <1>6, <1>7, <1>10, <1>11, <1>12, StepParts DEF IInv, TypeOK

\* A workflow activation changes the execution, and may abandon an attempt.
LEMMA ActivationStep ==
  ASSUME IInv, UNCHANGED <<head, open, policy, run, disp>>,
         disturbed' \in 0 .. MaxDisturbances,
         UNCHANGED zombies \/ Abandon,
         ExecutionOK(wf', run), ExecutionAdvances
  PROVE  StepOK
  <1>1. RunsForward /\ ReceiptsGrow
    BY SameRuns
  <1>2. /\ \A e \in Dispatchers : CommandOK(disp[e], run')
        /\ \A z \in zombies : JobOK(z, run'[z.gen])
    BY <1>1, RunsStable
  <1>3. CASE UNCHANGED zombies
    BY <1>1, <1>2, <1>3, StepParts DEF IInv, TypeOK
  <1>4. CASE wf.step \in Steps \ {"remote"} /\ zombies' = zombies \cup {Attempt}
    <2>1. /\ run \in [Gens -> RunRecord] /\ wf \in Execution /\ ExecutionOK(wf, run)
          /\ zombies \subseteq AbandonedAttempt
      BY DEF IInv, TypeOK
    <2>2. wf.pc \in Activities
      BY <1>4, <2>1 DEF ExecutionOK, Steps
    <2>3. Attempt = JobOf(wf)
      BY DEF Attempt, JobOf
    <2>4. /\ Attempt \in Job /\ Attempt.step = wf.step
          /\ Attempt.gen = wf.gen /\ JobOK(Attempt, run[wf.gen])
      BY <2>1, <2>2, <2>3, AttemptIsJob DEF JobOf
    <2>5. Attempt.act # "checks"
      BY <1>4, <2>4 DEF JobOK, StepsOf, Steps, Results
    <2>6. Attempt \in AbandonedAttempt
      BY <1>4, <2>4, <2>5 DEF Job, AbandonedAttempt
    <2>7. zombies' \subseteq AbandonedAttempt /\ \A z \in zombies' : JobOK(z, run'[z.gen])
      BY <1>2, <1>4, <2>1, <2>4, <2>6
    <2> QED
      BY <1>1, <1>2, <2>7, StepParts DEF IInv, TypeOK
  <1> QED
    BY <1>3, <1>4 DEF Abandon

LEMMA AttemptStep ==
  ASSUME IInv, AttemptEnds \/ AttemptLost
  PROVE  StepOK
  <1>1. run \in [Gens -> RunRecord] /\ wf \in Execution /\ ExecutionOK(wf, run)
    BY DEF IInv, TypeOK
  <1>2. wf.step # "idle"
    BY DEF AttemptEnds, AttemptLost, Results
  <1>3. wf.pc \in Activities
    BY <1>1, <1>2 DEF ExecutionOK
  <1>4. \/ wf.step = "ok" /\ wf' = AfterSuccess(wf)
        \/ \E retryable \in BOOLEAN : wf' = AfterAttempt(wf, retryable)
    BY DEF AttemptEnds, AttemptLost
  <1>5. ExecutionOK(wf', run) /\ wf'.gen = wf.gen /\ wf'.pc # "starting"
    BY <1>1, <1>3, <1>4, AfterSuccessOK, AfterAttemptOK, ActivityIsNotStarting
  <1>6. /\ UNCHANGED <<head, open, policy, run, disp>> /\ (UNCHANGED zombies \/ Abandon)
        /\ disturbed' \in 0 .. MaxDisturbances
    BY DisturbType DEF AttemptEnds, AttemptLost, IInv, TypeOK
  <1>7. ExecutionAdvances
    BY <1>1, <1>5 DEF ExecutionAdvances, Execution
  <1> QED
    BY <1>5, <1>6, <1>7, ActivationStep

LEMMA StartRunStep ==
  ASSUME IInv, StartRun
  PROVE  StepOK
  <1> DEFINE supersede == IF wf.supersede <= wf.gen THEN 0 ELSE wf.supersede
             approval == IF wf.approval.gen = wf.gen THEN wf.approval ELSE NoApproval
             w == [wf EXCEPT !.supersede = supersede, !.approval = approval]
             v == Enter(w, "checks")
             r == run[wf.gen]
  <1>1. /\ wf \in Execution /\ ExecutionOK(wf, run) /\ wf.pc = "starting"
        /\ run \in [Gens -> RunRecord] /\ wf' = v
        /\ UNCHANGED <<head, open, policy, run, disp, zombies, disturbed>>
    BY DEF StartRun, IInv, TypeOK
  <1>2. wf.gen \in Gens /\ r \in RunRecord /\ r.state # Contract!Absent
    BY <1>1 DEF ExecutionOK
  <1>3. /\ supersede \in 0 .. MaxGen /\ approval \in [gen : 0 .. MaxGen, approved : BOOLEAN]
        /\ supersede = 0 \/ (supersede > wf.gen /\ supersede = wf.supersede)
        /\ approval = NoApproval \/ (approval = wf.approval /\ approval.gen = wf.gen)
    BY <1>1, LifecycleAssumption DEF Execution, NoApproval
  <1> HIDE DEF supersede, approval
  <1>4. /\ w \in Execution /\ w.gen = wf.gen /\ w.supersede = supersede /\ w.approval = approval
        /\ w.outcome = wf.outcome
    BY <1>1, <1>3 DEF Execution
  <1> HIDE DEF w
  <1>5. /\ v \in Execution /\ v.pc = "checks" /\ v.step = "remote" /\ v.gen = wf.gen
        /\ v.supersede = supersede /\ v.approval = approval /\ v.outcome = wf.outcome
    BY <1>4, AttemptsStartAtZero DEF Enter, FirstStep, Stages, Execution, Activities, Steps
  <1> HIDE DEF v
  <1>6. JobOK(JobOf(v), r)
    BY <1>2, <1>5 DEF JobOK, JobOf, StepsOf, MinRank, AtLeast, RunRecord, Contract!RunState,
       Terminal, StateRank, Contract!ActiveStates
  <1>7. ExecutionOK(v, run)
    BY <1>1, <1>2, <1>3, <1>5, <1>6 DEF ExecutionOK, Activities
  <1>8. ExecutionAdvances
    BY <1>1, <1>5 DEF ExecutionAdvances, Execution
  <1> QED
    BY <1>1, <1>7, <1>8, ActivationStep DEF IInv, TypeOK

LEMMA InterruptStep ==
  ASSUME IInv, StageInterrupted \/ AwaitEnds
  PROVE  StepOK
  <1>1. /\ wf \in Execution /\ ExecutionOK(wf, run) /\ run \in [Gens -> RunRecord]
        /\ disturbed \in 0 .. MaxDisturbances
    BY DEF IInv, TypeOK
  <1>2. /\ wf.pc \in Stages \cup {"await"}
        /\ UNCHANGED <<head, open, policy, run, disp, disturbed>>
        /\ UNCHANGED zombies \/ Abandon
    BY DEF StageInterrupted, AwaitEnds
  <1>3. wf.pc \notin {"closed", "starting"}
    BY <1>2 DEF Stages
  <1>4. ASSUME NEW outcome \in {"cancelled", "timed_out"}, NEW guarded \in BOOLEAN,
               wf' = Finish(wf, outcome, guarded)
        PROVE  ExecutionOK(wf', run) /\ wf'.gen = wf.gen
    <2>1. ExecutionOK(wf', run)
      BY <1>1, <1>3, <1>4, FinishOK DEF Outcomes
    <2> QED
      BY <1>1, <1>4, <2>1 DEF Finish, Enter, Execution
  <1>5. ASSUME wf.pc = "await", wf.approval # NoApproval
        PROVE  /\ AtLeast(run[wf.gen].state, 4)
               /\ run[wf.gen].decision = IF wf.approval.approved THEN "approve" ELSE "reject"
    BY <1>1, <1>5 DEF ExecutionOK
  <1>6. ASSUME wf.pc = "await", wf.approval # NoApproval, wf.approval.approved,
               wf' = Enter(wf, "publish")
        PROVE  ExecutionOK(wf', run) /\ wf'.gen = wf.gen
    <2>1. JobOK([gen |-> wf.gen, act |-> "publish", step |-> FirstStep("publish"),
                 outcome |-> wf.outcome], run[wf.gen])
      BY <1>5, <1>6 DEF JobOK, FirstStep, StepsOf, MinRank, Stages
    <2>2. ExecutionOK(wf', run)
      BY <1>1, <1>3, <1>6, <2>1, EnterOK DEF Activities
    <2> QED
      BY <1>1, <1>6, <2>2 DEF Enter, Execution
  <1>7. ASSUME wf.pc = "await", wf.approval # NoApproval, ~wf.approval.approved,
               wf' = Finish(wf, "rejected", FALSE)
        PROVE  ExecutionOK(wf', run) /\ wf'.gen = wf.gen
    <2>1. ExecutionOK(wf', run)
      BY <1>1, <1>3, <1>5, <1>7, FinishOK DEF Outcomes
    <2> QED
      BY <1>1, <1>7, <2>1 DEF Finish, Enter, Execution
  <1>8. \/ wf' = Finish(wf, "cancelled", TRUE)
        \/ wf' = Finish(wf, "cancelled", FALSE)
        \/ wf' = Finish(wf, "timed_out", FALSE)
        \/ /\ wf.pc = "await" /\ wf.approval # NoApproval
           /\ \/ wf.approval.approved /\ wf' = Enter(wf, "publish")
              \/ ~wf.approval.approved /\ wf' = Finish(wf, "rejected", FALSE)
    BY DEF StageInterrupted, AwaitEnds
  <1>9. ExecutionOK(wf', run) /\ wf'.gen = wf.gen
    BY <1>4, <1>6, <1>7, <1>8
  <1>10. ExecutionAdvances
    <2>1. wf'.pc # "starting"
      BY <1>1, <1>8, FinishedIsNotStarting
    <2> QED
      BY <1>9, <2>1 DEF ExecutionAdvances
  <1> QED
    BY <1>1, <1>2, <1>9, <1>10, ActivationStep

LEMMA EndStep ==
  ASSUME IInv, Wrapup \/ ExecutionExpires
  PROVE  StepOK
  <1>1. wf \in Execution /\ ExecutionOK(wf, run) /\ run \in [Gens -> RunRecord]
    BY DEF IInv, TypeOK
  <1>2. /\ UNCHANGED <<head, open, policy, run, disp, zombies>>
        /\ disturbed' \in 0 .. MaxDisturbances
    BY DisturbType DEF Wrapup, ExecutionExpires, IInv, TypeOK
  <1>3. CASE wf' = ClosedExecution(wf)
    BY <1>1, <1>2, <1>3, ClosedOK, ActivationStep DEF ExecutionAdvances
  <1>4. CASE wf.pc = "wrapup" /\ wf.supersede > 0 /\ wf' = Starting(wf.supersede, 0)
    <2>1. /\ wf.supersede \in Gens /\ wf.supersede > wf.gen
          /\ run[wf.supersede].state # Contract!Absent
      BY <1>1, <1>4 DEF ExecutionOK, Execution, Gens
    <2>2. ExecutionOK(wf', run) /\ wf'.gen = wf.supersede
      BY <1>1, <1>4, <2>1, StartingOK
    <2>3. ExecutionAdvances
      BY <1>1, <2>1, <2>2 DEF ExecutionAdvances, Execution
    <2> QED
      BY <1>2, <2>2, <2>3, ActivationStep
  <1> QED
    BY <1>3, <1>4 DEF Wrapup, ExecutionExpires

LEMMA CancelStep ==
  ASSUME IInv, Cancel
  PROVE  StepOK
  <1>1. wf \in Execution /\ ExecutionOK(wf, run) /\ run \in [Gens -> RunRecord]
    BY DEF IInv, TypeOK
  <1>2. /\ UNCHANGED <<head, open, policy, run, disp, zombies>>
        /\ disturbed' \in 0 .. MaxDisturbances
        /\ wf' = [wf EXCEPT !.cancelled = TRUE]
    BY DisturbType DEF Cancel, IInv, TypeOK
  <1>3. /\ wf' \in Execution
        /\ wf'.pc = wf.pc /\ wf'.step = wf.step /\ wf'.gen = wf.gen /\ wf'.outcome = wf.outcome
        /\ wf'.supersede = wf.supersede /\ wf'.approval = wf.approval
    BY <1>1, <1>2 DEF Execution
  <1>4. JobOf(wf') = JobOf(wf)
    BY <1>3 DEF JobOf
  <1>5. ExecutionOK(wf', run)
    BY <1>1, <1>3, <1>4 DEF ExecutionOK
  <1>6. ExecutionAdvances
    BY <1>1, <1>3 DEF ExecutionAdvances, Execution
  <1> QED
    BY <1>2, <1>5, <1>6, ActivationStep

LEMMA StutteringStep ==
  ASSUME IInv, UNCHANGED vars
  PROVE  StepOK
  BY ActivationStep DEF vars, IInv, TypeOK, ExecutionAdvances, Execution

-----------------------------------------------------------------------------
(* The theorems *)

LEMMA InitOK == Init => IInv
  <1> SUFFICES ASSUME Init PROVE IInv
    OBVIOUS
  <1>1. head \in Heads /\ run = [g \in Gens |-> NoRun(head)] /\ wf = Idle /\ zombies = {}
    BY DEF Init
  <1>2. NoRun(head) \in RunRecord
    BY <1>1 DEF NoRun, RunRecord
  <1>3. run \in [Gens -> RunRecord]
    BY <1>1, <1>2
  <1>4. \A g \in Gens : run[g].state = Contract!Absent /\ run[g].receipt = "none"
                        /\ run[g].decision = "none"
    BY <1>1 DEF NoRun
  <1>5. RunsOK
    BY <1>4 DEF RunsOK, ReceiptsInOrder, PublishedMeansReviewed, Contract!Absent
  <1>6. DispatchersOK
    BY DEF Init, IdleDispatcher, DispatchersOK, CommandOK
  <1>7. ExecutionOK(wf, run) /\ wf.pc = "closed"
    <2>1. /\ wf \in Execution /\ wf.pc = "closed" /\ wf.step = "idle" /\ wf.outcome = "none"
          /\ wf.supersede = 0 /\ wf.approval = NoApproval
      BY <1>1, IdleType DEF Idle
    <2> QED
      BY <2>1 DEF ExecutionOK, Activities, Stages
  <1>8. TypeOK
    BY <1>1, <1>3, <1>7, LifecycleAssumption DEF Init, TypeOK, ExecutionOK, IdleDispatcher
  <1> QED
    BY <1>1, <1>5, <1>6, <1>7, <1>8 DEF IInv, ZombiesOK

LEMMA StepLemma == IInv /\ [Next]_vars => StepOK
  <1> SUFFICES ASSUME IInv, [Next]_vars PROVE StepOK
    OBVIOUS
  <1>1. ASSUME NEW d \in Dispatchers, DispatchStep(d) \/ DispatcherFails(d) PROVE StepOK
    BY <1>1, SelectStep, DispatcherStep DEF DispatchStep
  <1>2. CASE Human
    BY <1>2, DecideStep, ApprovalStep DEF Human
  <1>3. CASE Workflow
    BY <1>3, WorkerStepOK, AttemptStep, StartRunStep, InterruptStep, EndStep DEF Workflow
  <1> QED
    BY <1>1, <1>2, <1>3, IntakeStep, ZombieStepOK, AttemptStep, CancelStep, EndStep, StutteringStep
    DEF Next

\* The inductive invariant: what every step relies on is always true.
THEOREM InductiveInvariant == Spec => []IInv
  <1>1. IInv /\ [Next]_vars => IInv'
    BY StepLemma DEF StepOK
  <1> QED
    BY InitOK, <1>1, PTL DEF Spec

\* The rows, the execution and the attempts keep the shape the code gives
\* them, and an open execution reviews a run that exists.
THEOREM TypeCorrect == Spec => []TypeOK
  <1>1. IInv => TypeOK
    BY DEF IInv
  <1> QED
    BY InductiveInvariant, <1>1, PTL

\* Start commands of a pull request are settled in generation order, for any
\* number of dispatchers with stale snapshots.
THEOREM ReceiptOrder == Spec => []ReceiptsInOrder
  <1>1. IInv => ReceiptsInOrder
    BY DEF IInv, RunsOK
  <1> QED
    BY InductiveInvariant, <1>1, PTL

\* A run recorded as published has its review on GitHub.
THEOREM PublishedOnlyReviewed == Spec => []PublishedMeansReviewed
  <1>1. IInv => PublishedMeansReviewed
    BY DEF IInv, RunsOK
  <1> QED
    BY InductiveInvariant, <1>1, PTL

\* The workflow publishes or rejects only what a human decided about the very
\* run it reviews, wherever the signal was received.
THEOREM HumanDecides == Spec => []DecisionOfThisRun
  <1>1. IInv => DecisionOfThisRun
    BY DEF IInv, DecisionOfThisRun, ExecutionOK, JobOK, JobOf, Activities
  <1> QED
    BY InductiveInvariant, <1>1, PTL

\* An execution chain never goes back to an older generation, and no execution
\* reviews the generation of its predecessor again.
THEOREM GenerationNeverFalls == Spec => GenerationAdvances
  <1>1. IInv /\ [Next]_vars =>
          [wf.pc # "closed" /\ wf'.pc # "closed" =>
             \/ wf'.gen > wf.gen
             \/ wf'.gen = wf.gen /\ (wf'.pc = "starting" => wf.pc = "starting")]_vars
    BY StepLemma DEF StepOK, ExecutionAdvances
  <1> QED
    BY InductiveInvariant, <1>1, PTL DEF Spec, GenerationAdvances

LEMMA ForwardIsContract ==
  ASSUME IInv, RunsForward
  PROVE  [Contract!Next]_States
  <1>1. run \in [Gens -> RunRecord] /\ run' \in [Gens -> RunRecord]
    BY DEF IInv, TypeOK, RunsForward
  <1>2. CASE \A g \in Gens : run'[g].state = run[g].state
    BY <1>1, <1>2 DEF States
  <1>3. CASE \E g \in Gens : run'[g].state # run[g].state
    <2>1. PICK g \in Gens : run'[g].state # run[g].state
      BY <1>3
    <2>2. \A n \in Gens \ {g} : run'[n] = run[n]
      BY <2>1 DEF RunsForward
    <2>3. States' = [States EXCEPT ![g] = run'[g].state]
      BY <1>1, <2>2 DEF States
    <2>4. CASE Created(g)
      <3>1. run'[g].state \in Contract!Allowed(States[g]) /\ States[g] # Contract!Absent
        BY <2>1, <2>4 DEF RunsForward, Later, States, Created
      <3>2. Contract!Move(g)
        BY <2>3, <3>1 DEF Contract!Move
      <3> QED
        BY <3>2 DEF Contract!Next
    <2>5. CASE ~Created(g)
      <3>1. run'[g].state = "queued" /\ States[g] = Contract!Absent
        BY <2>1, <2>5 DEF RunsForward, States, Created
      <3>2. Contract!Create(g)
        BY <2>3, <3>1 DEF Contract!Create
      <3> QED
        BY <3>2 DEF Contract!Next
    <2> QED
      BY <2>4, <2>5
  <1> QED
    BY <1>2, <1>3

\* The database implements the run state machine of the shared contract,
\* although it never consults it and abandoned attempts keep writing.
THEOREM ImplementsContract == Spec => RunsFollowContract
  <1>1. Init => Contract!Init
    BY DEF Init, NoRun, Contract!Init, States
  <1>2. IInv /\ [Next]_vars => [Contract!Next]_States
    BY StepLemma, ForwardIsContract DEF StepOK
  <1> QED
    BY InductiveInvariant, <1>1, <1>2, PTL DEF Spec, RunsFollowContract, Contract!Spec

-----------------------------------------------------------------------------
(* One run at a time, and no review withdrawn: the second invariant.       *)
(*                                                                         *)
(* These hold while the execution timeout does not strike and there are    *)
(* fewer disturbances than attempts, so that the terminal record is always *)
(* written: it is the last attempt left that writes it (RecordedOK).       *)

Undisturbed ==
  /\ "expiry" \notin Disturbances
  /\ MaxDisturbances < MaxAttempts

Working == Contract!ActiveStates \ {"queued"}

\* Only a lost attempt keeps the terminal record from being written.
RecordedOK ==
  /\ wf.pc = "record_terminal" /\ ~IsTerminal(wf.gen) =>
       wf.step = "commit" /\ wf.attempts <= disturbed
  /\ wf.pc = "wrapup" => IsTerminal(wf.gen)
  /\ wf.pc = "closed" /\ wf.gen > 0 => IsTerminal(wf.gen)

\* A run that has left the queue and is not over is the one under review.
WorkingOK ==
  \A g \in Gens :
    run[g].state \in Working => wf.gen = g /\ wf.pc \notin {"closed", "starting"}

\* An abandoned attempt can change the run under review only; one that records
\* an outcome was abandoned by the phase that records it.
AbandonedOK ==
  \A j \in zombies :
    ~IsTerminal(j.gen) =>
      /\ wf.gen = j.gen /\ wf.pc \notin {"closed", "starting"}
      /\ j.act = "record_terminal" => wf.pc = "record_terminal"

\* The run waits for its approval until the workflow records an outcome.
AwaitedOK ==
  wf.pc \in {"await", "publish"} \/ (wf.pc = "verify" /\ wf.step = "ok") =>
    run[wf.gen].state = "awaiting_approval"

\* The publication of run g has begun, and may have reached GitHub.
Begun(g) ==
  \/ run[g].reviewed
  \/ wf.gen = g /\ wf.pc = "publish"
  \/ \E j \in zombies : j.gen = g /\ j.act = "publish"

\* Whoever records the outcome of a run whose publication has begun records it
\* as published or as failed.
BegunOK ==
  \A g \in Gens : Begun(g) =>
    /\ run[g].state \in {"awaiting_approval", "published", "failed"}
    /\ ~IsTerminal(g) =>
         /\ wf.gen = g
         /\ \/ wf.pc = "publish"
            \/ wf.pc = "record_terminal" /\ wf.outcome \in {"published", "failed"}
         /\ \A j \in zombies :
              j.gen = g /\ j.act = "record_terminal" => j.outcome \in {"published", "failed"}

OneRunInv == RecordedOK /\ WorkingOK /\ AbandonedOK /\ AwaitedOK /\ BegunOK

\* What a transaction of attempt j does to the record of its run.
Effect(j, next) ==
  LET r == run[j.gen]  s == run'[j.gen] IN
  /\ \A g \in Gens \ {j.gen} : run'[g] = run[g]
  /\ j.act = "checks" => s = r /\ next = "ok"
  /\ j.act \in Stages =>
       /\ s.reviewed = r.reviewed
       /\ s.state # r.state =>
            /\ r.state \notin Terminal \cup {"awaiting_approval"}
            /\ s.state \in Working
       /\ j.act = "verify" /\ next = "ok" => s.state = "awaiting_approval"
  /\ j.act = "publish" =>
       s.state = r.state /\ (r.reviewed => s.reviewed)
  /\ j.act = "record_terminal" =>
       /\ s.reviewed = r.reviewed
       /\ next \in {"ok", "error"} /\ s.state \in Terminal
       /\ IF r.state \in Terminal THEN s.state = r.state
                                  ELSE s.state = TerminalState(j.outcome)
       /\ next = "error" => r.state \in Terminal /\ r.state # TerminalState(j.outcome)

LEMMA LoadEffect ==
  ASSUME run \in [Gens -> RunRecord], NEW j \in Job, JobOK(j, run[j.gen]),
         NEW next \in Steps \cup Results, LoadActiveRun(j, next)
  PROVE  Effect(j, next)
  <1> DEFINE r == run[j.gen]
  <1>1. r \in RunRecord /\ j.gen \in Gens /\ j.act \in Stages
    BY StepOfAct DEF LoadActiveRun, Job
  <1>2. CASE next = "error" /\ UNCHANGED run
    BY <1>1, <1>2 DEF Effect, Stages
  <1>3. CASE ~(next = "error" /\ UNCHANGED run)
    <2> DEFINE target == TargetState[j.act]
               state == IF StateRank[r.state] > StateRank[target] THEN r.state ELSE target
    <2>1. /\ run' = [run EXCEPT ![j.gen] = [r EXCEPT !.state = state]]
          /\ j.act = "verify" => next # "ok"
          /\ r.state \notin Terminal
      BY <1>1, <1>3 DEF LoadActiveRun, AfterLoad, IsTerminal
    <2>2. r.state \in Contract!ActiveStates
      BY <1>1, <2>1 DEF JobOK, AtLeast
    <2>3. /\ state = r.state \/ state \in Working
          /\ state # r.state => r.state # "awaiting_approval"
      BY <1>1, <2>2 DEF TargetState, StateRank, Stages, Working, Contract!ActiveStates
    <2> HIDE DEF state
    <2>4. run'[j.gen] = [r EXCEPT !.state = state] /\ \A g \in Gens \ {j.gen} : run'[g] = run[g]
      BY <1>1, <2>1
    <2>5. run'[j.gen].state = state /\ run'[j.gen].reviewed = r.reviewed
      BY <1>1, <2>4 DEF RunRecord
    <2> QED
      BY <1>1, <2>1, <2>3, <2>4, <2>5 DEF Effect, Stages
  <1> QED
    BY <1>2, <1>3

LEMMA StageEffect ==
  ASSUME run \in [Gens -> RunRecord], NEW j \in Job, JobOK(j, run[j.gen]),
         NEW next \in Steps \cup Results,
         RecordStage(j, next) \/ RecordVerification(j, next) \/ MarkAwaitingApproval(j, next)
  PROVE  Effect(j, next)
  <1> DEFINE r == run[j.gen]
  <1>1. r \in RunRecord /\ j.gen \in Gens /\ j.act \in Stages
    BY StepOfAct DEF RecordStage, RecordVerification, MarkAwaitingApproval, Job, Stages
  <1>2. CASE next # "ok" /\ UNCHANGED run
    BY <1>1, <1>2 DEF Effect, Stages
  <1>3. CASE /\ RecordStage(j, next) \/ RecordVerification(j, next)
             /\ ~(next # "ok" /\ UNCHANGED run)
    <2>1. PICK x : /\ run' = [run EXCEPT ![j.gen].recorded = @ \cup {x}]
                   /\ next = "ok" => j.act # "verify"
      BY <1>1, <1>3 DEF RecordStage, RecordVerification
    <2>2. /\ run'[j.gen].state = r.state /\ run'[j.gen].reviewed = r.reviewed
          /\ \A g \in Gens \ {j.gen} : run'[g] = run[g]
      BY <1>1, <2>1 DEF RunRecord
    <2> QED
      BY <1>1, <2>1, <2>2 DEF Effect, Stages
  <1>4. CASE MarkAwaitingApproval(j, next) /\ ~(next # "ok" /\ UNCHANGED run)
    <2>1. /\ run' = [run EXCEPT ![j.gen].state = "awaiting_approval"]
          /\ r.state \in {"verifying", "awaiting_approval"}
      BY <1>1, <1>4 DEF MarkAwaitingApproval
    <2>2. /\ run'[j.gen].state = "awaiting_approval" /\ run'[j.gen].reviewed = r.reviewed
          /\ \A g \in Gens \ {j.gen} : run'[g] = run[g]
      BY <1>1, <2>1 DEF RunRecord
    <2> QED
      BY <1>1, <2>1, <2>2
      DEF Effect, Stages, Working, Terminal, Contract!ActiveStates, Contract!TerminalStates
  <1> QED
    BY <1>2, <1>3, <1>4

LEMMA PublishEffect ==
  ASSUME run \in [Gens -> RunRecord], NEW j \in Job, JobOK(j, run[j.gen]),
         NEW next \in Steps \cup Results,
         PreparePublish(j, next) \/ SubmitReview(j, next)
  PROVE  Effect(j, next)
  <1>1. run[j.gen] \in RunRecord /\ j.gen \in Gens /\ j.act = "publish"
    BY StepOfAct DEF PreparePublish, SubmitReview, Job
  <1>2. UNCHANGED run \/ run' = [run EXCEPT ![j.gen].reviewed = TRUE]
    BY DEF PreparePublish, SubmitReview
  <1>3. /\ run'[j.gen].state = run[j.gen].state
        /\ run[j.gen].reviewed => run'[j.gen].reviewed
        /\ \A g \in Gens \ {j.gen} : run'[g] = run[g]
    BY <1>1, <1>2 DEF RunRecord
  <1> QED
    BY <1>1, <1>3 DEF Effect, Stages

LEMMA RecordEffect ==
  ASSUME run \in [Gens -> RunRecord], NEW j \in Job, JobOK(j, run[j.gen]),
         NEW next \in Steps \cup Results, RecordTerminal(j, next)
  PROVE  Effect(j, next)
  <1> DEFINE r == run[j.gen]
             state == TerminalState(j.outcome)
  <1>1. r \in RunRecord /\ j.gen \in Gens /\ j.act = "record_terminal"
    BY StepOfAct DEF RecordTerminal, Job
  <1>2. state \in Terminal
    BY <1>1 DEF JobOK, Job, TerminalState, Terminal, Contract!TerminalStates, Outcomes
  <1>3. CASE r.state \in Terminal /\ r.state # state /\ next = "error" /\ UNCHANGED run
    BY <1>1, <1>3 DEF Effect, Stages
  <1>4. CASE /\ r.state \in Terminal => r.state = state
             /\ next = "ok" /\ run' = [run EXCEPT ![j.gen].state = state]
    <2>1. /\ run'[j.gen].state = state /\ run'[j.gen].reviewed = r.reviewed
          /\ \A g \in Gens \ {j.gen} : run'[g] = run[g]
      BY <1>1, <1>4 DEF RunRecord
    <2> QED
      BY <1>1, <1>2, <1>4, <2>1 DEF Effect, Stages
  <1> QED
    BY <1>3, <1>4 DEF RecordTerminal, IsTerminal

LEMMA TransactEffect ==
  ASSUME run \in [Gens -> RunRecord], NEW j \in Job, JobOK(j, run[j.gen]),
         NEW next \in Steps \cup Results, Transact(j, next)
  PROVE  Effect(j, next)
  <1>1. CASE UpdateChecks(j, next)
    BY <1>1, StepOfAct DEF UpdateChecks, Effect, Stages, Job
  <1> QED
    BY <1>1, LoadEffect, StageEffect, PublishEffect, RecordEffect DEF Transact

\* A transaction of the awaited attempt or of an abandoned one.
TransactionOf(j, next) ==
  /\ \/ wf.pc \in Activities /\ j = JobOf(wf)
     \/ j \in zombies /\ wf'.step = wf.step
  /\ wf'.step \in {wf.step, next}
  /\ wf'.pc = wf.pc /\ wf'.gen = wf.gen /\ wf'.outcome = wf.outcome
  /\ wf'.attempts = wf.attempts /\ wf'.supersede = wf.supersede
  /\ disturbed' = disturbed
  /\ \A z \in zombies' : \E y \in zombies :
       z.gen = y.gen /\ z.act = y.act /\ z.outcome = y.outcome

LEMMA TransactionFacts ==
  ASSUME IInv, WorkerStep \/ ZombieStep
  PROVE  \E j \in Job, next \in Steps \cup Results :
           /\ j.gen \in Gens /\ JobOK(j, run[j.gen])
           /\ TransactionOf(j, next) /\ Effect(j, next) /\ Advanced(j, next)
           /\ UNCHANGED <<head, open, policy, disp>>
  <1>1. /\ run \in [Gens -> RunRecord] /\ wf \in Execution /\ ExecutionOK(wf, run)
        /\ zombies \subseteq AbandonedAttempt
    BY DEF IInv, TypeOK
  <1>2. CASE WorkerStep
    <2>1. PICK next \in Steps \cup Results :
            Transact(Attempt, next) /\ wf' = [wf EXCEPT !.step = next]
      BY <1>2 DEF WorkerStep
    <2>2. wf.pc \in Activities
      BY <1>1, <1>2 DEF WorkerStep, ExecutionOK, Steps
    <2>3. Attempt = JobOf(wf)
      BY DEF Attempt, JobOf
    <2>4. /\ Attempt \in Job /\ Attempt.gen \in Gens
          /\ JobOK(Attempt, run[Attempt.gen])
      BY <1>1, <2>2, <2>3, AttemptIsJob DEF JobOf
    <2>5. Effect(Attempt, next) /\ Advanced(Attempt, next)
      BY <1>1, <2>1, <2>4, TransactEffect, TransactAdvances
    <2>6. TransactionOf(Attempt, next)
      BY <1>1, <1>2, <2>1, <2>2, <2>3 DEF WorkerStep, TransactionOf, Execution
    <2> QED
      BY <1>2, <2>4, <2>5, <2>6 DEF WorkerStep
  <1>3. CASE ZombieStep
    <2>1. PICK j \in zombies, next \in Steps \cup Results :
            /\ Transact(j, next)
            /\ zombies' = (zombies \ {j}) \cup
                            IF next \in Results THEN {} ELSE {[j EXCEPT !.step = next]}
      BY <1>3 DEF ZombieStep
    <2>2. j \in Job /\ j.gen \in Gens /\ JobOK(j, run[j.gen])
      BY ZombieIsJob DEF IInv, ZombiesOK, Job
    <2>3. Effect(j, next) /\ Advanced(j, next)
      BY <1>1, <2>1, <2>2, TransactEffect, TransactAdvances
    <2> DEFINE k == [j EXCEPT !.step = next]
    <2>4. k.gen = j.gen /\ k.act = j.act /\ k.outcome = j.outcome
      BY <2>2 DEF Job
    <2> HIDE DEF k
    <2>5. \A z \in zombies' : z \in zombies \/ z = k
      BY <2>1 DEF k
    <2>6. TransactionOf(j, next)
      BY <1>1, <1>3, <2>4, <2>5 DEF ZombieStep, TransactionOf
    <2> QED
      BY <1>3, <2>2, <2>3, <2>6 DEF ZombieStep
  <1> QED
    BY <1>2, <1>3

LEMMA TransactionKeepsOneRun ==
  ASSUME IInv, OneRunInv, WorkerStep \/ ZombieStep
  PROVE  OneRunInv'
  <1>1. PICK j \in Job, next \in Steps \cup Results :
          /\ j.gen \in Gens /\ TransactionOf(j, next) /\ Effect(j, next)
    BY TransactionFacts
  <1>2. /\ run \in [Gens -> RunRecord] /\ run' \in [Gens -> RunRecord]
        /\ wf \in Execution /\ zombies \subseteq AbandonedAttempt
    BY StepLemma DEF IInv, TypeOK, StepOK, Next, Workflow
  <1> DEFINE r == run[j.gen]
             s == run'[j.gen]
  <1>3. \A g \in Gens \ {j.gen} : run'[g] = run[g]
    BY <1>1 DEF Effect
  <1>4. j.act = "checks" \/ j.act \in Stages \/ j.act = "publish" \/ j.act = "record_terminal"
    BY DEF Job, Activities
  <1>5. r.state \in Terminal => s.state = r.state
    BY <1>1, <1>4 DEF Effect
  <1>6. r.state \notin Terminal =>
          /\ wf.gen = j.gen /\ wf.pc \notin {"closed", "starting"}
          /\ j.act = "record_terminal" =>
               wf.pc = "record_terminal" /\ (wf.outcome = j.outcome \/ j \in zombies)
    BY <1>1 DEF TransactionOf, OneRunInv, AbandonedOK, IsTerminal, JobOf, Activities, Stages
  <1>7. s.state = r.state \/ s.state \in Working \cup Terminal
    BY <1>1, <1>4 DEF Effect
  <1>8. r.state = "awaiting_approval" => s.state = r.state \/ j.act = "record_terminal"
    BY <1>1, <1>4 DEF Effect
  <1>9. \A g \in Gens : IsTerminal(g) => IsTerminal(g)'
    BY <1>3, <1>5 DEF IsTerminal
  <1>10. RecordedOK'
    <2>1. wf.pc = "record_terminal" /\ wf'.step # wf.step => s.state \in Terminal /\ j.gen = wf.gen
      BY <1>1 DEF TransactionOf, Effect, JobOf
    <2>2. wf.pc # "closed" \/ wf.gen > 0 => wf.gen \in Gens
      BY <1>2 DEF IInv, TypeOK, Execution, Gens
    <2>3. wf.pc # "closed" \/ wf.gen > 0 =>
            (run[wf.gen].state \in Terminal => run'[wf.gen].state \in Terminal)
      BY <1>3, <1>5, <2>2
    <2>4. wf.pc = "record_terminal" /\ run'[wf.gen].state \notin Terminal =>
            wf.step = "commit" /\ wf.attempts <= disturbed /\ wf'.step = wf.step
      BY <2>1, <2>3 DEF OneRunInv, RecordedOK, IsTerminal
    <2>5. /\ wf.pc = "wrapup" => run'[wf.gen].state \in Terminal
          /\ wf.pc = "closed" /\ wf.gen > 0 => run'[wf.gen].state \in Terminal
      BY <2>3 DEF OneRunInv, RecordedOK, IsTerminal
    <2> QED
      BY <1>1, <2>4, <2>5 DEF TransactionOf, RecordedOK, IsTerminal
  <1>11. WorkingOK'
    BY <1>1, <1>3, <1>5, <1>6 DEF TransactionOf, OneRunInv, WorkingOK
  <1>12. AbandonedOK'
    BY <1>1, <1>2, <1>9 DEF TransactionOf, OneRunInv, AbandonedOK, AbandonedAttempt
  <1>13. AwaitedOK'
    <2>1. wf.gen # j.gen /\ wf.pc \notin {"closed"} => run'[wf.gen] = run[wf.gen]
      BY <1>2, <1>3 DEF IInv, TypeOK
    <2>2. wf'.pc = "verify" /\ wf'.step = "ok" /\ wf.step # "ok" => run'[wf.gen].state = "awaiting_approval"
      BY <1>1 DEF TransactionOf, Effect, JobOf, Stages
    <2>3. wf.pc \in {"await", "publish", "verify"} /\ wf.gen = j.gen /\ r.state = "awaiting_approval" =>
            s.state = r.state
      BY <1>6, <1>8 DEF Terminal, Contract!TerminalStates
    <2> QED
      BY <1>1, <2>1, <2>2, <2>3 DEF TransactionOf, OneRunInv, AwaitedOK
  <1>14. BegunOK'
    <2>1. \A g \in Gens : Begun(g)' => Begun(g)
      <3> SUFFICES ASSUME NEW g \in Gens, Begun(g)' PROVE Begun(g)
        OBVIOUS
      <3>1. CASE run'[g].reviewed
        <4>1. run[g].reviewed \/ (g = j.gen /\ j.act = "publish")
          BY <1>1, <1>3, <1>4, <3>1 DEF Effect
        <4> QED
          BY <1>1, <4>1 DEF TransactionOf, Begun, JobOf
      <3> QED
        BY <1>1, <3>1 DEF TransactionOf, Begun
    <2>2. ASSUME NEW g \in Gens, Begun(g)'
          PROVE  run'[g].state \in {"awaiting_approval", "published", "failed"}
      <3>1. run[g].state \in {"awaiting_approval", "published", "failed"}
        BY <2>1, <2>2 DEF OneRunInv, BegunOK
      <3>2. CASE run'[g].state = run[g].state
        BY <3>1, <3>2
      <3>3. CASE run'[g].state # run[g].state
        <4>1. g = j.gen /\ j.act = "record_terminal" /\ r.state \notin Terminal
          BY <1>3, <1>5, <1>8, <3>1, <3>3 DEF Terminal, Contract!TerminalStates
        <4>2. wf.pc = "record_terminal" /\ (wf.outcome = j.outcome \/ j \in zombies)
          BY <1>6, <4>1
        <4>3. j.outcome \in {"published", "failed"}
          BY <2>1, <2>2, <4>1, <4>2 DEF OneRunInv, BegunOK, IsTerminal
        <4>4. s.state = TerminalState(j.outcome)
          BY <1>1, <4>1 DEF Effect
        <4> QED
          BY <4>1, <4>3, <4>4 DEF TerminalState
      <3> QED
        BY <3>2, <3>3
    <2>3. ASSUME NEW g \in Gens, Begun(g)', ~IsTerminal(g)'
          PROVE  /\ wf'.gen = g
                 /\ \/ wf'.pc = "publish"
                    \/ wf'.pc = "record_terminal" /\ wf'.outcome \in {"published", "failed"}
                 /\ \A z \in zombies' : z.gen = g /\ z.act = "record_terminal" =>
                      z.outcome \in {"published", "failed"}
      <3>1. Begun(g) /\ ~IsTerminal(g)
        BY <1>9, <2>1, <2>3
      <3> QED
        BY <1>1, <3>1 DEF OneRunInv, BegunOK, TransactionOf
    <2> QED
      BY <2>2, <2>3 DEF BegunOK
  <1> QED
    BY <1>10, <1>11, <1>12, <1>13, <1>14 DEF OneRunInv

\* Whatever is no transaction and no activation of the workflow: it leaves the
\* execution where it is, and creates runs or cancels queued ones.
SamePlace ==
  /\ wf'.pc = wf.pc /\ wf'.gen = wf.gen /\ wf'.step = wf.step
  /\ wf'.attempts = wf.attempts /\ wf'.outcome = wf.outcome

SupersedesLater ==
  wf'.supersede # wf.supersede =>
    /\ wf'.supersede \in Gens /\ wf'.supersede > wf.supersede
    /\ ~IsTerminal(wf'.supersede)

RowOutside(g) ==
  /\ run'[g].reviewed => run[g].reviewed
  /\ run'[g].state # run[g].state =>
       \/ run[g].state = Contract!Absent /\ run'[g].state = "queued"
       \/ run[g].state = "queued" /\ run'[g].state = "cancelled" /\ ~policy

Outside ==
  /\ UNCHANGED zombies /\ SamePlace /\ SupersedesLater
  /\ disturbed' >= disturbed
  /\ \A g \in Gens : RowOutside(g)

LEMMA SameRowsOutside ==
  ASSUME UNCHANGED run
  PROVE  \A g \in Gens : RowOutside(g)
  BY DEF RowOutside

LEMMA OneRowOutside ==
  ASSUME run \in [Gens -> RunRecord], NEW g \in Gens, NEW r,
         run' = [run EXCEPT ![g] = r],
         r.reviewed => run[g].reviewed,
         r.state # run[g].state =>
           \/ run[g].state = Contract!Absent /\ r.state = "queued"
           \/ run[g].state = "queued" /\ r.state = "cancelled" /\ ~policy
  PROVE  \A n \in Gens : RowOutside(n)
  BY DEF RowOutside

LEMMA IntakeOutside ==
  ASSUME IInv, Intake
  PROVE  Outside
  <1>1. run \in [Gens -> RunRecord] /\ head \in Heads /\ disturbed \in Nat
    BY LifecycleAssumption DEF IInv, TypeOK
  <1>2. (\E h \in Heads : InsertRun(h)) \/ UNCHANGED run
    BY <1>1 DEF Intake, ReceivePush, ReceiveReopened, ReceiveClosed, ReceiveRerun, ChangePolicy, CreateRun
  <1>3. \A g \in Gens : RowOutside(g)
    <2>1. ASSUME NEW h \in Heads, InsertRun(h)
          PROVE  \A g \in Gens : RowOutside(g)
      <3>1. PICK g \in Gens : /\ ~Created(g)
                              /\ run' = [run EXCEPT ![g] = [NoRun(h) EXCEPT !.state = "queued"]]
        BY <2>1 DEF InsertRun
      <3> DEFINE r == [NoRun(h) EXCEPT !.state = "queued"]
      <3>2. r.reviewed = FALSE /\ r.state = "queued"
        BY DEF NoRun
      <3> HIDE DEF r
      <3> QED
        BY <1>1, <3>1, <3>2, OneRowOutside DEF r, Created
    <2> QED
      BY <1>2, <2>1, SameRowsOutside
  <1>4. UNCHANGED <<wf, zombies>> /\ disturbed' >= disturbed
    BY <1>1 DEF Intake, ReceivePush, ReceiveReopened, ReceiveClosed, ReceiveRerun, ChangePolicy, Disturb
  <1> QED
    BY <1>3, <1>4 DEF Outside, SamePlace, SupersedesLater

LEMMA HumanOutside ==
  ASSUME IInv, Human
  PROVE  Outside
  <1>1. run \in [Gens -> RunRecord] /\ wf \in Execution /\ disturbed \in Nat
    BY LifecycleAssumption DEF IInv, TypeOK
  <1>2. PICK g \in Gens : Decide(g, "approve") \/ Decide(g, "reject") \/ DispatchApproval(g)
    BY DEF Human
  <1>3. CASE Decide(g, "approve") \/ Decide(g, "reject")
    <2>1. PICK decision : run' = [run EXCEPT ![g] = [run[g] EXCEPT !.decision = decision]]
      BY <1>1, <1>3 DEF Decide
    <2>2. /\ [run[g] EXCEPT !.decision = decision].reviewed = run[g].reviewed
          /\ [run[g] EXCEPT !.decision = decision].state = run[g].state
      BY <1>1 DEF RunRecord
    <2>3. \A n \in Gens : RowOutside(n)
      BY <1>1, <2>1, <2>2, OneRowOutside
    <2> QED
      BY <1>1, <1>3, <2>3 DEF Decide, Outside, SamePlace, SupersedesLater
  <1>4. CASE DispatchApproval(g)
    <2>1. UNCHANGED run \/ \E notice : run' = [run EXCEPT ![g] = [run[g] EXCEPT !.notice = notice]]
      BY <1>1, <1>4 DEF DispatchApproval
    <2>2. ASSUME NEW notice PROVE /\ [run[g] EXCEPT !.notice = notice].reviewed = run[g].reviewed
                                  /\ [run[g] EXCEPT !.notice = notice].state = run[g].state
      BY <1>1 DEF RunRecord
    <2>3. \A n \in Gens : RowOutside(n)
      BY <1>1, <2>1, <2>2, OneRowOutside, SameRowsOutside
    <2>4. wf' = wf \/ wf' = Approved(wf, g, run[g].decision = "approve")
      BY <1>4 DEF DispatchApproval
    <2>5. SamePlace /\ wf'.supersede = wf.supersede
      BY <1>1, <2>4 DEF Approved, Execution, SamePlace
    <2>6. UNCHANGED zombies /\ disturbed' >= disturbed
      BY <1>1, <1>4 DEF DispatchApproval, Disturb
    <2> QED
      BY <2>3, <2>5, <2>6 DEF Outside, SupersedesLater
  <1> QED
    BY <1>2, <1>3, <1>4

LEMMA CancelOutside ==
  ASSUME IInv, Cancel \/ UNCHANGED vars
  PROVE  Outside
  <1>1. run \in [Gens -> RunRecord] /\ wf \in Execution /\ disturbed \in Nat
    BY LifecycleAssumption DEF IInv, TypeOK
  <1>2. UNCHANGED run /\ UNCHANGED zombies /\ disturbed' >= disturbed
    BY <1>1 DEF Cancel, Disturb, vars
  <1>3. SamePlace /\ wf'.supersede = wf.supersede
    BY <1>1 DEF Cancel, vars, Execution, SamePlace
  <1> QED
    BY <1>2, <1>3, SameRowsOutside DEF Outside, SupersedesLater

\* A dispatcher signals the open execution, or starts one for the run.
Started(g) ==
  /\ wf.pc = "closed" /\ wf' = Starting(g, g)
  /\ ~IsTerminal(g) /\ UNCHANGED <<run, zombies, disturbed>>

LEMMA DispatcherOutside ==
  ASSUME IInv, NEW d \in Dispatchers, DispatchStep(d) \/ DispatcherFails(d)
  PROVE  \/ Outside
         \/ disp[d].gen \in Gens /\ Started(disp[d].gen)
  <1> DEFINE g == disp[d].gen
  <1>1. run \in [Gens -> RunRecord] /\ wf \in Execution /\ disturbed \in Nat
    BY LifecycleAssumption DEF IInv, TypeOK
  <1>2. UNCHANGED zombies /\ disturbed' >= disturbed
    BY <1>1 DEF DispatchStep, SelectCommand, DispatchCommand, InsertReceipt, DispatcherFails, Disturb
  <1>3. ASSUME UNCHANGED wf PROVE SamePlace /\ SupersedesLater
    BY <1>3 DEF SamePlace, SupersedesLater
  <1>4. CASE SelectCommand(d) \/ DispatcherFails(d)
    BY <1>2, <1>3, <1>4, SameRowsOutside DEF SelectCommand, DispatcherFails, Outside
  <1>5. CASE InsertReceipt(d) \/ DispatchCommand(d)
    <2>1. g \in Gens
      BY <1>5 DEF IInv, DispatchersOK, CommandOK, InsertReceipt, DispatchCommand
    <2>2. run[g] \in RunRecord
      BY <1>1, <2>1
    <2>3. CASE InsertReceipt(d) \/ SkipTerminal(d, g) \/ SkipBlocked(d, g)
      <3>1. PICK status, state :
              /\ run' = [run EXCEPT ![g] = [Receipted(run[g], status) EXCEPT !.state = state]]
              /\ \/ state = run[g].state
                 \/ run[g].state = "queued" /\ state = "cancelled" /\ ~policy
        <4>1. ASSUME NEW status PROVE [Receipted(run[g], status) EXCEPT !.state = run[g].state] = Receipted(run[g], status)
          BY <2>2 DEF Receipted, RunRecord
        <4>2. CASE InsertReceipt(d)
          BY <1>1, <2>1, <4>1, <4>2 DEF InsertReceipt
        <4>3. CASE SkipTerminal(d, g)
          BY <1>1, <2>1, <4>1, <4>3 DEF SkipTerminal
        <4>4. CASE SkipBlocked(d, g)
          <5> DEFINE next == IF run[g].state = "queued" THEN "cancelled" ELSE run[g].state
          <5>1. run' = [run EXCEPT ![g] = [Receipted(run[g], "skipped") EXCEPT !.state = next]]
            BY <1>1, <2>1, <4>4 DEF SkipBlocked
          <5>2. next = run[g].state \/ (run[g].state = "queued" /\ next = "cancelled" /\ ~policy)
            BY <4>4 DEF SkipBlocked
          <5> QED
            BY <5>1, <5>2
        <4> QED
          BY <2>3, <4>2, <4>3, <4>4
      <3> DEFINE r == [Receipted(run[g], status) EXCEPT !.state = state]
      <3>2. r.reviewed = run[g].reviewed /\ r.state = state
        BY <2>2 DEF Receipted, RunRecord
      <3> HIDE DEF r
      <3>3. \A n \in Gens : RowOutside(n)
        BY <1>1, <2>1, <3>1, <3>2, OneRowOutside DEF r
      <3>4. UNCHANGED wf
        BY <2>3 DEF InsertReceipt, SkipTerminal, SkipBlocked
      <3> QED
        BY <1>2, <1>3, <3>3, <3>4 DEF Outside
    <2>4. CASE DispatchCommand(d) /\ SkipLocked(d, g)
      BY <1>2, <1>3, <2>4, SameRowsOutside DEF SkipLocked, Outside
    <2>5. CASE DispatchCommand(d) /\ SignalWithStart(d, g)
      <3>1. UNCHANGED <<run, zombies, disturbed>> /\ ~IsTerminal(g)
        BY <2>5 DEF DispatchCommand, SignalWithStart
      <3>2. CASE wf.pc = "closed"
        BY <2>1, <2>5, <3>1, <3>2 DEF SignalWithStart, Started
      <3>3. CASE wf.pc # "closed"
        <4>1. wf' = Superseded(wf, g)
          BY <2>5, <3>3 DEF SignalWithStart
        <4>2. wf' = wf \/ (wf' = [wf EXCEPT !.supersede = g] /\ g > wf.supersede)
          BY <4>1 DEF Superseded
        <4>3. SamePlace /\ SupersedesLater
          BY <1>1, <2>1, <3>1, <4>2 DEF SamePlace, SupersedesLater, Execution
        <4> QED
          BY <1>2, <3>1, <4>3, SameRowsOutside DEF Outside
      <3> QED
        BY <3>2, <3>3
    <2> QED
      BY <1>5, <2>3, <2>4, <2>5 DEF DispatchCommand
  <1> QED
    BY <1>4, <1>5 DEF DispatchStep

LEMMA OutsideKeepsOneRun ==
  ASSUME IInv, OneRunInv, [Next]_vars, Outside
  PROVE  OneRunInv'
  <1>1. /\ wf \in Execution /\ zombies \subseteq AbandonedAttempt /\ disturbed \in Nat
        /\ wf.pc # "closed" => wf.gen \in Gens
        /\ wf.gen > 0 => wf.gen \in Gens
    BY LifecycleAssumption DEF IInv, TypeOK, Execution, Gens
  <1>2. /\ \A g \in Gens : run'[g].reviewed => run[g].reviewed
        /\ \A g \in Gens : run[g].state \in Terminal \cup Working => run'[g].state = run[g].state
        /\ \A g \in Gens : run'[g].state \in Working => run[g].state = run'[g].state
    BY DEF Outside, RowOutside, Terminal, Working, Contract!TerminalStates, Contract!ActiveStates,
       Contract!Absent
  <1>3. \A g \in Gens : IsTerminal(g) => run'[g].state \in Terminal
    BY <1>2 DEF IsTerminal
  <1>4. SamePlace /\ UNCHANGED zombies /\ disturbed' >= disturbed /\ disturbed' \in Int
    BY StepLemma, LifecycleAssumption DEF Outside, StepOK, IInv, TypeOK
  <1>5. RecordedOK'
    BY <1>1, <1>3, <1>4 DEF OneRunInv, RecordedOK, SamePlace, IsTerminal, Execution
  <1>6. WorkingOK'
    BY <1>2, <1>4 DEF OneRunInv, WorkingOK, SamePlace
  <1>7. AbandonedOK'
    BY <1>1, <1>3, <1>4 DEF OneRunInv, AbandonedOK, SamePlace, IsTerminal, AbandonedAttempt
  <1>8. AwaitedOK'
    <2>1. wf.pc \in {"await", "publish", "verify"} /\ run[wf.gen].state = "awaiting_approval" =>
            run'[wf.gen].state = "awaiting_approval"
      BY <1>1, <1>2 DEF Working, Contract!ActiveStates
    <2> QED
      BY <1>4, <2>1 DEF OneRunInv, AwaitedOK, SamePlace
  <1>9. BegunOK'
    <2> SUFFICES ASSUME NEW g \in Gens, Begun(g)'
                 PROVE  /\ run'[g].state \in {"awaiting_approval", "published", "failed"}
                        /\ ~IsTerminal(g)' =>
                             /\ wf'.gen = g
                             /\ \/ wf'.pc = "publish"
                                \/ wf'.pc = "record_terminal" /\ wf'.outcome \in {"published", "failed"}
                             /\ \A j \in zombies' : j.gen = g /\ j.act = "record_terminal" =>
                                  j.outcome \in {"published", "failed"}
      BY DEF BegunOK
    <2>1. Begun(g)
      BY <1>2, <1>4 DEF Begun, SamePlace
    <2>2. run[g].state \in {"awaiting_approval", "published", "failed"}
      BY <2>1 DEF OneRunInv, BegunOK
    <2>3. run'[g].state = run[g].state
      BY <1>2, <2>2 DEF Terminal, Working, Contract!TerminalStates, Contract!ActiveStates
    <2>4. IsTerminal(g)' = IsTerminal(g)
      BY <2>3 DEF IsTerminal
    <2> QED
      BY <1>4, <2>1, <2>2, <2>3, <2>4 DEF OneRunInv, BegunOK, SamePlace
  <1> QED
    BY <1>5, <1>6, <1>7, <1>8, <1>9 DEF OneRunInv

\* The attempt the workflow waits for has failed and is the last one.
Exhausted ==
  \/ wf.step = "fatal"
  \/ wf.attempts + 1 >= MaxAttempts /\ (wf.step = "error" \/ disturbed < MaxDisturbances)

\* The ways the workflow goes on from a phase: a further attempt, the next
\* phase, the terminal record, or its end when that record cannot be written.
Retried ==
  /\ wf.pc \in Activities /\ wf'.pc = wf.pc /\ wf'.outcome = wf.outcome
  /\ wf'.step = FirstStep(wf.pc) /\ wf'.attempts = wf.attempts + 1
  /\ disturbed' = disturbed + 1 \/ (wf.step = "error" /\ disturbed' = disturbed)

Entered ==
  /\ UNCHANGED disturbed
  /\ wf'.step = FirstStep(wf'.pc) /\ wf'.outcome = wf.outcome
  /\ \/ wf.pc \in Stages \cup {"checks"} /\ wf.step = "ok" /\ wf'.pc = NextStage[wf.pc]
     \/ wf.pc = "await" /\ wf'.pc = "publish"
     \/ wf.pc = "record_terminal" /\ wf.step = "ok" /\ wf'.pc = "wrapup"

Decided ==
  /\ wf'.pc = "record_terminal" /\ wf'.step = "commit" /\ wf'.attempts = 0
  /\ wf'.outcome \in Outcomes
  /\ \/ wf.pc \in Stages \cup {"checks", "await"} /\ wf'.outcome # "published"
     \/ wf.pc = "publish" /\ wf'.outcome \in {"published", "failed"}
     \/ wf.pc = "record_terminal" /\ Exhausted /\ wf'.outcome = "failed"

Dropped ==
  wf.pc = "record_terminal" /\ Exhausted /\ wf'.pc = "closed"

PhaseChange ==
  /\ wf'.gen = wf.gen
  /\ UNCHANGED run /\ (UNCHANGED zombies \/ Abandon)
  /\ \/ wf'.supersede = wf.supersede /\ (Retried \/ Entered \/ Decided)
     \/ Dropped

LEMMA FinishedFields ==
  ASSUME NEW w \in Execution
  PROVE  /\ \A outcome, guarded :
              LET v == Finish(w, outcome, guarded) IN
              /\ v.pc = "record_terminal" /\ v.step = "commit" /\ v.attempts = 0
              /\ v.outcome = outcome /\ v.gen = w.gen /\ v.supersede = w.supersede
         /\ \A pc :
              LET v == Enter(w, pc) IN
              /\ v.pc = pc /\ v.step = FirstStep(pc) /\ v.outcome = w.outcome
              /\ v.gen = w.gen /\ v.supersede = w.supersede
         /\ ClosedExecution(w).pc = "closed" /\ ClosedExecution(w).gen = w.gen
         /\ ClosedExecution(w).supersede = 0
  BY DEF Finish, Enter, FirstStep, Stages, ClosedExecution, Idle, Execution

LEMMA DecidedFields ==
  ASSUME wf \in Execution, NEW outcome, NEW guarded, wf' = Finish(wf, outcome, guarded)
  PROVE  /\ wf'.pc = "record_terminal" /\ wf'.step = "commit" /\ wf'.attempts = 0
         /\ wf'.outcome = outcome /\ wf'.gen = wf.gen /\ wf'.supersede = wf.supersede
  BY DEF Finish, Enter, FirstStep, Stages, Execution

LEMMA AttemptPhase ==
  ASSUME IInv, AttemptEnds \/ AttemptLost
  PROVE  PhaseChange
  <1>1. /\ wf \in Execution /\ ExecutionOK(wf, run) /\ disturbed \in Nat
        /\ MaxAttempts \in Nat /\ MaxDisturbances \in Nat
    BY LifecycleAssumption DEF IInv, TypeOK
  <1>2. wf.pc \in Activities
    BY <1>1 DEF AttemptEnds, AttemptLost, Results, ExecutionOK
  <1>3. UNCHANGED run /\ (UNCHANGED zombies \/ Abandon)
    BY DEF AttemptEnds, AttemptLost
  <1>4. CASE wf.step = "ok" /\ wf' = AfterSuccess(wf) /\ UNCHANGED disturbed
    <2>1. CASE wf.pc \in Stages /\ Interrupted(wf)
      <3>1. wf' = Finish(wf, "cancelled", TRUE)
        BY <1>4, <2>1 DEF AfterSuccess, Stages
      <3>2. /\ wf'.pc = "record_terminal" /\ wf'.step = "commit" /\ wf'.attempts = 0
            /\ wf'.outcome = "cancelled" /\ wf'.gen = wf.gen /\ wf'.supersede = wf.supersede
        BY <1>1, <3>1, DecidedFields
      <3> QED
        BY <1>3, <2>1, <3>2 DEF PhaseChange, Decided, Outcomes
    <2>2. CASE wf.pc = "checks" \/ (wf.pc \in Stages /\ ~Interrupted(wf))
      <3>1. wf' = Enter(wf, NextStage[wf.pc])
        BY <1>4, <2>2 DEF AfterSuccess, Stages
      <3> QED
        BY <1>1, <1>3, <1>4, <2>2, <3>1, FinishedFields DEF PhaseChange, Entered
    <2>3. CASE wf.pc = "publish"
      <3>1. wf' = Finish(wf, "published", FALSE)
        BY <1>4, <2>3 DEF AfterSuccess, Stages
      <3> QED
        BY <1>1, <1>3, <2>3, <3>1, DecidedFields DEF PhaseChange, Decided, Outcomes
    <2>4. CASE wf.pc = "record_terminal"
      <3>1. wf' = Enter(wf, "wrapup")
        BY <1>4, <2>4 DEF AfterSuccess, Stages
      <3> QED
        BY <1>1, <1>3, <1>4, <2>4, <3>1, FinishedFields DEF PhaseChange, Entered
    <2> QED
      BY <1>2, <2>1, <2>2, <2>3, <2>4 DEF Activities
  <1>5. ASSUME NEW retryable \in BOOLEAN, wf' = AfterAttempt(wf, retryable),
               \/ disturbed' = disturbed + 1 /\ disturbed < MaxDisturbances /\ retryable
               \/ wf.step = "error" /\ retryable /\ UNCHANGED disturbed
               \/ wf.step = "fatal" /\ ~retryable /\ UNCHANGED disturbed
        PROVE  PhaseChange
    <2>1. CASE retryable /\ wf.attempts + 1 < MaxAttempts
      <3>1. wf' = [wf EXCEPT !.attempts = @ + 1, !.step = FirstStep(wf.pc)]
        BY <1>5, <2>1 DEF AfterAttempt
      <3>2. /\ wf'.attempts = wf.attempts + 1 /\ wf'.step = FirstStep(wf.pc) /\ wf'.pc = wf.pc
            /\ wf'.gen = wf.gen /\ wf'.supersede = wf.supersede /\ wf'.outcome = wf.outcome
        BY <1>1, <3>1 DEF Execution
      <3>3. Retried
        BY <1>2, <1>5, <2>1, <3>2 DEF Retried
      <3> QED
        BY <1>3, <3>2, <3>3 DEF PhaseChange
    <2>2. CASE ~(retryable /\ wf.attempts + 1 < MaxAttempts)
      <3>1. wf' = AfterActivityError(wf)
        BY <1>5, <2>2 DEF AfterAttempt
      <3>2. wf.pc = "record_terminal" => Exhausted
        BY <1>1, <1>5, <2>2 DEF Exhausted, Execution
      <3>3. CASE wf.pc \in Stages /\ Interrupted(wf)
        <4>1. wf' = Finish(wf, "cancelled", TRUE)
          BY <3>1, <3>3 DEF AfterActivityError, Stages
        <4>2. /\ wf'.pc = "record_terminal" /\ wf'.step = "commit" /\ wf'.attempts = 0
            /\ wf'.outcome = "cancelled" /\ wf'.gen = wf.gen /\ wf'.supersede = wf.supersede
          BY <1>1, <4>1, DecidedFields
        <4> QED
          BY <1>3, <3>3, <4>2 DEF PhaseChange, Decided, Outcomes
      <3>4. CASE wf.pc = "record_terminal" /\ ~wf.guarded
        <4>1. wf' = ClosedExecution(wf)
          BY <3>1, <3>4 DEF AfterActivityError, Stages
        <4> QED
          BY <1>1, <1>3, <3>2, <3>4, <4>1, FinishedFields DEF PhaseChange, Dropped
      <3>5. CASE /\ ~(wf.pc \in Stages /\ Interrupted(wf))
                 /\ ~(wf.pc = "record_terminal" /\ ~wf.guarded)
        <4>1. wf' = Finish(wf, "failed", FALSE)
          BY <3>1, <3>5 DEF AfterActivityError
        <4>2. /\ wf'.pc = "record_terminal" /\ wf'.step = "commit" /\ wf'.attempts = 0
              /\ wf'.outcome = "failed" /\ wf'.gen = wf.gen /\ wf'.supersede = wf.supersede
          BY <1>1, <4>1, DecidedFields
        <4>3. Decided
          BY <1>2, <3>2, <4>2 DEF Decided, Outcomes, Activities
        <4> QED
          BY <1>3, <4>2, <4>3 DEF PhaseChange
      <3> QED
        BY <3>3, <3>4, <3>5
    <2> QED
      BY <2>1, <2>2
  <1>6. CASE AttemptEnds
    BY <1>4, <1>5, <1>6 DEF AttemptEnds, Results
  <1>7. CASE AttemptLost
    BY <1>5, <1>7 DEF AttemptLost, Disturb
  <1> QED
    BY <1>6, <1>7

LEMMA InterruptPhase ==
  ASSUME IInv, StageInterrupted \/ AwaitEnds
  PROVE  PhaseChange
  <1>1. wf \in Execution
    BY DEF IInv, TypeOK
  <1>2. wf.pc \in Stages \cup {"await"}
    BY DEF StageInterrupted, AwaitEnds
  <1>3. UNCHANGED <<run, disturbed>> /\ (UNCHANGED zombies \/ Abandon)
    BY DEF StageInterrupted, AwaitEnds
  <1>4. \/ \E outcome \in {"cancelled", "timed_out", "rejected"}, guarded \in BOOLEAN :
             wf' = Finish(wf, outcome, guarded)
        \/ wf.pc = "await" /\ wf' = Enter(wf, "publish")
    BY DEF StageInterrupted, AwaitEnds
  <1>5. CASE \E outcome \in {"cancelled", "timed_out", "rejected"}, guarded \in BOOLEAN :
               wf' = Finish(wf, outcome, guarded)
    BY <1>1, <1>2, <1>3, <1>5, DecidedFields DEF PhaseChange, Decided, Outcomes
  <1>6. CASE wf.pc = "await" /\ wf' = Enter(wf, "publish")
    BY <1>1, <1>3, <1>6, FinishedFields DEF PhaseChange, Entered
  <1> QED
    BY <1>4, <1>5, <1>6

\* With attempts to spare, nothing but a terminal run exhausts them.
LEMMA PhaseKeepsOneRun ==
  ASSUME Undisturbed, IInv, OneRunInv, PhaseChange, [Next]_vars
  PROVE  OneRunInv'
  <1>1. /\ wf \in Execution /\ ExecutionOK(wf, run) /\ zombies \subseteq AbandonedAttempt
        /\ disturbed \in Nat /\ disturbed <= MaxDisturbances /\ disturbed' \in Nat
        /\ MaxDisturbances \in Nat /\ MaxAttempts \in Nat
        /\ wf.pc # "closed" => wf.gen \in Gens
    BY StepLemma, LifecycleAssumption DEF IInv, TypeOK, StepOK
  <1>2. wf'.gen = wf.gen /\ UNCHANGED run
    BY DEF PhaseChange
  <1>3. \A g \in Gens : IsTerminal(g)' = IsTerminal(g)
    BY <1>2 DEF IsTerminal
  <1>4. wf.pc = "record_terminal" /\ Exhausted => IsTerminal(wf.gen)
    BY <1>1 DEF Undisturbed, Exhausted, OneRunInv, RecordedOK, Execution
  <1>5. wf.pc \notin {"closed", "starting", "wrapup"}
    BY DEF PhaseChange, Retried, Entered, Decided, Dropped, Activities, Stages
  <1>6. wf'.pc # "starting" /\ (wf'.pc = "closed" => IsTerminal(wf.gen))
    BY <1>4, <1>5 DEF PhaseChange, Retried, Entered, Decided, Dropped, NextStage, Stages
  <1>7. RecordedOK'
    <2>1. wf'.pc = "record_terminal" /\ run[wf.gen].state \notin Terminal =>
            wf'.step = "commit" /\ wf'.attempts <= disturbed'
      <3>1. CASE Retried
        BY <1>1, <3>1 DEF Retried, OneRunInv, RecordedOK, IsTerminal, FirstStep, Stages, Execution
      <3>2. CASE Entered
        BY <3>2 DEF Entered, NextStage, Stages
      <3>3. CASE Decided
        BY <1>1, <3>3 DEF Decided
      <3>4. CASE Dropped
        BY <3>4 DEF Dropped
      <3> QED
        BY <3>1, <3>2, <3>3, <3>4 DEF PhaseChange
    <2>2. wf'.pc = "wrapup" => run[wf.gen].state \in Terminal
      <3>1. wf'.pc = "wrapup" => wf.pc = "record_terminal" /\ wf.step = "ok"
        BY <1>5 DEF PhaseChange, Retried, Entered, Decided, Dropped, NextStage, Stages
      <3> QED
        BY <3>1 DEF OneRunInv, RecordedOK, IsTerminal
    <2> QED
      BY <1>2, <1>6, <2>1, <2>2 DEF RecordedOK, IsTerminal
  <1>8. WorkingOK'
    <2>1. \A g \in Gens : run[g].state \in Working => ~IsTerminal(g) /\ wf.gen = g
      BY DEF OneRunInv, WorkingOK, Working, IsTerminal, Terminal, Contract!TerminalStates,
         Contract!ActiveStates
    <2> QED
      BY <1>2, <1>6, <2>1 DEF WorkingOK
  <1>9. \A j \in zombies' : j \in zombies \/ (/\ j.gen = wf.gen /\ j.act = wf.pc
                                              /\ j.outcome = wf.outcome)
    BY DEF PhaseChange, Abandon, Attempt
  <1>10. wf.pc = "record_terminal" /\ ~IsTerminal(wf.gen) => wf'.pc = "record_terminal"
    BY <1>4 DEF PhaseChange, Retried, Entered, Decided, Dropped, OneRunInv, RecordedOK
  <1>11. AbandonedOK'
    <2> SUFFICES ASSUME NEW j \in zombies', ~IsTerminal(j.gen)'
                 PROVE  /\ wf'.gen = j.gen /\ wf'.pc \notin {"closed", "starting"}
                        /\ j.act = "record_terminal" => wf'.pc = "record_terminal"
      BY DEF AbandonedOK
    <2>1. ~IsTerminal(j.gen)
      BY <1>2 DEF IsTerminal
    <2>2. j.gen = wf.gen /\ (j.act = "record_terminal" => wf.pc = "record_terminal")
      BY <1>9, <2>1 DEF OneRunInv, AbandonedOK
    <2> QED
      BY <1>2, <1>6, <1>10, <2>1, <2>2
  <1>12. AwaitedOK'
    <2>1. wf'.pc \in {"await", "publish"} \/ (wf'.pc = "verify" /\ wf'.step = "ok") =>
            \/ wf.pc \in {"await", "publish"}
            \/ wf.pc = "verify" /\ wf.step = "ok"
      BY DEF PhaseChange, Retried, Entered, Decided, Dropped, NextStage, Stages, FirstStep
    <2> QED
      BY <1>2, <2>1 DEF OneRunInv, AwaitedOK
  <1>13. BegunOK'
    <2> SUFFICES ASSUME NEW g \in Gens, Begun(g)'
                 PROVE  /\ run[g].state \in {"awaiting_approval", "published", "failed"}
                        /\ ~IsTerminal(g) =>
                             /\ wf.gen = g
                             /\ \/ wf'.pc = "publish"
                                \/ wf'.pc = "record_terminal" /\ wf'.outcome \in {"published", "failed"}
                             /\ \A j \in zombies' : j.gen = g /\ j.act = "record_terminal" =>
                                  j.outcome \in {"published", "failed"}
      BY <1>2, <1>3 DEF BegunOK
    <2>1. CASE Begun(g)
      <3>1. run[g].state \in {"awaiting_approval", "published", "failed"}
        BY <2>1 DEF OneRunInv, BegunOK
      <3>2. ASSUME ~IsTerminal(g)
            PROVE  /\ wf.gen = g
                   /\ \/ wf.pc = "publish"
                      \/ wf.pc = "record_terminal" /\ wf.outcome \in {"published", "failed"}
                   /\ \A j \in zombies : j.gen = g /\ j.act = "record_terminal" =>
                        j.outcome \in {"published", "failed"}
        BY <2>1, <3>2 DEF OneRunInv, BegunOK
      <3>3. ASSUME ~IsTerminal(g)
            PROVE  \/ wf'.pc = "publish"
                   \/ wf'.pc = "record_terminal" /\ wf'.outcome \in {"published", "failed"}
        BY <1>4, <1>10, <3>2, <3>3
        DEF PhaseChange, Retried, Entered, Decided, Dropped, Stages
      <3> QED
        BY <1>9, <3>1, <3>2, <3>3
    <2>2. CASE ~Begun(g)
      <3>1. wf.gen = g /\ wf.pc = "await" /\ wf'.pc = "publish"
        <4>1. wf.pc # "publish" \/ wf.gen # g
          BY <2>2 DEF Begun
        <4>2. wf'.pc = "publish" /\ wf.pc # "publish" => wf.pc = "await"
          BY DEF PhaseChange, Retried, Entered, Decided, Dropped, NextStage, Stages
        <4>3. \A j \in zombies' : ~(j.gen = g /\ j.act = "publish")
          BY <1>9, <2>2, <4>1 DEF Begun
        <4>4. wf'.gen = g /\ wf'.pc = "publish"
          BY <1>2, <2>2, <4>3 DEF Begun
        <4> QED
          BY <1>2, <4>1, <4>2, <4>4
      <3>2. run[g].state = "awaiting_approval" /\ ~IsTerminal(g)
        BY <3>1 DEF OneRunInv, AwaitedOK, IsTerminal, Terminal, Contract!TerminalStates
      <3>3. \A j \in zombies' : ~(j.gen = g /\ j.act = "record_terminal")
        BY <1>9, <3>1, <3>2 DEF OneRunInv, AbandonedOK
      <3> QED
        BY <3>1, <3>2, <3>3
    <2> QED
      BY <2>1, <2>2
  <1> QED
    BY <1>7, <1>8, <1>11, <1>12, <1>13 DEF OneRunInv

\* An execution is started, begins with its run, continues as new or ends.
Begins ==
  /\ wf.pc = "starting" /\ wf'.pc = "checks" /\ wf'.gen = wf.gen /\ wf'.step = "remote"
  /\ wf'.supersede = IF wf.supersede <= wf.gen THEN 0 ELSE wf.supersede

Continues ==
  /\ wf.pc = "wrapup" /\ wf.supersede > wf.gen
  /\ wf'.pc = "starting" /\ wf'.gen = wf.supersede /\ wf'.supersede = 0

Ends ==
  /\ wf.pc = "wrapup" /\ wf.supersede = 0
  /\ wf'.pc = "closed" /\ wf'.gen = wf.gen /\ wf'.supersede = 0

LEMMA TurnFacts ==
  ASSUME IInv, StartRun \/ Wrapup
  PROVE  UNCHANGED <<run, zombies, disturbed>> /\ (Begins \/ Continues \/ Ends)
  <1>1. wf \in Execution /\ ExecutionOK(wf, run)
    BY DEF IInv, TypeOK
  <1>2. UNCHANGED <<run, zombies, disturbed>>
    BY DEF StartRun, Wrapup
  <1>3. CASE StartRun
    <2> DEFINE supersede == IF wf.supersede <= wf.gen THEN 0 ELSE wf.supersede
               approval == IF wf.approval.gen = wf.gen THEN wf.approval ELSE NoApproval
    <2>1. wf' = Enter([wf EXCEPT !.supersede = supersede, !.approval = approval], "checks")
      BY <1>3 DEF StartRun
    <2> HIDE DEF supersede, approval
    <2>2. /\ wf'.pc = "checks" /\ wf'.gen = wf.gen /\ wf'.step = "remote"
          /\ wf'.supersede = supersede
      BY <1>1, <2>1 DEF Enter, FirstStep, Stages, Execution
    <2> QED
      BY <1>2, <1>3, <2>2 DEF StartRun, Begins, supersede
  <1>4. CASE Wrapup
    <2>1. wf.supersede = 0 \/ wf.supersede > wf.gen
      BY <1>1, <1>4 DEF Wrapup, ExecutionOK
    <2>2. CASE wf.supersede > 0
      BY <1>1, <1>2, <1>4, <2>1, <2>2 DEF Wrapup, Continues, Starting, Idle
    <2>3. CASE ~(wf.supersede > 0)
      BY <1>1, <1>2, <1>4, <2>1, <2>3, FinishedFields DEF Wrapup, Ends, Execution
    <2> QED
      BY <2>2, <2>3
  <1> QED
    BY <1>3, <1>4

LEMMA TurnKeepsOneRun ==
  ASSUME IInv, OneRunInv,
         \/ StartRun \/ Wrapup
         \/ \E g \in Gens : Started(g)
  PROVE  OneRunInv'
  <1>1. /\ wf \in Execution /\ ExecutionOK(wf, run) /\ zombies \subseteq AbandonedAttempt
        /\ wf.pc # "closed" => wf.gen \in Gens
        /\ wf.gen > 0 => wf.gen \in Gens
    BY DEF IInv, TypeOK, Execution, Gens
  <1>2. /\ UNCHANGED <<run, zombies, disturbed>>
        /\ \/ Begins \/ Continues \/ Ends
           \/ wf.pc = "closed" /\ wf'.pc = "starting"
    <2>1. ASSUME NEW g \in Gens, Started(g)
          PROVE  UNCHANGED <<run, zombies, disturbed>> /\ wf.pc = "closed" /\ wf'.pc = "starting"
      <3>1. UNCHANGED <<run, zombies, disturbed>> /\ wf.pc = "closed" /\ wf' = Starting(g, g)
        BY <2>1 DEF Started
      <3> QED
        BY <3>1 DEF Starting, Idle
    <2> QED
      BY <2>1, TurnFacts
  <1>3. wf.pc \in {"starting", "wrapup", "closed"} /\ wf'.pc \in {"starting", "checks", "closed"}
    BY <1>2 DEF Begins, Continues, Ends
  <1>4. \A j \in zombies : IsTerminal(j.gen)
    BY <1>2, <1>3 DEF OneRunInv, AbandonedOK, RecordedOK, Begins
  <1>5. \A g \in Gens : run[g].state \notin Working
    <2> SUFFICES ASSUME NEW g \in Gens, run[g].state \in Working PROVE FALSE
      OBVIOUS
    <2>1. wf.gen = g /\ wf.pc = "wrapup"
      BY <1>3 DEF OneRunInv, WorkingOK
    <2> QED
      BY <2>1 DEF OneRunInv, RecordedOK, IsTerminal, Working, Terminal, Contract!TerminalStates,
         Contract!ActiveStates
  <1>6. RecordedOK'
    BY <1>2, <1>3 DEF OneRunInv, RecordedOK, IsTerminal, Begins, Continues, Ends
  <1>7. WorkingOK'
    BY <1>2, <1>5 DEF WorkingOK
  <1>8. AbandonedOK'
    BY <1>2, <1>4 DEF AbandonedOK, IsTerminal
  <1>9. AwaitedOK'
    BY <1>3 DEF AwaitedOK
  <1>10. BegunOK'
    <2> SUFFICES ASSUME NEW g \in Gens, Begun(g)'
                 PROVE  run[g].state \in {"published", "failed"}
      BY <1>2 DEF BegunOK, IsTerminal, Terminal, Contract!TerminalStates
    <2>1. Begun(g)
      BY <1>2, <1>3 DEF Begun
    <2>2. run[g].state \in {"awaiting_approval", "published", "failed"}
      BY <2>1 DEF OneRunInv, BegunOK
    <2> QED
      BY <1>5, <2>2 DEF Working, Contract!ActiveStates
  <1> QED
    BY <1>6, <1>7, <1>8, <1>9, <1>10 DEF OneRunInv

LEMMA OneRunInit == Init => OneRunInv
  <1> SUFFICES ASSUME Init PROVE OneRunInv
    OBVIOUS
  <1>1. /\ wf.pc = "closed" /\ wf.gen = 0 /\ zombies = {}
        /\ \A g \in Gens : run[g].state = Contract!Absent /\ run[g].reviewed = FALSE
    BY DEF Init, Idle, NoRun
  <1> QED
    BY <1>1 DEF OneRunInv, RecordedOK, WorkingOK, AbandonedOK, AwaitedOK, BegunOK, Begun, Working,
       Contract!Absent, Contract!ActiveStates

\* Every step is a transaction, a phase change, a turn of the execution, or
\* takes place outside the workflow.
LEMMA StepKinds ==
  ASSUME Undisturbed, IInv, [Next]_vars
  PROVE  \/ WorkerStep \/ ZombieStep
         \/ PhaseChange
         \/ StartRun \/ Wrapup
         \/ \E d \in Dispatchers :
              DispatchStep(d) /\ disp[d].gen \in Gens /\ Started(disp[d].gen)
         \/ Outside
  <1>1. ASSUME NEW d \in Dispatchers, DispatchStep(d) \/ DispatcherFails(d)
        PROVE  \/ Outside
               \/ DispatchStep(d) /\ disp[d].gen \in Gens /\ Started(disp[d].gen)
    <2>1. DispatcherFails(d) => ~Started(disp[d].gen)
      BY DEF DispatcherFails, Started, Starting, Idle
    <2> QED
      BY <1>1, <2>1, DispatcherOutside
  <1>2. ~ExecutionExpires
    BY DEF Undisturbed, ExecutionExpires, Disturb
  <1> QED
    BY <1>1, <1>2, IntakeOutside, HumanOutside, CancelOutside, AttemptPhase, InterruptPhase
    DEF Next, Workflow

LEMMA OneRunStep ==
  ASSUME Undisturbed, IInv, OneRunInv, [Next]_vars
  PROVE  OneRunInv'
  BY StepKinds, TransactionKeepsOneRun, PhaseKeepsOneRun, TurnKeepsOneRun, OutsideKeepsOneRun

LEMMA OneRunInvariant ==
  ASSUME Undisturbed
  PROVE  Spec => []OneRunInv
  <1>1. IInv /\ OneRunInv /\ [Next]_vars => OneRunInv'
    BY OneRunStep
  <1> QED
    BY OneRunInit, <1>1, InductiveInvariant, PTL DEF Spec

\* As long as no execution is closed by its timeout and an activity has more
\* attempts than there are disturbances, two runs of the pull request are
\* never worked on at once, whatever is superseded, abandoned or sent twice.
THEOREM OneRunAtATime ==
  ASSUME Undisturbed
  PROVE  Spec => []OneRunActive
  <1>1. OneRunInv => OneRunActive
    BY DEF OneRunInv, WorkingOK, OneRunActive, Working
  <1> QED
    BY <1>1, OneRunInvariant, PTL

\* Under the same conditions a run whose review is on GitHub is recorded as
\* published or as failed: no interrupt and no late attempt withdraws it.
THEOREM ReviewIsNotWithdrawn ==
  ASSUME Undisturbed
  PROVE  Spec => []ReviewedNeverWithdrawn
  <1>1. OneRunInv => ReviewedNeverWithdrawn
    BY DEF OneRunInv, BegunOK, Begun, ReviewedNeverWithdrawn
  <1> QED
    BY <1>1, OneRunInvariant, PTL

-----------------------------------------------------------------------------
(* No accepted run is lost: the third invariant.  While the policy admits  *)
(* reviews nothing but a terminal record ends a run, so that the record    *)
(* the workflow writes never meets another one (OutcomeOK): the execution  *)
(* that would drop a pending supersede is never reached.                   *)

Admitted == Undisturbed /\ "policy" \notin Disturbances

Reviewing == Stages \cup {"starting", "checks", "await", "publish"}

\* The workflow has not asked for the terminal record yet, and the next run
\* has not begun.
OpenOK == wf.pc \in Reviewing => ~IsTerminal(wf.gen)
PendingOK == wf.supersede > 0 => ~IsTerminal(wf.supersede)

\* Whoever records the outcome of the run under review records the same one.
OutcomeOK ==
  wf.pc = "record_terminal" =>
    /\ wf.step \in {"commit", "ok"} /\ wf.attempts <= disturbed
    /\ IsTerminal(wf.gen) => run[wf.gen].state = TerminalState(wf.outcome)
    /\ \A j \in zombies :
         j.act = "record_terminal" /\ j.gen = wf.gen => j.outcome = wf.outcome

\* The command of run g was accepted, by Temporal at least.
Sent(g) ==
  \/ run[g].receipt = "accepted"
  \/ \E d \in Dispatchers : disp[d] = [pc |-> "sent", gen |-> g]

Held(g) ==
  \/ \E n \in Gens : n >= g /\ IsTerminal(n)
  \/ wf.pc # "closed" /\ (wf.gen >= g \/ wf.supersede >= g)

HeldOK == \A g \in Gens : Sent(g) => Held(g)

HeldInv == policy /\ OpenOK /\ PendingOK /\ OutcomeOK /\ HeldOK

LEMMA PolicyStays ==
  ASSUME Admitted, IInv, [Next]_vars
  PROVE  policy' = policy
  <1>1. ~ChangePolicy
    BY DEF Admitted, ChangePolicy, Disturb
  <1>2. Intake => policy' = policy
    BY <1>1 DEF Intake, ReceivePush, ReceiveReopened, ReceiveClosed, ReceiveRerun
  <1>3. Human => policy' = policy
    BY DEF Human, Decide, DispatchApproval
  <1>4. Workflow => policy' = policy
    BY DEF Workflow, WorkerStep, AttemptEnds, StartRun, StageInterrupted, AwaitEnds, Wrapup
  <1>5. (\E d \in Dispatchers : DispatchStep(d) \/ DispatcherFails(d)) => policy' = policy
    BY DEF DispatchStep, SelectCommand, DispatchCommand, InsertReceipt, DispatcherFails
  <1> QED
    BY <1>2, <1>3, <1>4, <1>5
    DEF Next, ZombieStep, AttemptLost, Cancel, ExecutionExpires, vars

\* A command is sent by a dispatcher that signals with start, and by nobody
\* else.
LEMMA SentFacts ==
  ASSUME IInv, [Next]_vars, NEW g \in Gens, Sent(g)'
  PROVE  \/ Sent(g)
         \/ \E d \in Dispatchers : disp[d].gen = g /\ SignalWithStart(d, g)
  <1>1. /\ run \in [Gens -> RunRecord]
        /\ disp \in [Dispatchers -> [pc : {"idle", "selected", "sent"}, gen : 0 .. MaxGen]]
    BY DEF IInv, TypeOK
  <1>2. ASSUME UNCHANGED disp, run'[g].receipt = "accepted" => run[g].receipt = "accepted"
        PROVE  Sent(g)
    BY <1>2 DEF Sent
  <1>3. CASE Intake
    <2>1. head \in Heads
      BY DEF IInv, TypeOK
    <2>2. (\E h \in Heads : InsertRun(h)) \/ UNCHANGED run
      BY <1>3, <2>1 DEF Intake, ReceivePush, ReceiveReopened, ReceiveClosed, ReceiveRerun,
         ChangePolicy, CreateRun
    <2>3. ASSUME NEW h \in Heads, InsertRun(h), run'[g].receipt = "accepted"
          PROVE  run[g].receipt = "accepted"
      <3>1. PICK n \in Gens : run' = [run EXCEPT ![n] = [NoRun(h) EXCEPT !.state = "queued"]]
        BY <2>3 DEF InsertRun
      <3>2. [NoRun(h) EXCEPT !.state = "queued"].receipt = "none"
        BY DEF NoRun
      <3> QED
        BY <1>1, <2>3, <3>1, <3>2
    <2>4. UNCHANGED disp
      BY <1>3 DEF Intake, ReceivePush, ReceiveReopened, ReceiveClosed, ReceiveRerun, ChangePolicy
    <2> QED
      BY <1>2, <2>2, <2>3, <2>4
  <1>4. CASE Human
    <2>1. PICK n \in Gens : Decide(n, "approve") \/ Decide(n, "reject") \/ DispatchApproval(n)
      BY <1>4 DEF Human
    <2>2. UNCHANGED disp
      BY <2>1 DEF Decide, DispatchApproval
    <2>3. PICK r : /\ run' = run \/ run' = [run EXCEPT ![n] = r]
                   /\ r.receipt = run[n].receipt
      <3>1. ASSUME NEW x
            PROVE  /\ [run[n] EXCEPT !.decision = x].receipt = run[n].receipt
                   /\ [run[n] EXCEPT !.notice = x].receipt = run[n].receipt
        BY <1>1 DEF RunRecord
      <3>2. \/ UNCHANGED run
            \/ \E x : run' = [run EXCEPT ![n] = [run[n] EXCEPT !.decision = x]]
            \/ \E x : run' = [run EXCEPT ![n] = [run[n] EXCEPT !.notice = x]]
        BY <1>1, <2>1 DEF Decide, DispatchApproval
      <3> QED
        BY <3>1, <3>2
    <2>5. run'[g].receipt = run[g].receipt
      BY <1>1, <2>3
    <2> QED
      BY <1>2, <2>2, <2>5
  <1>5. CASE WorkerStep \/ ZombieStep
    <2>1. UNCHANGED disp /\ run'[g].receipt = run[g].receipt
      BY <1>5, TransactionFacts DEF Advanced
    <2> QED
      BY <1>2, <2>1
  <1>6. CASE UNCHANGED <<run, disp>>
    BY <1>2, <1>6
  <1>7. CASE \E d \in Dispatchers : DispatchStep(d) \/ DispatcherFails(d)
    <2>1. PICK d \in Dispatchers : DispatchStep(d) \/ DispatcherFails(d)
      BY <1>7
    <2> DEFINE n == disp[d].gen
    <2>2. CASE SelectCommand(d) \/ DispatcherFails(d) \/ SkipLocked(d, n)
      <3>1. run'[g].receipt = run[g].receipt
        BY <2>2 DEF SelectCommand, DispatcherFails, SkipLocked
      <3>2. \A e \in Dispatchers :
              disp'[e] = [pc |-> "sent", gen |-> g] => disp[e] = [pc |-> "sent", gen |-> g]
        BY <1>1, <2>2 DEF SelectCommand, DispatcherFails, SkipLocked, IdleDispatcher
      <3> QED
        BY <3>1, <3>2 DEF Sent
    <2>3. CASE SkipTerminal(d, n) \/ SkipBlocked(d, n) \/ InsertReceipt(d)
      <3>1. \A e \in Dispatchers :
              disp'[e] = [pc |-> "sent", gen |-> g] => disp[e] = [pc |-> "sent", gen |-> g]
        BY <1>1, <2>3 DEF SkipTerminal, SkipBlocked, InsertReceipt, IdleDispatcher
      <3>2. CASE InsertReceipt(d) /\ n = g
        BY <1>1, <2>1, <3>2 DEF InsertReceipt, Sent
      <3>3. CASE InsertReceipt(d) /\ n # g
        BY <1>1, <3>1, <3>3 DEF InsertReceipt, Sent
      <3>4. CASE SkipTerminal(d, n) \/ SkipBlocked(d, n)
        <4>1. run'[g].receipt = "accepted" => run[g].receipt = "accepted"
          <5>1. \A m \in Gens \ {n} : run'[m] = run[m]
            BY <1>1, <3>4 DEF SkipTerminal, SkipBlocked
          <5>2. ASSUME n \in Gens
                PROVE  run'[n].receipt # "accepted" \/ run'[n].receipt = run[n].receipt
            <6>1. run[n] \in RunRecord
              BY <1>1, <5>2
            <6>2. /\ Receipted(run[n], "skipped").receipt \in {"skipped", run[n].receipt}
                  /\ \A s : [Receipted(run[n], "skipped") EXCEPT !.state = s].receipt
                            \in {"skipped", run[n].receipt}
              BY <6>1 DEF Receipted, RunRecord
            <6>3. CASE SkipTerminal(d, n)
              BY <1>1, <5>2, <6>2, <6>3 DEF SkipTerminal
            <6>4. CASE SkipBlocked(d, n)
              BY <1>1, <5>2, <6>2, <6>4 DEF SkipBlocked
            <6> QED
              BY <3>4, <6>3, <6>4
          <5> QED
            BY <5>1, <5>2
        <4> QED
          BY <3>1, <4>1 DEF Sent
      <3> QED
        BY <2>3, <3>2, <3>3, <3>4
    <2>4. CASE SignalWithStart(d, n)
      <3>1. run'[g].receipt = run[g].receipt
        BY <2>4 DEF SignalWithStart
      <3>2. \A e \in Dispatchers : e # d => disp'[e] = disp[e]
        BY <1>1, <2>4 DEF SignalWithStart
      <3>3. disp'[d].gen = n
        BY <1>1, <2>4 DEF SignalWithStart
      <3> QED
        BY <2>4, <3>1, <3>2, <3>3 DEF Sent
    <2> QED
      BY <2>1, <2>2, <2>3, <2>4 DEF DispatchStep, DispatchCommand
  <1>8. CASE ~Intake /\ ~Human /\ ~WorkerStep /\ ~ZombieStep
             /\ ~(\E d \in Dispatchers : DispatchStep(d) \/ DispatcherFails(d))
    <2>1. UNCHANGED <<run, disp>>
      BY <1>8 DEF Next, Workflow, AttemptEnds, StartRun, StageInterrupted, AwaitEnds, Wrapup,
         AttemptLost, Cancel, ExecutionExpires, vars
    <2> QED
      BY <1>6, <2>1
  <1> QED
    BY <1>3, <1>4, <1>5, <1>7, <1>8

\* Terminal runs stay terminal, and an open execution that keeps its place and
\* its pending supersede still holds what it held.
LEMMA HeldStays ==
  ASSUME \A g \in Gens : IsTerminal(g) => IsTerminal(g)',
         wf'.pc = "closed" => wf.pc = "closed",
         wf'.gen = wf.gen, wf.gen \in Nat,
         wf.supersede \in Nat, wf'.supersede \in Nat, wf'.supersede >= wf.supersede,
         NEW g \in Gens, Held(g)
  PROVE  Held(g)'
  BY DEF Held, Gens

LEMMA TransactionKeepsHeld ==
  ASSUME Admitted, IInv, OneRunInv, HeldInv, [Next]_vars, WorkerStep \/ ZombieStep
  PROVE  OpenOK' /\ PendingOK' /\ OutcomeOK' /\ \A g \in Gens : Held(g) => Held(g)'
  <1>1. PICK j \in Job, next \in Steps \cup Results :
          /\ j.gen \in Gens /\ TransactionOf(j, next) /\ Effect(j, next)
    BY TransactionFacts
  <1>2. /\ wf \in Execution /\ ExecutionOK(wf, run) /\ wf' \in Execution
        /\ wf.pc # "closed" => wf.gen \in Gens
        /\ wf.supersede > 0 => wf.supersede \in Gens
    BY StepLemma DEF IInv, TypeOK, StepOK, Execution, Gens
  <1> DEFINE r == run[j.gen]
             s == run'[j.gen]
  <1>3. \A g \in Gens \ {j.gen} : run'[g] = run[g]
    BY <1>1 DEF Effect
  <1>4. j.act = "checks" \/ j.act \in Stages \/ j.act = "publish" \/ j.act = "record_terminal"
    BY DEF Job, Activities
  <1>5. r.state \in Terminal => s.state = r.state
    BY <1>1, <1>4 DEF Effect
  <1>6. r.state \notin Terminal /\ s.state \in Terminal =>
          /\ j.act = "record_terminal" /\ s.state = TerminalState(j.outcome)
          /\ wf.gen = j.gen /\ wf.pc = "record_terminal"
    <2>1. r.state \notin Terminal /\ s.state \in Terminal => j.act = "record_terminal"
      BY <1>1, <1>4 DEF Effect, Working, Terminal, Contract!TerminalStates, Contract!ActiveStates
    <2>2. j.act = "record_terminal" /\ r.state \notin Terminal => s.state = TerminalState(j.outcome)
      BY <1>1 DEF Effect
    <2>3. j.act = "record_terminal" /\ r.state \notin Terminal =>
            wf.gen = j.gen /\ wf.pc = "record_terminal"
      BY <1>1 DEF TransactionOf, OneRunInv, AbandonedOK, IsTerminal, JobOf
    <2> QED
      BY <2>1, <2>2, <2>3
  <1>7. \A g \in Gens : IsTerminal(g) => IsTerminal(g)'
    BY <1>3, <1>5 DEF IsTerminal
  <1>8. \A g \in Gens : ~IsTerminal(g) /\ IsTerminal(g)' =>
          g = wf.gen /\ wf.pc = "record_terminal" /\ run'[g].state = TerminalState(j.outcome)
    BY <1>3, <1>6 DEF IsTerminal
  <1>9. wf'.pc = wf.pc /\ wf'.gen = wf.gen /\ wf'.supersede = wf.supersede
    BY <1>1 DEF TransactionOf
  <1>10. OpenOK'
    <2>1. wf.pc \in Reviewing => ~IsTerminal(wf.gen) /\ wf.gen \in Gens /\ wf.pc # "record_terminal"
      BY <1>2 DEF HeldInv, OpenOK, Reviewing, Stages
    <2>2. wf.pc \in Reviewing => run'[wf.gen].state \notin Terminal
      BY <1>8, <2>1 DEF IsTerminal
    <2> QED
      BY <1>9, <2>2 DEF OpenOK, IsTerminal
  <1>11. PendingOK'
    <2>1. wf.supersede > 0 => ~IsTerminal(wf.supersede) /\ wf.supersede \in Gens
      BY <1>2 DEF HeldInv, PendingOK
    <2>2. wf.supersede > 0 /\ wf.pc = "record_terminal" => wf.supersede # wf.gen
      BY <1>2 DEF ExecutionOK, Execution
    <2>3. wf.supersede > 0 => run'[wf.supersede].state \notin Terminal
      BY <1>8, <2>1, <2>2 DEF IsTerminal
    <2> QED
      BY <1>9, <2>3 DEF PendingOK, IsTerminal
  <1>12. OutcomeOK'
    <2> SUFFICES ASSUME wf.pc = "record_terminal"
                 PROVE  /\ wf'.step \in {"commit", "ok"} /\ wf'.attempts <= disturbed'
                        /\ run'[wf.gen].state \in Terminal =>
                             run'[wf.gen].state = TerminalState(wf.outcome)
                        /\ \A z \in zombies' :
                             z.act = "record_terminal" /\ z.gen = wf.gen => z.outcome = wf.outcome
      BY <1>1, <1>9 DEF OutcomeOK, IsTerminal, TransactionOf
    <2>1. /\ wf.step \in {"commit", "ok"} /\ wf.attempts <= disturbed
          /\ run[wf.gen].state \in Terminal => run[wf.gen].state = TerminalState(wf.outcome)
          /\ \A z \in zombies :
               z.act = "record_terminal" /\ z.gen = wf.gen => z.outcome = wf.outcome
      BY DEF HeldInv, OutcomeOK, IsTerminal
    <2>2. wf'.step \in {"commit", "ok"}
      <3>1. CASE wf'.step = wf.step
        BY <2>1, <3>1
      <3>2. CASE wf'.step # wf.step
        <4>1. j = JobOf(wf) /\ wf'.step = next
          BY <1>1, <3>2 DEF TransactionOf
        <4>2. j.act = "record_terminal" /\ j.outcome = wf.outcome /\ j.gen = wf.gen
          BY <4>1 DEF JobOf
        <4>3. next \in {"ok", "error"} /\ (next = "error" => r.state \in Terminal /\ r.state # TerminalState(wf.outcome))
          BY <1>1, <4>2 DEF Effect
        <4> QED
          BY <2>1, <4>1, <4>2, <4>3
      <3> QED
        BY <3>1, <3>2
    <2>3. j.act = "record_terminal" /\ j.gen = wf.gen => j.outcome = wf.outcome
      BY <1>1, <2>1 DEF TransactionOf, JobOf
    <2>4. run'[wf.gen].state \in Terminal => run'[wf.gen].state = TerminalState(wf.outcome)
      BY <1>2, <1>3, <1>5, <1>6, <2>1, <2>3
    <2>5. \A z \in zombies' :
            z.act = "record_terminal" /\ z.gen = wf.gen => z.outcome = wf.outcome
      BY <1>1, <2>1 DEF TransactionOf
    <2>6. wf'.attempts <= disturbed'
      BY <1>1, <2>1 DEF TransactionOf
    <2> QED
      BY <2>2, <2>4, <2>5, <2>6
  <1>13. \A g \in Gens : Held(g) => Held(g)'
    BY <1>2, <1>7, <1>9, HeldStays DEF Execution
  <1> QED
    BY <1>10, <1>11, <1>12, <1>13

LEMMA PhaseKeepsHeld ==
  ASSUME Admitted, IInv, OneRunInv, HeldInv, [Next]_vars, PhaseChange
  PROVE  OpenOK' /\ PendingOK' /\ OutcomeOK' /\ \A g \in Gens : Held(g) => Held(g)'
  <1>1. /\ wf \in Execution /\ ExecutionOK(wf, run)
        /\ disturbed \in Nat /\ disturbed <= MaxDisturbances
        /\ MaxDisturbances \in Nat /\ MaxAttempts \in Nat
        /\ wf.pc # "closed" => wf.gen \in Gens
    BY LifecycleAssumption DEF IInv, TypeOK
  <1>2. ~(wf.pc = "record_terminal" /\ Exhausted)
    BY <1>1 DEF Admitted, Undisturbed, Exhausted, HeldInv, OutcomeOK, Execution
  <1>3. /\ wf'.gen = wf.gen /\ wf'.supersede = wf.supersede /\ UNCHANGED run
        /\ Retried \/ Entered \/ Decided
    BY <1>2 DEF PhaseChange, Dropped
  <1>4. wf.pc \notin {"closed", "starting", "wrapup"} /\ wf'.pc \notin {"closed", "starting"}
    BY <1>3 DEF Retried, Entered, Decided, Activities, NextStage, Stages
  <1>5. \A g : IsTerminal(g)' = IsTerminal(g)
    BY <1>3 DEF IsTerminal
  <1>6. wf'.pc \in Reviewing => wf.pc \in Reviewing
    BY <1>3 DEF Retried, Entered, Decided, Reviewing, NextStage, Stages
  <1>7. OpenOK'
    BY <1>3, <1>6 DEF HeldInv, OpenOK, IsTerminal
  <1>8. PendingOK'
    BY <1>3 DEF HeldInv, PendingOK, IsTerminal
  <1>9. \A z \in zombies' : z \in zombies \/ (/\ z.gen = wf.gen /\ z.act = wf.pc
                                              /\ z.outcome = wf.outcome)
    BY DEF PhaseChange, Abandon, Attempt
  <1>10. OutcomeOK'
    <2>1. CASE Retried
      <3> SUFFICES ASSUME wf.pc = "record_terminal"
                   PROVE  /\ wf'.step \in {"commit", "ok"} /\ wf'.attempts <= disturbed'
                          /\ run[wf.gen].state \in Terminal =>
                               run[wf.gen].state = TerminalState(wf.outcome)
                          /\ \A z \in zombies' :
                               z.act = "record_terminal" /\ z.gen = wf.gen => z.outcome = wf.outcome
        BY <1>3, <2>1 DEF Retried, OutcomeOK, IsTerminal
      <3>1. /\ wf.step \in {"commit", "ok"} /\ wf.attempts <= disturbed
            /\ run[wf.gen].state \in Terminal => run[wf.gen].state = TerminalState(wf.outcome)
            /\ \A z \in zombies :
                 z.act = "record_terminal" /\ z.gen = wf.gen => z.outcome = wf.outcome
        BY DEF HeldInv, OutcomeOK, IsTerminal
      <3>2. wf'.step = "commit" /\ wf'.attempts <= disturbed'
        BY <1>1, <2>1, <3>1 DEF Retried, FirstStep, Stages, Execution
      <3> QED
        BY <1>9, <3>1, <3>2
    <2>2. CASE Entered
      BY <2>2 DEF Entered, OutcomeOK, NextStage, Stages
    <2>3. CASE Decided
      <3>1. wf.pc \in Reviewing /\ wf.pc # "record_terminal"
        BY <1>2, <2>3 DEF Decided, Reviewing, Stages
      <3>2. run[wf.gen].state \notin Terminal
        BY <3>1 DEF HeldInv, OpenOK, IsTerminal
      <3>3. \A z \in zombies' : ~(z.act = "record_terminal" /\ z.gen = wf.gen)
        BY <1>9, <3>1, <3>2 DEF OneRunInv, AbandonedOK, IsTerminal
      <3>4. wf'.attempts <= disturbed' /\ wf'.step = "commit"
        BY <2>3, StepLemma, LifecycleAssumption DEF Decided, StepOK, IInv, TypeOK
      <3> QED
        BY <1>3, <3>2, <3>3, <3>4 DEF OutcomeOK, IsTerminal
    <2> QED
      BY <1>3, <2>1, <2>2, <2>3
  <1>11. \A g \in Gens : Held(g) => Held(g)'
    BY <1>1, <1>3, <1>4, <1>5, HeldStays DEF Execution
  <1> QED
    BY <1>7, <1>8, <1>10, <1>11

LEMMA TurnKeepsHeld ==
  ASSUME IInv, OneRunInv, HeldInv, StartRun \/ Wrapup
  PROVE  OpenOK' /\ PendingOK' /\ OutcomeOK' /\ \A g \in Gens : Held(g) => Held(g)'
  <1>1. /\ wf \in Execution /\ wf.gen \in Nat /\ wf.supersede \in Nat
        /\ wf.pc # "closed" => wf.gen \in Gens
        /\ UNCHANGED <<run, zombies, disturbed>> /\ (Begins \/ Continues \/ Ends)
    BY TurnFacts DEF IInv, TypeOK, Execution
  <1>2. OpenOK'
    BY <1>1 DEF HeldInv, OpenOK, PendingOK, IsTerminal, Begins, Continues, Ends, Reviewing, Stages
  <1>3. PendingOK'
    BY <1>1 DEF HeldInv, PendingOK, IsTerminal, Begins, Continues, Ends
  <1>4. OutcomeOK'
    BY <1>1 DEF OutcomeOK, Begins, Continues, Ends
  <1>5. ASSUME NEW g \in Gens, Held(g)
        PROVE  Held(g)'
    <2>1. CASE \E n \in Gens : n >= g /\ IsTerminal(n)
      BY <1>1, <2>1 DEF Held, IsTerminal
    <2>2. CASE wf.gen >= g \/ wf.supersede >= g
      <3>1. CASE Begins
        BY <1>1, <2>2, <3>1 DEF Begins, Held, Gens
      <3>2. CASE Continues
        BY <1>1, <2>2, <3>2 DEF Continues, Held, Gens
      <3>3. CASE Ends
        <4>1. wf.gen >= g /\ wf.gen \in Gens /\ IsTerminal(wf.gen)
          BY <1>1, <2>2, <3>3 DEF Ends, Gens, OneRunInv, RecordedOK
        <4> QED
          BY <1>1, <4>1 DEF Held, IsTerminal
      <3> QED
        BY <1>1, <3>1, <3>2, <3>3
    <2> QED
      BY <1>5, <2>1, <2>2 DEF Held
  <1> QED
    BY <1>2, <1>3, <1>4, <1>5

LEMMA StartedKeepsHeld ==
  ASSUME HeldInv, NEW n \in Gens, Started(n)
  PROVE  /\ OpenOK' /\ PendingOK' /\ OutcomeOK' /\ \A g \in Gens : Held(g) => Held(g)'
         /\ wf'.pc = "starting" /\ wf'.gen = n
  <1>1. UNCHANGED <<run, zombies, disturbed>> /\ wf.pc = "closed" /\ wf' = Starting(n, n)
        /\ ~IsTerminal(n)
    BY DEF Started
  <1>2. wf'.pc = "starting" /\ wf'.gen = n /\ wf'.supersede = n
    BY <1>1 DEF Starting, Idle
  <1>3. OpenOK' /\ PendingOK' /\ OutcomeOK'
    BY <1>1, <1>2 DEF OpenOK, PendingOK, OutcomeOK, IsTerminal
  <1>4. \A g \in Gens : Held(g) => Held(g)'
    BY <1>1 DEF Held, IsTerminal
  <1> QED
    BY <1>2, <1>3, <1>4

LEMMA OutsideKeepsHeld ==
  ASSUME IInv, HeldInv, [Next]_vars, Outside
  PROVE  OpenOK' /\ PendingOK' /\ OutcomeOK' /\ \A g \in Gens : Held(g) => Held(g)'
  <1>1. /\ wf \in Execution /\ wf' \in Execution
        /\ wf.pc # "closed" => wf.gen \in Gens
        /\ wf.supersede > 0 => wf.supersede \in Gens
        /\ disturbed \in Nat /\ disturbed' \in Nat
    BY StepLemma, LifecycleAssumption DEF IInv, TypeOK, StepOK, Execution, Gens
  <1>2. \A g \in Gens : (run'[g].state \in Terminal) = (run[g].state \in Terminal)
    <2> SUFFICES ASSUME NEW g \in Gens
                 PROVE  (run'[g].state \in Terminal) = (run[g].state \in Terminal)
      OBVIOUS
    <2>1. run'[g].state # run[g].state => run[g].state = Contract!Absent /\ run'[g].state = "queued"
      BY DEF HeldInv, Outside, RowOutside
    <2> QED
      BY <2>1 DEF Terminal, Contract!TerminalStates, Contract!Absent
  <1>3. SamePlace /\ UNCHANGED zombies /\ disturbed' >= disturbed /\ SupersedesLater
    BY DEF Outside
  <1>4. OpenOK'
    BY <1>1, <1>2, <1>3 DEF HeldInv, OpenOK, IsTerminal, SamePlace, Reviewing, Stages
  <1>5. PendingOK'
    <2>1. wf'.supersede > 0 => wf'.supersede \in Gens /\ run[wf'.supersede].state \notin Terminal
      BY <1>1, <1>3 DEF HeldInv, PendingOK, SupersedesLater, IsTerminal
    <2> QED
      BY <1>2, <2>1 DEF PendingOK, IsTerminal
  <1>6. OutcomeOK'
    <2>1. wf.pc = "record_terminal" /\ run'[wf.gen].state \in Terminal =>
            /\ run[wf.gen].state \in Terminal
            /\ run'[wf.gen].state = run[wf.gen].state
      BY <1>1, <1>2 DEF Outside, RowOutside, Terminal, Contract!TerminalStates, HeldInv
    <2>2. wf.pc = "record_terminal" => wf.attempts <= disturbed'
      BY <1>1, <1>3 DEF HeldInv, OutcomeOK, Execution
    <2> QED
      BY <1>3, <2>1, <2>2 DEF HeldInv, OutcomeOK, IsTerminal, SamePlace
  <1>7. \A g \in Gens : Held(g) => Held(g)'
    <2>1. \A g \in Gens : IsTerminal(g) => IsTerminal(g)'
      BY <1>2 DEF IsTerminal
    <2>2. wf'.supersede >= wf.supersede
      BY <1>1, <1>3 DEF SupersedesLater, Execution
    <2> QED
      BY <1>1, <1>3, <2>1, <2>2, HeldStays DEF SamePlace, Execution
  <1> QED
    BY <1>4, <1>5, <1>6, <1>7

\* Signal-with-start leaves the signalled run held.
LEMMA SignalHolds ==
  ASSUME IInv, NEW d \in Dispatchers, disp[d].gen \in Gens, SignalWithStart(d, disp[d].gen)
  PROVE  wf'.pc # "closed" /\ (wf'.gen >= disp[d].gen \/ wf'.supersede >= disp[d].gen)
  <1> DEFINE g == disp[d].gen
  <1>1. wf \in Execution /\ wf.gen \in Nat /\ wf.supersede \in Nat /\ g \in Nat /\ g > 0
    BY DEF IInv, TypeOK, Execution, Gens
  <1>2. CASE wf.pc = "closed"
    <2>1. wf' = Starting(g, g)
      BY <1>2 DEF SignalWithStart
    <2>2. wf'.pc = "starting" /\ wf'.gen = g
      BY <2>1 DEF Starting, Idle
    <2> QED
      BY <1>1, <2>2
  <1>3. CASE wf.pc # "closed"
    <2>1. wf' = Superseded(wf, g)
      BY <1>3 DEF SignalWithStart
    <2>2. CASE wf' = wf
      <3>1. g <= wf.gen \/ g <= wf.supersede
        <4>1. ASSUME g > wf.gen, g > wf.supersede
              PROVE  FALSE
          <5>1. wf' = [wf EXCEPT !.supersede = g]
            BY <1>1, <2>1, <4>1 DEF Superseded
          <5>2. wf'.supersede = g
            BY <1>1, <5>1 DEF Execution
          <5> QED
            BY <1>1, <2>2, <4>1, <5>2
        <4> QED
          BY <1>1, <4>1
      <3> QED
        BY <1>1, <1>3, <2>2, <3>1
    <2>3. CASE wf' # wf
      <3>1. wf' = [wf EXCEPT !.supersede = g]
        BY <2>1, <2>3 DEF Superseded
      <3>2. wf'.supersede = g /\ wf'.pc = wf.pc
        BY <1>1, <3>1 DEF Execution
      <3> QED
        BY <1>1, <1>3, <3>2
    <2> QED
      BY <2>2, <2>3
  <1> QED
    BY <1>2, <1>3

LEMMA HeldStep ==
  ASSUME Admitted, IInv, OneRunInv, HeldInv, [Next]_vars
  PROVE  HeldInv'
  <1>1. OpenOK' /\ PendingOK' /\ OutcomeOK' /\ \A g \in Gens : Held(g) => Held(g)'
    BY StepKinds, TransactionKeepsHeld, PhaseKeepsHeld, TurnKeepsHeld, StartedKeepsHeld,
       OutsideKeepsHeld DEF Admitted
  <1>2. policy'
    <2>1. policy' = policy
      BY PolicyStays
    <2>2. policy
      BY DEF HeldInv
    <2> QED
      BY <2>1, <2>2
  <1>3. ASSUME NEW g \in Gens, Sent(g)'
        PROVE  Held(g)'
    <2>1. CASE Sent(g)
      BY <1>1, <2>1 DEF HeldInv, HeldOK
    <2>2. CASE ~Sent(g)
      <3>1. PICK d \in Dispatchers : disp[d].gen = g /\ SignalWithStart(d, g)
        BY <1>3, <2>2, SentFacts
      <3> QED
        BY <3>1, SignalHolds DEF Held
    <2> QED
      BY <2>1, <2>2
  <1> QED
    BY <1>1, <1>2, <1>3 DEF HeldInv, HeldOK

LEMMA HeldInit == Init => HeldInv
  <1> SUFFICES ASSUME Init PROVE HeldInv
    OBVIOUS
  <1>1. /\ wf.pc = "closed" /\ wf.supersede = 0 /\ policy
        /\ \A g \in Gens : run[g].receipt = "none"
        /\ \A d \in Dispatchers : disp[d].pc = "idle"
    BY DEF Init, Idle, NoRun, IdleDispatcher
  <1>2. \A g \in Gens : ~Sent(g)
    BY <1>1 DEF Sent
  <1> QED
    BY <1>1, <1>2 DEF HeldInv, OpenOK, PendingOK, OutcomeOK, HeldOK, Reviewing, Stages

\* As long as, besides, the policy goes on admitting reviews, an accepted run
\* is never lost between two executions: it or a later run is finished, under
\* review or waiting for the open execution to continue with it.
THEOREM NoAcceptedRunIsLost ==
  ASSUME Admitted
  PROVE  Spec => []AcceptedIsHeld
  <1>1. HeldInv => AcceptedIsHeld
    BY DEF HeldInv, HeldOK, Held, Sent, AcceptedIsHeld
  <1>2. IInv /\ OneRunInv /\ HeldInv /\ [Next]_vars => HeldInv'
    BY HeldStep
  <1>3. Undisturbed
    BY DEF Admitted
  <1>4. Spec => []OneRunInv
    BY <1>3, OneRunInvariant
  <1> QED
    BY HeldInit, <1>1, <1>2, <1>4, InductiveInvariant, PTL DEF Spec
=============================================================================
