--------------------------- MODULE ReviewLifecycle ---------------------------
(***************************************************************************)
(* The life of the review runs of ONE pull request, from the webhook that  *)
(* creates a run to its terminal record:                                   *)
(*                                                                         *)
(*   webhook intake    inserts a run and its start command (the outbox);   *)
(*   dispatchers       take commands in order and signal-with-start the    *)
(*                     workflow, then append a receipt;                    *)
(*   the workflow      one Temporal workflow id per pull request, which    *)
(*                     runs one generation at a time and continues as new  *)
(*                     with the highest superseding generation;            *)
(*   activity workers  run each activity as a few database transactions,   *)
(*                     up to MaxAttempts times, and an attempt the server  *)
(*                     has given up may still be running (zombies);        *)
(*   the inbox         records the human decision, which the dispatcher    *)
(*                     signals to the workflow.                            *)
(*                                                                         *)
(* One TLA+ step is one database transaction, one remote call or one       *)
(* workflow activation: what the code holds a row lock or an advisory lock *)
(* over is a single step or is guarded by Locked and InstallationFree.     *)
(***************************************************************************)
EXTENDS Integers

CONSTANTS
  Heads,            \* head commits a push may leave the pull request at
  MaxGen,           \* bound: runs created for the pull request
  MaxAttempts,      \* attempts of one activity (_MAX_ACTIVITY_ATTEMPTS)
  Dispatchers,      \* concurrently running dispatcher processes
  Disturbances,     \* kinds of disturbance the environment may cause
  MaxDisturbances   \* bound: disturbances in one behaviour

DisturbanceKinds ==
  {"attempt",       \* an activity attempt is lost, late or fails
   "dispatcher",    \* a dispatcher dies between a send and its receipt
   "policy",        \* the repository policy admits or blocks reviews
   "cancel",        \* an operator cancels the workflow
   "expiry"}        \* Temporal closes the execution at its timeout

ASSUME LifecycleAssumption ==
  /\ Heads # {}
  /\ MaxGen \in Nat \ {0}
  /\ MaxAttempts \in Nat \ {0}
  /\ Disturbances \subseteq DisturbanceKinds
  /\ MaxDisturbances \in Nat

VARIABLES
  head,       \* pull_requests.head_sha
  open,       \* pull_requests.state = 'open'
  policy,     \* admitted_policy(...) is not None
  run,        \* run[g]: the row, events and decisions of generation g
  disp,       \* disp[d]: the transaction dispatcher d is in
  wf,         \* the current Temporal execution of the pull request
  zombies,    \* activity attempts the server has given up on
  disturbed   \* disturbances so far

vars == <<head, open, policy, run, disp, wf, zombies, disturbed>>

-----------------------------------------------------------------------------
(* Values *)

Gens == 1 .. MaxGen

States == [g \in Gens |-> run[g].state]

Contract == INSTANCE RunContract WITH Runs <- Gens, state <- States

Terminal == Contract!TerminalStates

Stages == {"select_context", "analyze", "verify"}
Activities == Stages \cup {"checks", "publish", "record_terminal"}
Outcomes == {"published", "rejected", "cancelled", "timed_out", "failed"}

\* The state each stage puts the run in, and the order of the active states.
TargetState ==
  [select_context |-> "selecting_context", analyze |-> "analyzing", verify |-> "verifying"]
StateRank ==
  [queued |-> 0, selecting_context |-> 1, analyzing |-> 2, verifying |-> 3,
   awaiting_approval |-> 4]

\* The transaction or remote call an activity attempt is about to make, and
\* the three ways an attempt ends.
Steps == {"load", "record", "mark", "remote", "prepare", "submit", "commit"}
Results == {"ok", "error", "fatal"}
FirstStep(pc) ==
  CASE pc \in Stages -> "load"
    [] pc = "checks" -> "remote"
    [] pc = "publish" -> "prepare"
    [] pc = "record_terminal" -> "commit"
    [] OTHER -> "idle"

NoApproval == [gen |-> 0, approved |-> FALSE]
NoRun(h) ==
  [state |-> Contract!Absent, head |-> h, receipt |-> "none",
   recorded |-> {}, decision |-> "none", notice |-> "none", reviewed |-> FALSE]

Created(g) == run[g].state # Contract!Absent
IsTerminal(g) == run[g].state \in Terminal
IsCurrent(g) == run[g].head = head

\* Locks held across steps: a dispatcher that has sent a command holds the row
\* of the run and the installation lock until its transaction ends.
Locked(g) == \E d \in Dispatchers : disp[d] = [pc |-> "sent", gen |-> g]
InstallationFree == \A d \in Dispatchers : disp[d].pc # "sent"

Disturb(kind) ==
  /\ kind \in Disturbances
  /\ disturbed < MaxDisturbances
  /\ disturbed' = disturbed + 1

-----------------------------------------------------------------------------
(* Webhook intake *)

\* The run row and its command, with the generation after the last one.
InsertRun(h) ==
  \E g \in Gens :
    /\ ~Created(g)
    /\ \A p \in 1 .. g - 1 : Created(p)
    /\ run' = [run EXCEPT ![g] = [NoRun(h) EXCEPT !.state = "queued"]]

\* _create_run for an opened or synchronize delivery: nothing for a head that
\* already has a run.
CreateRun(h) ==
  IF policy /\ \A g \in Gens : Created(g) => run[g].head # h
  THEN InsertRun(h)
  ELSE UNCHANGED run

\* An opened or synchronize delivery that _upsert_pull_request accepts as
\* current.
ReceivePush(h) ==
  /\ InstallationFree
  /\ head' = h
  /\ open' = TRUE
  /\ CreateRun(h)
  /\ UNCHANGED <<policy, disp, wf, zombies, disturbed>>

\* A reopened delivery always asks for a new generation (force_new).
ReceiveReopened(h) ==
  /\ InstallationFree
  /\ ~open
  /\ head' = h
  /\ open' = TRUE
  /\ IF policy THEN InsertRun(h) ELSE UNCHANGED run
  /\ UNCHANGED <<policy, disp, wf, zombies, disturbed>>

\* A closed delivery updates the pull request, its head included when a push
\* has not been delivered before it, and creates nothing.
ReceiveClosed(h) ==
  /\ InstallationFree
  /\ head' = h
  /\ open' = FALSE
  /\ UNCHANGED <<policy, run, disp, wf, zombies, disturbed>>

\* A rerun request on the completed check of the latest generation.
ReceiveRerun ==
  /\ InstallationFree
  /\ open /\ policy
  /\ \E g \in Gens :
       /\ IsTerminal(g) /\ IsCurrent(g)
       /\ \A n \in Gens : n > g => ~Created(n)
  /\ InsertRun(head)
  /\ UNCHANGED <<head, open, policy, disp, wf, zombies, disturbed>>

\* A sync, a policy edit or the age of the last sync changes what is admitted.
ChangePolicy ==
  /\ Disturb("policy")
  /\ InstallationFree
  /\ policy' = ~policy
  /\ UNCHANGED <<head, open, run, disp, wf, zombies>>

-----------------------------------------------------------------------------
(* The workflow execution, as functions from its record to the next one *)

Idle ==
  [pc |-> "closed", gen |-> 0, supersede |-> 0, cancelled |-> FALSE,
   approval |-> NoApproval, attempts |-> 0, step |-> "idle",
   outcome |-> "none", guarded |-> FALSE]

\* An execution accepted by the server whose run() has not been called.
Starting(g, pending) ==
  [Idle EXCEPT !.pc = "starting", !.gen = g, !.supersede = pending]

ClosedExecution(w) == [Idle EXCEPT !.gen = w.gen]

Enter(w, pc) == [w EXCEPT !.pc = pc, !.attempts = 0, !.step = FirstStep(pc)]

\* _finish and the start of _honor_interrupt: record the outcome.  guarded says
\* that the call is inside the try block of run() that catches ActivityError.
Finish(w, outcome, guarded) ==
  [Enter(w, "record_terminal") EXCEPT !.outcome = outcome, !.guarded = guarded]

Interrupted(w) == w.cancelled \/ w.supersede > 0

NextStage ==
  [checks |-> "select_context", select_context |-> "analyze",
   analyze |-> "verify", verify |-> "await"]

\* Faulty variant: the interrupt is honoured after the publish too.
HonorInterruptAfterPublish(w) ==
  CASE w.pc \in Stages \cup {"publish"} /\ Interrupted(w) -> Finish(w, "cancelled", TRUE)
    [] w.pc = "checks" \/ (w.pc \in Stages /\ ~Interrupted(w)) -> Enter(w, NextStage[w.pc])
    [] w.pc = "publish" /\ ~Interrupted(w) -> Finish(w, "published", FALSE)
    [] w.pc = "record_terminal" -> Enter(w, "wrapup")

\* The code after the await of an activity that succeeded.  The check updates
\* are the only activity before the approval that an interrupt does not stop.
AfterSuccess(w) ==
  CASE w.pc \in Stages /\ Interrupted(w) -> Finish(w, "cancelled", TRUE)
    [] w.pc = "checks" \/ (w.pc \in Stages /\ ~Interrupted(w)) -> Enter(w, NextStage[w.pc])
    [] w.pc = "publish" -> Finish(w, "published", FALSE)
    [] w.pc = "record_terminal" -> Enter(w, "wrapup")

\* Faulty variant: the try block of run() ends before the verification.
VerifyOutsideTry(w) ==
  CASE w.pc \in Stages \ {"verify"} /\ Interrupted(w) -> Finish(w, "cancelled", TRUE)
    [] w.pc \in {"verify", "record_terminal"} /\ ~w.guarded -> ClosedExecution(w)
    [] OTHER -> Finish(w, "failed", FALSE)

\* The handler of an ActivityError.  Outside the try block it fails the
\* execution, which drops a pending supersede.
AfterActivityError(w) ==
  CASE w.pc \in Stages /\ Interrupted(w) -> Finish(w, "cancelled", TRUE)
    [] w.pc = "record_terminal" /\ ~w.guarded -> ClosedExecution(w)
    [] OTHER -> Finish(w, "failed", FALSE)

\* The retry policy of an attempt that did not succeed.
AfterAttempt(w, retryable) ==
  IF retryable /\ w.attempts + 1 < MaxAttempts
  THEN [w EXCEPT !.attempts = @ + 1, !.step = FirstStep(w.pc)]
  ELSE AfterActivityError(w)

\* The supersede signal handler; before run() starts there is no input yet.
Superseded(w, g) ==
  LET current == IF w.pc = "starting" THEN 0 ELSE w.gen
  IN  IF g > current /\ g > w.supersede THEN [w EXCEPT !.supersede = g] ELSE w

\* The approve signal handler.
Approved(w, g, approved) ==
  IF w.pc = "starting" \/ w.gen = g
  THEN [w EXCEPT !.approval = [gen |-> g, approved |-> approved]]
  ELSE w

-----------------------------------------------------------------------------
(* Dispatching start commands *)

\* The row query: the first command without a receipt.  It reads a snapshot
\* and takes the lock in DispatchCommand, so a second dispatcher may act on it
\* after the first one has committed its receipt.
SelectCommand(d) ==
  /\ disp[d].pc = "idle"
  /\ \E g \in Gens :
       /\ Created(g) /\ run[g].receipt = "none"
       /\ \A p \in 1 .. g - 1 : run[p].receipt # "none"
       /\ disp' = [disp EXCEPT ![d] = [pc |-> "selected", gen |-> g]]
  /\ UNCHANGED <<head, open, policy, run, wf, zombies, disturbed>>

IdleDispatcher == [pc |-> "idle", gen |-> 0]

\* ON CONFLICT DO NOTHING: the first receipt of a command stays.
Receipted(r, status) ==
  [r EXCEPT !.receipt = IF @ = "none" THEN status ELSE @]

\* SKIP LOCKED: another dispatcher holds the row.
SkipLocked(d, g) ==
  /\ Locked(g)
  /\ disp' = [disp EXCEPT ![d] = IdleDispatcher]
  /\ UNCHANGED <<run, wf>>

SkipTerminal(d, g) ==
  /\ ~Locked(g) /\ IsTerminal(g)
  /\ run' = [run EXCEPT ![g] = Receipted(@, "skipped")]
  /\ disp' = [disp EXCEPT ![d] = IdleDispatcher]
  /\ UNCHANGED wf

\* The policy blocks the review: only a run that never left the queue is
\* cancelled.
SkipBlocked(d, g) ==
  /\ InstallationFree /\ ~IsTerminal(g) /\ ~policy
  /\ run' = [run EXCEPT ![g] =
       [Receipted(@, "skipped") EXCEPT
          !.state = IF run[g].state = "queued" THEN "cancelled" ELSE run[g].state]]
  /\ disp' = [disp EXCEPT ![d] = IdleDispatcher]
  /\ UNCHANGED wf

\* start_workflow with start_signal "supersede" and USE_EXISTING.
SignalWithStart(d, g) ==
  /\ InstallationFree /\ ~IsTerminal(g) /\ policy
  /\ wf' = IF wf.pc = "closed" THEN Starting(g, g) ELSE Superseded(wf, g)
  /\ disp' = [disp EXCEPT ![d].pc = "sent"]
  /\ UNCHANGED run

DispatchCommand(d) ==
  /\ disp[d].pc = "selected"
  /\ LET g == disp[d].gen IN
       SkipLocked(d, g) \/ SkipTerminal(d, g) \/ SkipBlocked(d, g) \/ SignalWithStart(d, g)
  /\ UNCHANGED <<head, open, policy, zombies, disturbed>>

InsertReceipt(d) ==
  /\ disp[d].pc = "sent"
  /\ run' = [run EXCEPT ![disp[d].gen] = Receipted(@, "accepted")]
  /\ disp' = [disp EXCEPT ![d] = IdleDispatcher]
  /\ UNCHANGED <<head, open, policy, wf, zombies, disturbed>>

\* The dispatcher dies, or its call times out, after the server accepted it.
DispatcherFails(d) ==
  /\ disp[d].pc = "sent"
  /\ Disturb("dispatcher")
  /\ disp' = [disp EXCEPT ![d] = IdleDispatcher]
  /\ UNCHANGED <<head, open, policy, run, wf, zombies>>

DispatchStep(d) == SelectCommand(d) \/ DispatchCommand(d) \/ InsertReceipt(d)

-----------------------------------------------------------------------------
(* The human decision and its signal *)

\* The last finding of the run is decided; run and pull request are locked.
Decide(g, decision) ==
  /\ ~Locked(g)
  /\ run[g].state = "awaiting_approval" /\ IsCurrent(g)
  /\ run[g].decision = "none"
  /\ run' = [run EXCEPT ![g].decision = decision]
  /\ UNCHANGED <<head, open, policy, disp, wf, zombies, disturbed>>

\* dispatch_next_approval under the locks of run and pull request.  A failure
\* after the signal leaves the command pending; a signal to an execution that
\* is not open is refused and changes nothing.
DispatchApproval(g) ==
  /\ ~Locked(g)
  /\ run[g].decision # "none" /\ run[g].notice = "none"
  /\ IF run[g].state = "awaiting_approval" /\ IsCurrent(g)
     THEN /\ wf.pc # "closed"
          /\ wf' = Approved(wf, g, run[g].decision = "approve")
          /\ \/ /\ run' = [run EXCEPT ![g].notice = "accepted"]
                /\ UNCHANGED disturbed
             \/ /\ Disturb("dispatcher")
                /\ UNCHANGED run
     ELSE /\ run' = [run EXCEPT ![g].notice = "skipped"]
          /\ UNCHANGED <<wf, disturbed>>
  /\ UNCHANGED <<head, open, policy, disp, zombies>>

-----------------------------------------------------------------------------
(* The transactions and calls of an activity attempt j, of the current one *)
(* or of a zombie.  next is the step the attempt reaches.                  *)

Attempt == [gen |-> wf.gen, act |-> wf.pc, step |-> wf.step, outcome |-> wf.outcome]

\* Where an attempt goes once its run is loaded: the receipt of its stage answers
\* for the work, the one of select_context only while the artifacts are ready.
AfterLoad(j) ==
  IF j.act = "verify" \/ j.act \notin run[j.gen].recorded THEN {"record"}
  ELSE IF j.act = "select_context" THEN {"ok", "record"} ELSE {"ok"}

\* Faulty variant: a late attempt takes the state back.
LoadActiveRunBackwards(j, next) ==
  LET g == j.gen  target == TargetState[j.act] IN
  /\ j.step = "load" /\ ~Locked(g)
  /\ IF IsCurrent(g) /\ ~IsTerminal(g)
     THEN /\ run' = [run EXCEPT ![g].state = target]
          /\ next \in AfterLoad(j)
     ELSE /\ next = "error"
          /\ UNCHANGED run

\* _load_active_run: the state only moves forward.
LoadActiveRun(j, next) ==
  LET g == j.gen  target == TargetState[j.act] IN
  /\ j.step = "load" /\ ~Locked(g)
  /\ IF IsCurrent(g) /\ ~IsTerminal(g)
     THEN /\ run' = [run EXCEPT ![g].state =
                       IF StateRank[@] > StateRank[target] THEN @ ELSE target]
          /\ next \in AfterLoad(j)
     ELSE /\ next = "error"
          /\ UNCHANGED run

\* _record_stage and _record_analysis: the first receipt stays, and a retry
\* whose result differs from it is an error.
RecordStage(j, next) ==
  LET g == j.gen IN
  /\ j.step = "record" /\ j.act # "verify" /\ ~Locked(g)
  /\ IF IsCurrent(g) /\ ~IsTerminal(g)
     THEN /\ run' = [run EXCEPT ![g].recorded = @ \cup {j.act}]
          /\ next \in IF j.act \in run[g].recorded THEN {"ok", "error"} ELSE {"ok"}
     ELSE /\ next = "error"
          /\ UNCHANGED run

\* _record_verification_artifacts.  A failed verification is not retryable; a
\* replayed receipt decides as the first attempt did, and one of a failure does
\* so even if the run was outdated since it was loaded.
RecordVerification(j, next) ==
  LET g == j.gen IN
  /\ j.step = "record" /\ j.act = "verify" /\ ~Locked(g)
  /\ IF IsCurrent(g) /\ ~IsTerminal(g)
     THEN \E verdict \in {"passed", "failed"} :
            /\ verdict \in run[g].recorded \/ run[g].recorded \cap {"passed", "failed"} = {}
            /\ run' = [run EXCEPT ![g].recorded = @ \cup {verdict}]
            /\ \/ next = IF verdict = "passed" THEN "mark" ELSE "fatal"
               \/ verdict \in run[g].recorded /\ next = "error"
     ELSE /\ next = "error" \/ ("failed" \in run[g].recorded /\ next = "fatal")
          /\ UNCHANGED run

\* _mark_awaiting_approval.
MarkAwaitingApproval(j, next) ==
  LET g == j.gen IN
  /\ j.step = "mark" /\ ~Locked(g)
  /\ IF IsCurrent(g) /\ run[g].state \in {"verifying", "awaiting_approval"}
     THEN /\ run' = [run EXCEPT ![g].state = "awaiting_approval"]
          /\ next = "ok"
     ELSE /\ next = "error"
          /\ UNCHANGED run

\* Faulty variant: an earlier attempt is taken to have submitted the review.
PreparePublishOnce(j, next) ==
  LET g == j.gen IN
  /\ j.step = "prepare" /\ ~Locked(g)
  /\ next = IF run[g].reviewed \/ wf.attempts > 0 THEN "ok"
            ELSE IF /\ run[g].state = "awaiting_approval" /\ IsCurrent(g)
                    /\ run[g].decision = "approve"
                 THEN "submit" ELSE "fatal"
  /\ UNCHANGED run

\* _prepare and find_review: a review that was submitted before is recovered
\* whatever has changed since, and a new one needs the current authorization.
\* The claim is not modelled here: a cancelled attempt loses it while the call
\* it is in goes on (module PublishReview).
PreparePublish(j, next) ==
  LET g == j.gen IN
  /\ j.step = "prepare" /\ ~Locked(g)
  /\ next = IF run[g].reviewed THEN "ok"
            ELSE IF /\ run[g].state = "awaiting_approval" /\ IsCurrent(g)
                    /\ run[g].decision = "approve"
                 THEN "submit" ELSE "fatal"
  /\ UNCHANGED run

\* create_review, or the discovery that the head on GitHub is another one.
SubmitReview(j, next) ==
  /\ j.step = "submit"
  /\ \/ next = "ok" /\ run' = [run EXCEPT ![j.gen].reviewed = TRUE]
     \/ next = "fatal" /\ UNCHANGED run

TerminalState(outcome) == IF outcome = "timed_out" THEN "failed" ELSE outcome

\* _record_terminal: a run that is terminal with another state is a conflict.
RecordTerminal(j, next) ==
  LET g == j.gen  state == TerminalState(j.outcome) IN
  /\ j.step = "commit" /\ ~Locked(g)
  /\ IF IsTerminal(g) /\ run[g].state # state
     THEN next = "error" /\ UNCHANGED run
     ELSE next = "ok" /\ run' = [run EXCEPT ![g].state = state]

\* The check updates of a generation: GitHub and the check row, not the run.
UpdateChecks(j, next) == j.step = "remote" /\ next = "ok" /\ UNCHANGED run

Transact(j, next) ==
  \/ LoadActiveRun(j, next) \/ RecordStage(j, next)
  \/ RecordVerification(j, next) \/ MarkAwaitingApproval(j, next)
  \/ PreparePublish(j, next) \/ SubmitReview(j, next)
  \/ RecordTerminal(j, next) \/ UpdateChecks(j, next)

\* The attempt the workflow waits for.
WorkerStep ==
  /\ wf.step \in Steps
  /\ \E next \in Steps \cup Results :
       /\ Transact(Attempt, next)
       /\ wf' = [wf EXCEPT !.step = next]
  /\ UNCHANGED <<head, open, policy, disp, zombies, disturbed>>

\* An attempt whose result nobody waits for any more.
ZombieStep ==
  /\ \E j \in zombies : \E next \in Steps \cup Results :
       /\ Transact(j, next)
       /\ zombies' = (zombies \ {j}) \cup
                       IF next \in Results THEN {} ELSE {[j EXCEPT !.step = next]}
  /\ UNCHANGED <<head, open, policy, disp, wf, disturbed>>

\* The server records the end of the attempt.
AttemptEnds ==
  /\ wf.step \in Results
  /\ wf' = IF wf.step = "ok" THEN AfterSuccess(wf) ELSE AfterAttempt(wf, wf.step = "error")
  /\ UNCHANGED <<head, open, policy, run, disp, zombies, disturbed>>

\* A thread of an abandoned attempt may go on, unless its worker died.  An
\* abandoned check update changes nothing this module models.
Abandon ==
  \/ UNCHANGED zombies
  \/ wf.step \in Steps \ {"remote"} /\ zombies' = zombies \cup {Attempt}

\* A crash, a missed heartbeat or a provider error, before or after the commit.
AttemptLost ==
  /\ wf.step # "idle"
  /\ Disturb("attempt")
  /\ Abandon
  /\ wf' = AfterAttempt(wf, TRUE)
  /\ UNCHANGED <<head, open, policy, run, disp>>

-----------------------------------------------------------------------------
(* Workflow activations that do not end an attempt *)

\* Faulty variants: run() keeps the signal of its own start, or an approval of
\* another run.
StartRunKeepingSupersede ==
  /\ wf.pc = "starting"
  /\ wf' = Enter([wf EXCEPT !.approval = IF @.gen = wf.gen THEN @ ELSE NoApproval],
                 "checks")
  /\ UNCHANGED <<head, open, policy, run, disp, zombies, disturbed>>

StartRunKeepingApproval ==
  /\ wf.pc = "starting"
  /\ wf' = Enter([wf EXCEPT !.supersede = IF @ <= wf.gen THEN 0 ELSE @], "checks")
  /\ UNCHANGED <<head, open, policy, run, disp, zombies, disturbed>>

\* run() drops the pending supersede that started it and an approval of
\* another run.
StartRun ==
  /\ wf.pc = "starting"
  /\ wf' = Enter([wf EXCEPT !.supersede = IF @ <= wf.gen THEN 0 ELSE @,
                            !.approval = IF @.gen = wf.gen THEN @ ELSE NoApproval],
                 "checks")
  /\ UNCHANGED <<head, open, policy, run, disp, zombies, disturbed>>

\* Faulty variant: a superseding run starts before the terminal record.
ContinueBeforeRecord ==
  /\ wf.pc \in Stages /\ Interrupted(wf)
  /\ Abandon
  /\ wf' = IF wf.supersede > 0 THEN Starting(wf.supersede, 0)
           ELSE Finish(wf, "cancelled", TRUE)
  /\ UNCHANGED <<head, open, policy, run, disp, disturbed>>

\* _wait_for_activity_or_interrupt cancels the running stage.
StageInterrupted ==
  /\ wf.pc \in Stages /\ Interrupted(wf)
  /\ Abandon
  /\ wf' = Finish(wf, "cancelled", TRUE)
  /\ UNCHANGED <<head, open, policy, run, disp, disturbed>>

\* The wait for a human ends: an interrupt first, then the approval, or the
\* approval timeout.
AwaitEnds ==
  /\ wf.pc = "await"
  /\ wf' = CASE Interrupted(wf) -> Finish(wf, "cancelled", FALSE)
             [] ~Interrupted(wf) /\ wf.approval = NoApproval -> Finish(wf, "timed_out", FALSE)
             [] ~Interrupted(wf) /\ wf.approval # NoApproval ->
                  IF wf.approval.approved THEN Enter(wf, "publish")
                  ELSE Finish(wf, "rejected", FALSE)
  /\ UNCHANGED <<head, open, policy, run, disp, zombies, disturbed>>

\* Faulty variant: only a superseded run continues as new.
ContinueIfCancelled ==
  /\ wf.pc = "wrapup"
  /\ wf' = IF wf.outcome = "cancelled" /\ wf.supersede > 0
           THEN Starting(wf.supersede, 0) ELSE ClosedExecution(wf)
  /\ UNCHANGED <<head, open, policy, run, disp, zombies, disturbed>>

\* After the terminal record: the final check update and the metrics, whose
\* failures are ignored, then continue as new or return.
Wrapup ==
  /\ wf.pc = "wrapup"
  /\ wf' = IF wf.supersede > 0 THEN Starting(wf.supersede, 0) ELSE ClosedExecution(wf)
  /\ UNCHANGED <<head, open, policy, run, disp, zombies, disturbed>>

\* The cancel signal handler.
Cancel ==
  /\ wf.pc # "closed" /\ ~wf.cancelled
  /\ Disturb("cancel")
  /\ wf' = [wf EXCEPT !.cancelled = TRUE]
  /\ UNCHANGED <<head, open, policy, run, disp, zombies>>

\* The execution timeout spans continue-as-new: nothing is recorded.
ExecutionExpires ==
  /\ wf.pc # "closed"
  /\ Disturb("expiry")
  /\ wf' = ClosedExecution(wf)
  /\ UNCHANGED <<head, open, policy, run, disp, zombies>>

-----------------------------------------------------------------------------
(* Specification *)

Init ==
  /\ head \in Heads
  /\ open = TRUE
  /\ policy = TRUE
  /\ run = [g \in Gens |-> NoRun(head)]
  /\ disp = [d \in Dispatchers |-> IdleDispatcher]
  /\ wf = Idle
  /\ zombies = {}
  /\ disturbed = 0

Intake ==
  \/ \E h \in Heads : ReceivePush(h) \/ ReceiveReopened(h) \/ ReceiveClosed(h)
  \/ ReceiveRerun \/ ChangePolicy

Human == \E g \in Gens : Decide(g, "approve") \/ Decide(g, "reject") \/ DispatchApproval(g)

Workflow ==
  \/ WorkerStep \/ AttemptEnds
  \/ StartRun \/ StageInterrupted \/ AwaitEnds \/ Wrapup

Next ==
  \/ Intake
  \/ Human
  \/ Workflow
  \/ ZombieStep
  \/ \E d \in Dispatchers : DispatchStep(d) \/ DispatcherFails(d)
  \/ AttemptLost \/ Cancel \/ ExecutionExpires

Spec == Init /\ [][Next]_vars

\* The dispatchers' polling loop, the task queue workers and the timers run;
\* a call an abandoned attempt is in returns.  Nobody is obliged to push, to
\* decide or to cancel, and no disturbance has to happen.
Fairness ==
  /\ WF_vars(Workflow)
  /\ WF_vars(ZombieStep)
  /\ \A d \in Dispatchers : WF_vars(DispatchStep(d))

FairSpec == Spec /\ Fairness

-----------------------------------------------------------------------------
(* Properties *)

RunRecord ==
  [state : Contract!RunState \cup {Contract!Absent}, head : Heads,
   receipt : {"none", "accepted", "skipped"},
   recorded : SUBSET {"select_context", "analyze", "passed", "failed"},
   decision : {"none", "approve", "reject"},
   notice : {"none", "accepted", "skipped"}, reviewed : BOOLEAN]

Execution ==
  [pc : Activities \cup {"closed", "starting", "await", "wrapup"},
   gen : 0 .. MaxGen, supersede : 0 .. MaxGen, cancelled : BOOLEAN,
   approval : [gen : 0 .. MaxGen, approved : BOOLEAN],
   attempts : 0 .. MaxAttempts - 1, step : Steps \cup Results \cup {"idle"},
   outcome : Outcomes \cup {"none"}, guarded : BOOLEAN]

AbandonedAttempt ==
  [gen : Gens, act : Activities \ {"checks"}, step : Steps, outcome : Outcomes \cup {"none"}]

\* The state has the shape the tables, the workflow object and the activity
\* requests give it; an open execution always reviews a run that exists.
TypeOK ==
  /\ head \in Heads
  /\ open \in BOOLEAN
  /\ policy \in BOOLEAN
  /\ run \in [Gens -> RunRecord]
  /\ disp \in [Dispatchers -> [pc : {"idle", "selected", "sent"}, gen : 0 .. MaxGen]]
  /\ wf \in Execution
  /\ zombies \subseteq AbandonedAttempt
  /\ disturbed \in 0 .. MaxDisturbances
  /\ wf.pc # "closed" => wf.gen \in Gens

\* However late, repeated or abandoned its activities are, the database takes
\* a run through the transitions of the shared contract only, and nothing
\* moves a run out of a terminal state (_locked_run, _record_terminal and the
\* policy cancellation never call require_transition).
RunsFollowContract == Contract!Spec

\* A run is recorded as published only when GitHub has the review, although
\* the publish activity and the terminal record are separate transactions.
PublishedMeansReviewed ==
  \A g \in Gens : run[g].state = "published" => run[g].reviewed

\* A run whose review is on GitHub never ends as withdrawn: an interrupt or a
\* late rejection does not overtake a publish that has begun.
ReviewedNeverWithdrawn ==
  \A g \in Gens : run[g].reviewed => run[g].state \notin {"cancelled", "rejected"}

\* What the workflow does with a run after the wait is what a human decided
\* about that very run, also when the signal reached a workflow that had not
\* yet started or that reviews another generation.
DecisionOfThisRun ==
  /\ wf.pc = "publish" => run[wf.gen].decision = "approve"
  /\ wf.outcome = "rejected" => run[wf.gen].decision = "reject"

\* Start commands of a pull request are settled in generation order, also by
\* dispatchers that act on a stale snapshot of the outbox.
ReceiptsInOrder ==
  \A g, p \in Gens : p < g /\ run[g].receipt # "none" => run[p].receipt # "none"

\* Within one chain of continue-as-new the generation under review never goes
\* back, and every execution takes up a later one than the execution before it,
\* whatever order the supersede signals arrive in.
GenerationAdvances ==
  [][wf.pc # "closed" /\ wf'.pc # "closed" =>
       \/ wf'.gen > wf.gen
       \/ wf'.gen = wf.gen /\ (wf'.pc = "starting" => wf.pc = "starting")]_vars

\* A run whose command was accepted is under review or waiting in the open
\* execution, unless it or a later run is finished or has taken its place
\* there: signal-with-start loses no review across the end of an execution, a
\* continue-as-new and its first activation.
AcceptedIsHeld ==
  \A g \in Gens :
    run[g].receipt = "accepted" =>
      \/ \E n \in Gens : n >= g /\ IsTerminal(n)
      \/ wf.pc # "closed" /\ (wf.gen >= g \/ wf.supersede >= g)

\* At most one run of the pull request is being worked on: a superseding run
\* leaves the queue only when the run before it is terminal in the database.
OneRunActive ==
  \A g, p \in Gens :
    {run[g].state, run[p].state} \subseteq Contract!ActiveStates \ {"queued"} => g = p

\* Once the command of a run was accepted, that run or a later one of the pull
\* request reaches a terminal record.
AcceptedSettles ==
  \A g \in Gens :
    run[g].receipt = "accepted" ~> \E n \in Gens : n >= g /\ IsTerminal(n)
=============================================================================
