------------------------------- MODULE CheckRun -------------------------------
(***************************************************************************)
(* The GitHub check of ONE head: the update_check activities of its runs   *)
(* (activities/checks.py), the row they keep and the checks on GitHub.     *)
(*                                                                         *)
(* A run reports queued, in progress and its conclusion, one activity      *)
(* each, and its successor follows.  An attempt is a sequence of calls: a  *)
(* transaction or an HTTP request each.  An attempt the server has given   *)
(* up goes on beside its retry (a stray) until it notices; a call whose    *)
(* caller has gone may take effect late.                                   *)
(*                                                                         *)
(* WebhookIntake sees all this as its action PublishCheck.  The theorems   *)
(* about both are in one module, which is why the specification here is    *)
(* CheckSpec.                                                              *)
(***************************************************************************)
EXTENDS Integers, Sequences, FiniteSets

CONSTANTS
  MaxRuns,       \* bound: runs of the head, in the order of their generations
  MaxAttempts,   \* attempts of an activity (_MAX_ACTIVITY_ATTEMPTS)
  MaxFaults,     \* bound: failing calls and attempts given up
  MaxLate        \* bound: calls that take effect after their caller has gone

ASSUME CheckAssumption ==
  /\ MaxRuns \in Nat \ {0}
  /\ MaxAttempts \in Nat \ {0}
  /\ MaxFaults \in Nat
  /\ MaxLate \in Nat

VARIABLES
  row,        \* the github_check_runs row of the head; gen 0 when there is none
  remote,     \* the checks of the head on GitHub: the update each one shows
  accepted,   \* history: the updates GitHub has accepted
  workflow,   \* the update the workflow waits for, and the number of its attempt
  attempt,    \* the attempt of that update
  strays,     \* attempts the server has given up and that go on
  orphans,    \* calls of attempts that have gone
  faults, late

checkVars == <<row, remote, accepted, workflow, attempt, strays, orphans, faults, late>>

-----------------------------------------------------------------------------
(* Values *)

Gens == 1 .. MaxRuns

\* "done" and "failed" are the completed status with one conclusion or another.
Statuses == {"queued", "running", "done", "failed"}

\* _status_rank
Rank(status) == CASE status = "queued" -> 0 [] status = "running" -> 1 [] OTHER -> 2

Update == [gen : Gens, status : Statuses]

\* The update of a conclusion follows the other two.
Calls == {"claim", "prepare", "find", "create", "patch", "record"}
Results == {"ok", "error"}

\* An attempt at update u: its call and the id of the check it has in hand.
Attempt == [u : Update, call : Calls \cup Results, id : Nat]

Start(u) == [u |-> u, call |-> "claim", id |-> 0]
To(k, call) == [k EXCEPT !.call = call]

NoRow == [gen |-> 0, status |-> "queued", id |-> 0]
RowUpdate == [gen |-> row.gen, status |-> row.status]

\* The claim is a session lock: it is held from the first call to the last.
HasClaim(k) == k.call \in Calls \ {"claim"}
Busy == HasClaim(attempt) \/ \E k \in strays : HasClaim(k)

-----------------------------------------------------------------------------
(* What a call does: next is what the attempt does after it. *)

\* _acquire_claim does not wait.
Claim(k, next) ==
  /\ k.call = "claim"
  /\ next = To(k, IF Busy THEN "error" ELSE "prepare")
  /\ UNCHANGED <<row, remote, accepted>>

\* Faulty variant: a row counts as a receipt.
SkippedWithoutCheck(u) ==
  \/ u.gen < row.gen
  \/ u.gen = row.gen /\ (u.status = row.status \/ Rank(u.status) < Rank(row.status))

\* The conditions of _prepare for an existing row: an older run is skipped, a
\* newer one begins queued, and the same one does not fall back or repeat.
Skipped(u) ==
  \/ u.gen < row.gen
  \/ /\ u.gen = row.gen
     /\ \/ row.id # 0 /\ u.status = row.status
        \/ Rank(u.status) < Rank(row.status)

Refused(u) == u.gen > row.gen /\ u.status # "queued"

\* Faulty variant: a check is not looked for.
PrepareToCreate(k, next) ==
  /\ k.call = "prepare"
  /\ CASE Refused(k.u) -> next = To(k, "error") /\ UNCHANGED row
       [] Skipped(k.u) -> next = To(k, "ok") /\ UNCHANGED row
       [] OTHER ->
            /\ row' = IF row.gen = 0 THEN [NoRow EXCEPT !.gen = k.u.gen] ELSE row
            /\ next = IF row.id = 0 THEN To(k, "create")
                      ELSE [To(k, "patch") EXCEPT !.id = row.id]
  /\ UNCHANGED <<remote, accepted>>

Prepare(k, next) ==
  /\ k.call = "prepare"
  /\ CASE Refused(k.u) -> next = To(k, "error") /\ UNCHANGED row
       [] Skipped(k.u) -> next = To(k, "ok") /\ UNCHANGED row
       [] OTHER ->
            /\ row' = IF row.gen = 0 THEN [NoRow EXCEPT !.gen = k.u.gen] ELSE row
            /\ next = IF row.id = 0 THEN To(k, "find")
                      ELSE [To(k, "patch") EXCEPT !.id = row.id]
  /\ UNCHANGED <<remote, accepted>>

\* find_check_run: two checks of one identity are an error.
Find(k, next) ==
  /\ k.call = "find"
  /\ next = CASE Len(remote) > 1 -> To(k, "error")
              [] Len(remote) = 1 -> [To(k, "patch") EXCEPT !.id = 1]
              [] OTHER -> To(k, "create")
  /\ UNCHANGED <<row, remote, accepted>>

Create(k, next) ==
  /\ k.call = "create"
  /\ remote' = Append(remote, k.u) /\ accepted' = accepted \cup {k.u}
  /\ next = [To(k, "patch") EXCEPT !.id = Len(remote) + 1]
  /\ UNCHANGED row

Patch(k, next) ==
  /\ k.call = "patch"
  /\ remote' = [remote EXCEPT ![k.id] = k.u] /\ accepted' = accepted \cup {k.u}
  /\ next = To(k, "record")
  /\ UNCHANGED row

\* Faulty variant: the row is taken whoever has it.
RecordAlways(k, next) ==
  /\ k.call = "record"
  /\ row' = [gen |-> k.u.gen, status |-> k.u.status, id |-> k.id]
  /\ next = To(k, "ok")
  /\ UNCHANGED <<remote, accepted>>

\* _record: the row belongs to the run, or to an older one and the run begins.
Record(k, next) ==
  /\ k.call = "record"
  /\ IF row.gen = k.u.gen \/ (row.gen < k.u.gen /\ k.u.status = "queued")
     THEN /\ row' = [gen |-> k.u.gen, status |-> k.u.status, id |-> k.id]
          /\ next = To(k, "ok")
     ELSE next = To(k, "error") /\ UNCHANGED row
  /\ UNCHANGED <<remote, accepted>>

Take(k, next) ==
  \/ Claim(k, next) \/ Prepare(k, next) \/ Find(k, next)
  \/ Create(k, next) \/ Patch(k, next) \/ Record(k, next)

\* What an attempt can do next.
Nexts(k) ==
  [u : {k.u}, call : Calls \cup Results, id : {k.id, 1, row.id, Len(remote) + 1}]

-----------------------------------------------------------------------------
(* The attempts *)

MakeCall ==
  /\ \E next \in Nexts(attempt) : Take(attempt, next) /\ attempt' = next
  /\ UNCHANGED <<workflow, strays, orphans, faults, late>>

Finished(k) == k.call \in Results

StrayCall ==
  /\ \E k \in strays, next \in UNION {Nexts(j) : j \in strays} :
       /\ Take(k, next) /\ next.u = k.u
       /\ strays' = (strays \ {k}) \cup (IF Finished(next) THEN {} ELSE {next})
  /\ UNCHANGED <<workflow, attempt, orphans, faults, late>>

\* The call of an attempt that has gone may take effect later.
Abandon(k) ==
  \/ UNCHANGED <<orphans, late>>
  \/ /\ late < MaxLate /\ HasClaim(k)
     /\ late' = late + 1
     /\ orphans' = orphans \cup {k}

Fault == faults < MaxFaults /\ faults' = faults + 1

\* A call fails, times out or loses its answer, with or without effect.
CallFails ==
  /\ ~Finished(attempt) /\ Fault
  /\ \/ Abandon(attempt) /\ UNCHANGED <<row, remote, accepted>>
     \/ (\E next \in Nexts(attempt) : Take(attempt, next)) /\ UNCHANGED <<orphans, late>>
  /\ attempt' = To(attempt, "error")
  /\ UNCHANGED <<workflow, strays>>

\* A stray notices that it was given up and is cancelled.
Cancelled ==
  /\ \E k \in strays : strays' = strays \ {k} /\ Abandon(k)
  /\ UNCHANGED <<row, remote, accepted, workflow, attempt, faults>>

OrphanLands ==
  /\ \E k \in orphans :
       /\ \E next \in Nexts(k) : Take(k, next)
       /\ orphans' = orphans \ {k}
  /\ UNCHANGED <<workflow, attempt, strays, faults, late>>

-----------------------------------------------------------------------------
(* The workflow *)

\* It goes on with update u, or it is over when there is no run left.
Await(u) ==
  IF u.gen \in Gens
  THEN workflow' = [u |-> u, try |-> 1, over |-> FALSE] /\ attempt' = Start(u)
  ELSE workflow' = [workflow EXCEPT !.over = TRUE] /\ attempt' = To(attempt, "ok")

\* The updates of run(), and continue-as-new.
UpdateSucceeds ==
  LET u == workflow.u IN
  /\ ~workflow.over /\ attempt.call = "ok"
  /\ CASE u.status = "queued" -> Await([u EXCEPT !.status = "running"])
       [] u.status = "running" -> \E c \in {"done", "failed"} : Await([u EXCEPT !.status = c])
       [] OTHER -> Await([gen |-> u.gen + 1, status |-> "queued"])
  /\ UNCHANGED <<row, remote, accepted, strays, orphans, faults, late>>

\* An ActivityError fails the run, and is swallowed for its conclusion.
Raises(u) ==
  IF u.status \in {"queued", "running"} THEN Await([u EXCEPT !.status = "failed"])
  ELSE Await([gen |-> u.gen + 1, status |-> "queued"])

\* Faulty variant: no second attempt.
RetryNever == Raises(workflow.u)

\* The retry policy.
Retry ==
  IF workflow.try < MaxAttempts
  THEN workflow' = [workflow EXCEPT !.try = @ + 1] /\ attempt' = Start(workflow.u)
  ELSE Raises(workflow.u)

UpdateFails ==
  /\ ~workflow.over /\ attempt.call = "error"
  /\ Retry
  /\ UNCHANGED <<row, remote, accepted, strays, orphans, faults, late>>

\* A missed heartbeat or a timeout: the attempt goes on without the server.
GiveUp ==
  /\ ~workflow.over /\ ~Finished(attempt) /\ Fault
  /\ strays' = strays \cup {attempt}
  /\ Retry
  /\ UNCHANGED <<row, remote, accepted, orphans, late>>

-----------------------------------------------------------------------------
(* Specification *)

CheckInit ==
  /\ row = NoRow
  /\ remote = <<>> /\ accepted = {}
  /\ LET u == [gen |-> 1, status |-> "queued"] IN
       workflow = [u |-> u, try |-> 1, over |-> FALSE] /\ attempt = Start(u)
  /\ strays = {} /\ orphans = {}
  /\ faults = 0 /\ late = 0

CheckNext ==
  \/ MakeCall \/ StrayCall \/ CallFails \/ Cancelled \/ OrphanLands
  \/ UpdateSucceeds \/ UpdateFails \/ GiveUp

CheckSpec == CheckInit /\ [][CheckNext]_checkVars

\* Calls return and the server acts on results.
FairCheckSpec == CheckSpec /\ WF_checkVars(MakeCall) /\ WF_checkVars(UpdateSucceeds \/ UpdateFails)

-----------------------------------------------------------------------------
(* Properties *)

\* The shape of the state; the claim has one holder, and an attempt works on a
\* check that exists.
CheckTypeOK ==
  /\ row \in [gen : 0 .. MaxRuns, status : Statuses, id : 0 .. Len(remote)]
  /\ remote \in Seq(Update) /\ accepted \subseteq Update
  /\ workflow \in [u : Update, try : 1 .. MaxAttempts, over : BOOLEAN]
  /\ attempt \in Attempt /\ strays \subseteq Attempt /\ orphans \subseteq Attempt
  /\ faults \in 0 .. MaxFaults /\ late \in 0 .. MaxLate
  /\ HasClaim(attempt) => ~\E k \in strays : HasClaim(k)
  /\ \A k \in strays : HasClaim(k) => \A j \in strays : HasClaim(j) => j = k
  /\ \A k \in {attempt} \cup strays \cup orphans :
       k.call \in {"patch", "record"} => k.id \in DOMAIN remote

\* Every call took effect before its caller went on, or never will.
Prompt == late = 0

\* As long as calls are prompt, retries, strays and reruns of a head share one
\* check.
OneCheck == Prompt => Len(remote) <= 1

\* Under the same condition, an update that is acknowledged is what row and
\* GitHub show: a stray of an earlier update cannot come in between.
AckedIsShown ==
  [][UpdateSucceeds /\ Prompt =>
       row.id # 0 /\ RowUpdate = workflow.u /\ remote[row.id] = workflow.u]_checkVars

\* However late a call takes effect, the row never goes back to an older run,
NewerRunWins == [][row.gen <= row'.gen]_checkVars

\* and it says nothing of a run that GitHub has not accepted before.
RowBehindGitHub == row.id # 0 => RowUpdate \in accepted

\* A conclusion that cannot be published strands nothing: the workflow gets
\* through all runs.  When calls are prompt and no attempt is given up, a failing
\* call is repaired: the check ends with the conclusion of the newest run.
FailuresRepaired ==
  /\ <>workflow.over
  /\ [](Prompt /\ strays = {}) =>
       <>[](row.gen = MaxRuns /\ Rank(row.status) = 2 /\ remote[row.id] = RowUpdate)
=============================================================================
