---------------------------- MODULE PublishReview ----------------------------
(***************************************************************************)
(* The publication of ONE approved review on GitHub: the publish activity  *)
(* (GitHubReviewPublishOperation), the client it calls, and the pull       *)
(* request and database it works on.                                       *)
(*                                                                         *)
(* An attempt is a sequence of calls, each a database transaction in a     *)
(* thread or one HTTP request.  When Temporal gives an attempt up, the     *)
(* attempt may go on (it has not noticed) or be cancelled: then its claim  *)
(* is released with the connection that holds it, but the call it is in,   *)
(* an orphan, may still take effect.                                       *)
(***************************************************************************)
EXTENDS Integers, FiniteSets

CONSTANTS
  MaxAttempts,   \* attempts of the activity (_MAX_ACTIVITY_ATTEMPTS)
  MaxFaults,     \* bound: lost attempts and failing calls
  MaxChanges     \* bound: pushes to the head and edits of the review

ASSUME PublishAssumption ==
  /\ MaxAttempts \in Nat \ {0}
  /\ MaxFaults \in Nat
  /\ MaxChanges \in Nat

VARIABLES
  awaiting,   \* runs.state = 'awaiting_approval'
  stored,     \* pull_requests.head_sha is the approved commit
  remote,     \* the head on GitHub is the approved commit
  reviews,    \* reviews[a]: the review on GitHub that attempt a created
  action,     \* the external_actions row of the publish key
  claim,      \* the attempt whose session holds the advisory lock, or 0
  attempt,    \* attempt[a]: the call attempt a is in
  orphans,    \* calls of cancelled attempts
  server,     \* what Temporal knows: the running attempt and the outcome
  faults, changes

vars == <<awaiting, stored, remote, reviews, action, claim, attempt, orphans, server,
          faults, changes>>

-----------------------------------------------------------------------------
(* Values *)

Attempts == 1 .. MaxAttempts

\* The calls of an attempt.  "block" is _record_action_blocked in the body of
\* the try statement and "reject" the same call in one of its handlers.
Calls == {"claim", "prepare", "refuse", "find", "head", "create", "check", "submit",
          "delete", "success", "block", "reject", "failure"}
Results == {"ok", "error", "fatal"}

\* by: the attempt; blocked: create_block_code is set; review: the review in hand.
Call == [by : Attempts, call : Calls, blocked : BOOLEAN, review : 0 .. MaxAttempts]

NotStarted(a) == [by |-> a, call |-> "none", blocked |-> FALSE, review |-> 0]
Started(a) == [NotStarted(a) EXCEPT !.call = "claim"]
To(k, call) == [k EXCEPT !.call = call]

Live(a) == attempt[a].call \in Calls

NoAction == [status |-> "none", review |-> 0]

With(state) == {r \in Attempts : reviews[r] = state}

\* On the pull request for everybody to see.
Public == With("submitted") \cup With("edited")

-----------------------------------------------------------------------------
(* What a call does.  next is the call the attempt makes after it. *)

\* _prepare: no action row is created without a current authorization; an
\* existing one is taken up again, and a published one ends the attempt.
Prepare(k, next) ==
  LET authorized == awaiting /\ stored IN
  /\ k.call = "prepare"
  /\ CASE action.status = "none" /\ ~authorized -> next = To(k, "refuse") /\ UNCHANGED action
       [] action.status = "published" -> next = To(k, "ok") /\ UNCHANGED action
       [] action.status \in {"publishing", "failed"} /\ ~authorized ->
            next = [To(k, "find") EXCEPT !.blocked = TRUE] /\ UNCHANGED action
       [] OTHER -> next = To(k, "find") /\ action' = [action EXCEPT !.status = "publishing"]
  /\ UNCHANGED reviews

\* Faulty variant: drafts are not looked for.
FindSubmittedOnly(k, next) ==
  /\ k.call = "find"
  /\ \/ \E r \in With("submitted") : next = [To(k, "success") EXCEPT !.review = r]
     \/ With("submitted") = {} /\ With("edited") # {} /\ next = To(k, "reject")
     \/ Public = {} /\ next = To(k, IF k.blocked THEN "block" ELSE "head")
  /\ UNCHANGED <<reviews, action>>

\* Faulty variant: a retry goes on as the attempt before it, authorized or not.
FindUnblocked(k, next) ==
  /\ k.call = "find"
  /\ \/ \E r \in With("submitted") : next = [To(k, "success") EXCEPT !.review = r]
     \/ With("submitted") = {} /\ With("edited") # {} /\ next = To(k, "reject")
     \/ Public = {} /\ \E r \in With("pending") : next = [To(k, "check") EXCEPT !.review = r]
     \/ Public \cup With("pending") = {} /\ next = To(k, "head")
  /\ UNCHANGED <<reviews, action>>

\* find_review: an exact submitted review is recovered, an altered one stops
\* the publication, and an exact draft is checked and submitted or deleted.
Find(k, next) ==
  /\ k.call = "find"
  /\ \/ \E r \in With("submitted") : next = [To(k, "success") EXCEPT !.review = r]
     \/ With("submitted") = {} /\ With("edited") # {} /\ next = To(k, "reject")
     \/ Public = {} /\ \E r \in With("pending") : next = [To(k, "check") EXCEPT !.review = r]
     \/ Public \cup With("pending") = {}
          /\ next = To(k, IF k.blocked THEN "block" ELSE "head")
  /\ UNCHANGED <<reviews, action>>

\* The head read before staging.
ReadHead(k, next) ==
  /\ k.call = "head"
  /\ next = To(k, IF remote THEN "create" ELSE "block")
  /\ UNCHANGED <<reviews, action>>

\* create_review stages a draft.  GitHub keeps one draft per author and pull
\* request and refuses a second one.
Create(k, next) ==
  /\ k.call = "create"
  /\ IF With("pending") = {}
     THEN /\ reviews' = [reviews EXCEPT ![k.by] = "pending"]
          /\ next = [To(k, "check") EXCEPT !.review = k.by]
     ELSE next = To(k, "failure") /\ UNCHANGED reviews
  /\ UNCHANGED action

\* _resolve_pending_review: the head read after staging.
CheckHead(k, next) ==
  /\ k.call = "check"
  /\ next = To(k, IF remote THEN "submit" ELSE "delete")
  /\ UNCHANGED <<reviews, action>>

\* Only a draft can be submitted or deleted.
Submit(k, next) ==
  /\ k.call = "submit"
  /\ IF reviews[k.review] = "pending"
     THEN reviews' = [reviews EXCEPT ![k.review] = "submitted"] /\ next = To(k, "success")
     ELSE next = To(k, "failure") /\ UNCHANGED reviews
  /\ UNCHANGED action

Delete(k, next) ==
  /\ k.call = "delete"
  /\ IF reviews[k.review] = "pending"
     THEN reviews' = [reviews EXCEPT ![k.review] = "deleted"] /\ next = To(k, "reject")
     ELSE next = To(k, "failure") /\ UNCHANGED reviews
  /\ UNCHANGED action

\* The receipts.  None of the updates looks at the status it replaces.
RecordSuccess(k, next) ==
  /\ k.call = "success"
  /\ action' = [status |-> "published", review |-> k.review]
  /\ next = To(k, "ok")
  /\ UNCHANGED reviews

RecordFailed(k, next) ==
  /\ k.call \in {"block", "reject", "failure"}
  /\ action' = [action EXCEPT !.status = "failed"]
  /\ next = To(k, IF k.call = "failure" THEN "error" ELSE "fatal")
  /\ UNCHANGED reviews

\* _record_request_blocked appends an event only.
Refuse(k, next) ==
  k.call = "refuse" /\ next = To(k, "fatal") /\ UNCHANGED <<reviews, action>>

Take(k, next) ==
  \/ Prepare(k, next) \/ Find(k, next) \/ ReadHead(k, next) \/ Create(k, next)
  \/ CheckHead(k, next) \/ Submit(k, next) \/ Delete(k, next)
  \/ RecordSuccess(k, next) \/ RecordFailed(k, next) \/ Refuse(k, next)

\* Where an exception of the call leads: the body of the try statement records
\* the failure, everything else leaves the activity.
Raised(k) ==
  To(k, IF k.call \in {"find", "head", "create", "check", "submit", "delete", "success", "block"}
        THEN "failure" ELSE "error")

-----------------------------------------------------------------------------
(* The attempts *)

\* Leaving the activity closes the connection that holds the claim.
Release(a, next) ==
  claim' = IF claim = a /\ next.call \in Results \cup {"gone"} THEN 0 ELSE claim

\* Faulty variant: the claim is not awaited.
ProceedUnclaimed(a) ==
  /\ attempt[a].call = "claim"
  /\ claim' = IF claim = 0 THEN a ELSE claim
  /\ attempt' = [attempt EXCEPT ![a] = To(@, "prepare")]
  /\ UNCHANGED <<awaiting, stored, remote, reviews, action, orphans, server, faults, changes>>

\* _acquire_publish_claim polls until the lock is free.
AcquireClaim(a) ==
  /\ attempt[a].call = "claim" /\ claim = 0
  /\ claim' = a
  /\ attempt' = [attempt EXCEPT ![a] = To(@, "prepare")]
  /\ UNCHANGED <<awaiting, stored, remote, reviews, action, orphans, server, faults, changes>>

MakeCall(a) ==
  /\ \E next \in [by : {a}, call : Calls \cup Results, blocked : BOOLEAN,
                  review : 0 .. MaxAttempts] :
       /\ Take(attempt[a], next)
       /\ Release(a, next)
       /\ attempt' = [attempt EXCEPT ![a] = next]
  /\ UNCHANGED <<awaiting, stored, remote, orphans, server, faults, changes>>

Fault == faults < MaxFaults /\ faults' = faults + 1

\* The call fails or its answer is lost, before or after it took effect.
CallFails(a) ==
  /\ Live(a) /\ Fault
  /\ \/ UNCHANGED <<reviews, action>>
     \/ \E next \in [by : {a}, call : Calls \cup Results, blocked : BOOLEAN,
                     review : 0 .. MaxAttempts] : Take(attempt[a], next)
  /\ LET next == Raised(attempt[a]) IN
       Release(a, next) /\ attempt' = [attempt EXCEPT ![a] = next]
  /\ UNCHANGED <<awaiting, stored, remote, orphans, server, changes>>

\* Temporal cancels an attempt it has given up, or its worker dies.
Cancelled(a) ==
  /\ Live(a) /\ (server.attempt > a \/ server.outcome # "running")
  /\ attempt' = [attempt EXCEPT ![a] = To(@, "gone")]
  /\ Release(a, attempt'[a])
  /\ orphans' = IF attempt[a].call = "claim" THEN orphans ELSE orphans \cup {attempt[a]}
  /\ UNCHANGED <<awaiting, stored, remote, reviews, action, server, faults, changes>>

OrphanLands ==
  /\ \E k \in orphans :
       /\ \E next \in [by : {k.by}, call : Calls \cup Results, blocked : BOOLEAN,
                       review : 0 .. MaxAttempts] : Take(k, next)
       /\ orphans' = orphans \ {k}
  /\ UNCHANGED <<awaiting, stored, remote, claim, attempt, server, faults, changes>>

-----------------------------------------------------------------------------
(* The server, the workflow and the pull request *)

\* The retry policy: a next attempt, or an ActivityError in the workflow.
NextAttempt(a) ==
  IF a < MaxAttempts
  THEN /\ server' = [server EXCEPT !.attempt = a + 1]
       /\ attempt' = [attempt EXCEPT ![a + 1] = Started(a + 1)]
  ELSE /\ server' = [server EXCEPT !.outcome = "failed"]
       /\ UNCHANGED attempt

AttemptEnds ==
  LET a == server.attempt  result == attempt[a].call IN
  /\ server.outcome = "running" /\ result \in Results
  /\ CASE result = "ok" -> server' = [server EXCEPT !.outcome = "published"] /\ UNCHANGED attempt
       [] result = "fatal" -> server' = [server EXCEPT !.outcome = "failed"] /\ UNCHANGED attempt
       [] result = "error" -> NextAttempt(a)
  /\ UNCHANGED <<awaiting, stored, remote, reviews, action, claim, orphans, faults, changes>>

\* A missed heartbeat, a timeout or a worker that died.
GiveUp ==
  /\ server.outcome = "running" /\ Fault
  /\ NextAttempt(server.attempt)
  /\ UNCHANGED <<awaiting, stored, remote, reviews, action, claim, orphans, changes>>

\* The workflow records its outcome, which ends the authorization.
RecordTerminal ==
  /\ server.outcome # "running" /\ awaiting
  /\ awaiting' = FALSE
  /\ UNCHANGED <<stored, remote, reviews, action, claim, attempt, orphans, server, faults, changes>>

Change == changes < MaxChanges /\ changes' = changes + 1

\* A push, or a push back to the approved commit, and its webhook.
PushHead ==
  /\ Change
  /\ remote' = ~remote
  /\ UNCHANGED <<awaiting, stored, reviews, action, claim, attempt, orphans, server, faults>>

ReceivePush ==
  /\ stored # remote
  /\ stored' = remote
  /\ UNCHANGED <<awaiting, remote, reviews, action, claim, attempt, orphans, server, faults, changes>>

\* Somebody edits the review on GitHub.
EditReview ==
  /\ Change
  /\ \E r \in With("submitted") : reviews' = [reviews EXCEPT ![r] = "edited"]
  /\ UNCHANGED <<awaiting, stored, remote, action, claim, attempt, orphans, server, faults>>

-----------------------------------------------------------------------------
(* Specification *)

Init ==
  /\ awaiting = TRUE
  /\ stored \in BOOLEAN
  /\ remote \in BOOLEAN
  /\ reviews = [a \in Attempts |-> "none"]
  /\ action = NoAction
  /\ claim = 0
  /\ attempt = [a \in Attempts |-> IF a = 1 THEN Started(1) ELSE NotStarted(a)]
  /\ orphans = {}
  /\ server = [attempt |-> 1, outcome |-> "running"]
  /\ faults = 0
  /\ changes = 0

Progress(a) == AcquireClaim(a) \/ MakeCall(a)

Next ==
  \/ \E a \in Attempts : Progress(a) \/ CallFails(a) \/ Cancelled(a)
  \/ OrphanLands \/ AttemptEnds \/ GiveUp \/ RecordTerminal
  \/ PushHead \/ ReceivePush \/ EditReview

Spec == Init /\ [][Next]_vars

\* Calls return (each has a timeout), the claim is polled and the server acts
\* on the result of an attempt.
FairSpec ==
  /\ Spec
  /\ \A a \in Attempts : WF_vars(Progress(a))
  /\ WF_vars(AttemptEnds)

-----------------------------------------------------------------------------
(* Properties *)

Contract ==
  INSTANCE PublicationContract WITH posted <- Cardinality(Public), verdict <- server.outcome

\* The shape of the rows, the calls and the reviews; the claim belongs to an
\* attempt that runs.
TypeOK ==
  /\ {awaiting, stored, remote} \subseteq BOOLEAN
  /\ reviews \in [Attempts -> {"none", "pending", "submitted", "edited", "deleted"}]
  /\ action \in [status : {"none", "publishing", "published", "failed"}, review : 0 .. MaxAttempts]
  /\ attempt \in [Attempts -> [by : Attempts, call : Calls \cup Results \cup {"none", "gone"},
                              blocked : BOOLEAN, review : 0 .. MaxAttempts]]
  /\ orphans \subseteq Call
  /\ server \in [attempt : Attempts, outcome : {"running", "published", "failed"}]
  /\ faults \in 0 .. MaxFaults /\ changes \in 0 .. MaxChanges
  /\ claim \in 0 .. MaxAttempts
  /\ claim # 0 => Live(claim)

\* The publication implements the contract: one review at most, and the
\* workflow hears of a success only when the review is there.
ImplementsContract == Contract!Spec

\* The remote identity the action row keeps is that of the review on GitHub.
ReceiptNamesReview ==
  action.status = "published" => action.review \in Public

\* The attempt has not looked at the authorization.
Unprepared(a) == attempt[a].call \in {"none", "claim", "prepare"}

\* An authorization that is lost is not used again: once the run does not await
\* approval at its current head any more, no attempt that has not prepared by then
\* stages a review, even if an attempt before it left an action row that says
\* "publishing", or a call of it comes late.  It may still submit a draft it finds.
LostAuthorityStagesNothing ==
  \A a \in Attempts :
    [](Unprepared(a) /\ [](~(awaiting /\ stored)) => [](reviews[a] = "none"))

\* A fault costs no review: while pull request and review stay as they are, a
\* lost answer, a refused draft or an orphaned call ends in the recovery of the
\* review by a later attempt.
FaultsLoseNothing ==
  [](stored /\ remote /\ With("edited") = {}) => <>(server.outcome = "published")
=============================================================================
