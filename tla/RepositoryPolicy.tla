--------------------------- MODULE RepositoryPolicy ---------------------------
(***************************************************************************)
(* Which repositories of ONE installation are reviewed: the inventory that *)
(* the sync processes read from GitHub (repository_sync.py, providers/     *)
(* inventory.py, repositories/store.py), the lifecycle deliveries that     *)
(* revoke access (repositories/lifecycle.py), the policy of the owner      *)
(* (repositories/routes.py), and the two places that ask admitted_policy:  *)
(* the intake and the dispatcher of a run.                                 *)
(*                                                                         *)
(* Transactions on the installation are serialized by lock_installation:   *)
(* one step each, but for the dispatcher, which holds the lock while it    *)
(* calls Temporal.  The revision is a counter that is only compared with   *)
(* an earlier value of itself: a sync knows whether it is unchanged.       *)
(***************************************************************************)
EXTENDS Integers, Sequences, FiniteSets

CONSTANTS
  Repos,
  Known,        \* repositories with a row from before the first sync
  Syncs,        \* sync processes: the daemon and calls with --once
  MaxBudget,    \* the largest budget of a policy
  MaxEvents     \* bound: changes of the installation on GitHub

ASSUME PolicyAssumption ==
  /\ IsFiniteSet(Repos) /\ Known \subseteq Repos
  /\ MaxBudget \in Nat \ {0}
  /\ MaxEvents \in Nat

VARIABLES
  github,        \* the installation on GitHub and its repositories
  sent,          \* sent[d]: the lifecycle delivery with id d
  received,      \* deliveries with an audit event
  installation,  \* the state of the row, and whether its last sync is recent
  access,        \* access[r]: access_state; "none" when there is no row
  policy,        \* policy[r]: the budget of the owner's policy, 0 when paused
  sync,          \* sync[s]: what process s has read
  command,       \* command[r]: the start command of a run of r and its budget
  sending,       \* the repository whose start is on its way, under the lock
  revoked        \* history: repositories revoked by a delivery since the inventory
                 \* that was applied last was asked for

vars == <<github, sent, received, installation, access, policy, sync, command, sending,
          revoked>>

-----------------------------------------------------------------------------
(* Values *)

InstallationStates == {"active", "suspended", "deleted"}

Delivery ==
  [kind : {"added", "removed", "suspend", "unsuspend", "deleted"}, repos : SUBSET Repos]

Deliveries == 1 .. Len(sent)

\* since: what has been revoked since the sync has asked (history).
SyncState ==
  [pc : {"idle", "asked", "listing", "more", "read", "outdated"}, state : InstallationStates,
   found : SUBSET Repos, total : Nat, since : SUBSET Repos]

IdleSync == [pc |-> "idle", state |-> "active", found |-> {}, total |-> 0, since |-> {}]

\* Its revision is not that of the row any more; what it reads does not matter.
OutdatedSync == [IdleSync EXCEPT !.pc = "outdated"]

NoCommand == [state |-> "none", budget |-> 0]

\* lock_installation
LockFree == sending = {}

\* What GitHub grants.
Granted == IF github.state = "active" THEN github.repos ELSE {}

-----------------------------------------------------------------------------
(* GitHub *)

Send(kind, repos) == sent' = Append(sent, [kind |-> kind, repos |-> repos])

Change(kind, repos) ==
  /\ Len(sent) < MaxEvents
  /\ Send(kind, repos)
  /\ UNCHANGED <<received, installation, access, policy, sync, command, sending,
                 revoked>>

AddRepository(r) ==
  /\ github.state = "active" /\ r \notin github.repos
  /\ github' = [github EXCEPT !.repos = @ \cup {r}]
  /\ Change("added", {r})

RemoveRepository(r) ==
  /\ github.state = "active" /\ r \in github.repos
  /\ github' = [github EXCEPT !.repos = @ \ {r}]
  /\ Change("removed", {r})

Suspend ==
  /\ github.state = "active"
  /\ github' = [github EXCEPT !.state = "suspended"]
  /\ Change("suspend", {})

Unsuspend ==
  /\ github.state = "suspended"
  /\ github' = [github EXCEPT !.state = "active"]
  /\ Change("unsuspend", {})

Uninstall ==
  /\ github.state # "deleted"
  /\ github' = [github EXCEPT !.state = "deleted"]
  /\ Change("deleted", {})

-----------------------------------------------------------------------------
(* Deliveries *)

\* Faulty variant: a delivery does not change the revision.
BumpNothing(lost) ==
  sync' = [s \in Syncs |->
             IF sync[s].pc \in {"idle", "outdated"} THEN sync[s]
             ELSE [sync[s] EXCEPT !.since = @ \cup lost]]

\* revision = revision + 1, which outdates the syncs under way.
Bump(lost) ==
  sync' = [s \in Syncs |-> IF sync[s].pc = "idle" THEN IdleSync ELSE OutdatedSync]

\* The repositories a delivery takes away.
Lost(e) ==
  CASE e.kind = "removed" -> e.repos
    [] e.kind \in {"suspend", "deleted"} -> Repos
    [] OTHER -> {}

\* COALESCE(state given by the action, state)
StateAfter(e) ==
  CASE e.kind = "suspend" -> "suspended"
    [] e.kind = "deleted" -> "deleted"
    [] OTHER -> installation.state

\* receive_lifecycle.  A delivery that was audited before changes nothing, and
\* one that grants access only asks for a sync.  A row that no sync has seen has
\* no installation yet and is not touched.
ReceiveLifecycle(d) ==
  LET e == sent[d] IN
  /\ LockFree /\ d \notin received
  /\ received' = received \cup {d}
  /\ installation' = [installation EXCEPT !.state = StateAfter(e)]
  /\ access' = [r \in Repos |->
                  IF r \in Lost(e) /\ access[r] = "active" THEN "removed" ELSE access[r]]
  /\ Bump(Lost(e))
  /\ revoked' = revoked \cup Lost(e)
  /\ UNCHANGED <<github, sent, policy, command, sending>>

-----------------------------------------------------------------------------
(* reconcile_once *)

SetSync(s, value) ==
  /\ sync' = [sync EXCEPT ![s] = value]
  /\ UNCHANGED <<github, sent, received, installation, access, policy, command, sending,
                 revoked>>

\* The first transaction reads the revision.
ReadRevision(s) ==
  /\ sync[s].pc = "idle" /\ LockFree
  /\ SetSync(s, [IdleSync EXCEPT !.pc = "asked"])

\* GET app/installations/<id>
ReadInstallation(s) ==
  /\ sync[s].pc = "asked"
  /\ SetSync(s, [sync[s] EXCEPT !.state = github.state,
                                !.pc = IF github.state = "active" THEN "listing" ELSE "read"])

\* GET installation/repositories: the pages up to some change on GitHub, and
\* those after it.  A suspended installation gets no token.
ListFirst(s) ==
  /\ sync[s].pc = "listing" /\ github.state = "active"
  /\ \E page \in SUBSET github.repos :
       SetSync(s, [sync[s] EXCEPT !.pc = "more", !.found = page,
                                  !.total = Cardinality(github.repos)])

\* A total that changed, or repositories that do not add up to it, are an error.
ListRest(s) ==
  /\ sync[s].pc = "more" /\ github.state = "active"
  /\ Cardinality(github.repos) = sync[s].total
  /\ \E page \in SUBSET (github.repos \ sync[s].found) :
       /\ Cardinality(sync[s].found) + Cardinality(page) = sync[s].total
       /\ SetSync(s, [sync[s] EXCEPT !.pc = "read", !.found = @ \cup page])

\* Any other answer raises InventoryError, and the daemon tries again.
InventoryChanged(s) ==
  /\ \/ sync[s].pc \in {"listing", "more"} /\ github.state # "active"
     \/ sync[s].pc = "more" /\ Cardinality(github.repos) # sync[s].total
  /\ SetSync(s, IdleSync)

SyncFails(s) ==
  /\ sync[s].pc # "idle"
  /\ SetSync(s, IdleSync)

\* The repositories of the snapshot.
Snapshot(s) == IF sync[s].state = "active" THEN sync[s].found ELSE {}

\* Faulty variant: repositories missing from an active snapshot keep their access.
AccessAfterAdding(s) ==
  [r \in Repos |->
     IF r \in Snapshot(s) THEN "active"
     ELSE IF sync[s].state = "active" \/ access[r] = "none" THEN access[r] ELSE "removed"]

AccessAfter(s) ==
  [r \in Repos |->
     IF r \in Snapshot(s) THEN "active"
     ELSE IF access[r] = "none" THEN "none" ELSE "removed"]

\* apply_snapshot: the row of every repository of the snapshot is active, every
\* other row is removed, and the syncs under way are outdated.
Apply(s) ==
  /\ sync[s].pc = "read" /\ LockFree
  /\ installation' = [state |-> sync[s].state, recent |-> TRUE]
  /\ access' = AccessAfter(s)
  /\ sync' = [t \in Syncs |->
                IF t = s \/ sync[t].pc = "idle" THEN IdleSync ELSE OutdatedSync]
  /\ revoked' = sync[s].since
  /\ UNCHANGED <<github, sent, received, policy, command, sending>>

\* WHERE ... AND revision = <the one that was read> finds no row.
Outdated(s) ==
  /\ sync[s].pc = "outdated" /\ LockFree
  /\ SetSync(s, IdleSync)

\* last_sync_at gets older than 15 minutes.
Lapse ==
  /\ installation.recent
  /\ installation' = [installation EXCEPT !.recent = FALSE]
  /\ UNCHANGED <<github, sent, received, access, policy, sync, command, sending,
                 revoked>>

-----------------------------------------------------------------------------
(* The policy, and what it admits *)

\* Faulty variant: the installation is not locked.
ReplacePolicyAtOnce(r, budget) ==
  /\ access[r] \in {"active", "removed"} /\ budget # policy[r]
  /\ policy' = [policy EXCEPT ![r] = budget]
  /\ UNCHANGED <<github, sent, received, installation, access, sync, command, sending,
                 revoked>>

\* replace_policy
ReplacePolicy(r, budget) ==
  /\ LockFree
  /\ access[r] \in {"active", "removed"} /\ budget # policy[r]
  /\ policy' = [policy EXCEPT ![r] = budget]
  /\ UNCHANGED <<github, sent, received, installation, access, sync, command, sending,
                 revoked>>

\* admitted_policy
Admitted(r) ==
  /\ access[r] = "active"
  /\ installation.state = "active" /\ installation.recent
  /\ policy[r] > 0

\* The intake copies the budget to the run and its command.
CreateRun(r) ==
  /\ LockFree
  /\ command[r].state = "none" /\ Admitted(r)
  /\ command' = [command EXCEPT ![r] = [state |-> "queued", budget |-> policy[r]]]
  /\ UNCHANGED <<github, sent, received, installation, access, policy, sync, sending,
                 revoked>>

\* The condition of dispatch_next_command.
Allowed(r) == Admitted(r) /\ command[r].budget <= policy[r]

\* "repository policy blocks review"
Block(r) ==
  /\ LockFree
  /\ command[r].state = "queued" /\ ~Allowed(r)
  /\ command' = [command EXCEPT ![r].state = "settled"]
  /\ UNCHANGED <<github, sent, received, installation, access, policy, sync, sending,
                 revoked>>

\* The start is sent with the lock held.
SendStart(r) ==
  /\ LockFree
  /\ command[r].state = "queued" /\ Allowed(r)
  /\ sending' = sending \cup {r}
  /\ UNCHANGED <<github, sent, received, installation, access, policy, sync, command,
                 revoked>>

\* Temporal starts the review, and the receipt commits.
Start(r) ==
  /\ r \in sending
  /\ sending' = sending \ {r}
  /\ command' = [command EXCEPT ![r].state = "settled"]
  /\ UNCHANGED <<github, sent, received, installation, access, policy, sync, revoked>>

\* The dispatcher dies or times out: its transaction and the lock are gone.
DispatcherGone(r) ==
  /\ r \in sending
  /\ sending' = sending \ {r}
  /\ UNCHANGED <<github, sent, received, installation, access, policy, sync, command, revoked>>

-----------------------------------------------------------------------------
(* Specification *)

Init ==
  /\ github \in [state : {"active"}, repos : SUBSET Repos]
  /\ sent = <<>> /\ received = {}
  /\ installation = [state |-> "pending", recent |-> FALSE]
  /\ access = [r \in Repos |-> IF r \in Known THEN "pending" ELSE "none"]
  /\ policy = [r \in Repos |-> MaxBudget]
  /\ sync = [s \in Syncs |-> IdleSync]
  /\ command = [r \in Repos |-> NoCommand]
  /\ sending = {} /\ revoked = {}

SyncStep(s) ==
  \/ ReadRevision(s) \/ ReadInstallation(s) \/ ListFirst(s) \/ ListRest(s)
  \/ InventoryChanged(s) \/ Apply(s) \/ Outdated(s)

Next ==
  \/ \E r \in Repos : AddRepository(r) \/ RemoveRepository(r)
  \/ Suspend \/ Unsuspend \/ Uninstall
  \/ \E d \in Deliveries : ReceiveLifecycle(d)
  \/ \E s \in Syncs : SyncStep(s) \/ SyncFails(s)
  \/ Lapse
  \/ \E r \in Repos, budget \in 0 .. MaxBudget : ReplacePolicy(r, budget)
  \/ \E r \in Repos : CreateRun(r) \/ Block(r) \/ SendStart(r) \/ Start(r) \/ DispatcherGone(r)

Spec == Init /\ [][Next]_vars

\* The daemon goes on, and a dispatcher ends its transaction.
FairSpec ==
  /\ Spec
  /\ \A s \in Syncs : WF_vars(SyncStep(s))
  /\ \A r \in Repos : WF_vars(Start(r))

-----------------------------------------------------------------------------
(* Properties *)

\* The shape of the state; one dispatcher at most holds the lock, for a command
\* that waits.
TypeOK ==
  /\ github \in [state : InstallationStates, repos : SUBSET Repos]
  /\ sent \in Seq(Delivery) /\ received \subseteq Deliveries
  /\ installation \in [state : InstallationStates \cup {"pending"}, recent : BOOLEAN]
  /\ access \in [Repos -> {"none", "pending", "active", "removed"}]
  /\ policy \in [Repos -> 0 .. MaxBudget]
  /\ sync \in [Syncs -> SyncState]
  /\ command \in [Repos -> [state : {"none", "queued", "settled"},
                            budget : 0 .. MaxBudget]]
  /\ revoked \subseteq Repos
  /\ sending \subseteq Repos
  /\ \A r, q \in sending : r = q
  /\ \A r \in sending : command[r].state = "queued"

\* A revocation that was received holds against every inventory asked for
\* before it: the repository is not admitted until GitHub has been read again.
RevocationHolds == \A r \in revoked : ~Admitted(r)

\* The rows of both tables agree: a repository is only active while its
\* installation is, whichever of sync and deliveries changed them last.
AccessNeedsInstallation ==
  \A r \in Repos : access[r] = "active" => installation.state = "active"

\* A review starts only for a repository that is not revoked and within the
\* budget its policy has by then, not only when the command was looked at.
StartsWithinPolicy ==
  [][\A r \in Repos : Start(r) =>
       /\ access[r] = "active" /\ r \notin revoked
       /\ policy[r] > 0 /\ command[r].budget <= policy[r]]_vars

\* Requests succeed from some time on.
FailuresEnd == <>[][\A s \in Syncs, r \in Repos : ~SyncFails(s) /\ ~DispatcherGone(r)]_vars

\* When failures end, the inventory follows GitHub, although syncs outdate each
\* other and deliveries are lost or late.
InventoryConverges ==
  FailuresEnd =>
    <>[](/\ installation.state = github.state
         /\ \A r \in Repos : access[r] = "active" <=> r \in Granted)
=============================================================================
