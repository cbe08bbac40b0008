------------------------ MODULE RepositoryPolicyProofs ------------------------
(***************************************************************************)
(* The safety properties of RepositoryPolicy for any number of             *)
(* repositories, syncs, changes and edits.                                 *)
(*                                                                         *)
(* A sync that still knows the current revision has seen no revocation     *)
(* since it asked, so what it applies holds against none; and while the    *)
(* start of a review is on its way the lock keeps everything it was        *)
(* admitted by as it is.                                                   *)
(***************************************************************************)
EXTENDS RepositoryPolicy, FiniteSetTheorems, TLAPS

\* Stronger than RevocationHolds: the row itself is not active.
RevokedGone == \A r \in revoked : access[r] # "active"

\* A sync that may be applied has missed no revocation.
SyncsOK == \A s \in Syncs : sync[s].since = {}

\* What a start on its way was admitted by still holds.
SendingOK ==
  \A r \in sending :
    /\ access[r] = "active" /\ r \notin revoked
    /\ policy[r] > 0 /\ command[r].budget <= policy[r]

IInv ==
  TypeOK /\ RevokedGone /\ AccessNeedsInstallation /\ SyncsOK /\ SendingOK

\* An idle and an outdated sync hold nothing.
LEMMA EmptySyncs ==
  /\ IdleSync \in SyncState /\ OutdatedSync \in SyncState
  /\ IdleSync.since = {} /\ OutdatedSync.since = {}
  BY DEF IdleSync, OutdatedSync, SyncState, InstallationStates

\* Before the first sync nothing is active.
LEMMA InitIInv == Init => IInv
<1> SUFFICES ASSUME Init PROVE IInv
  OBVIOUS
<1>1. TypeOK
  BY PolicyAssumption
     DEF Init, TypeOK, SyncState, IdleSync, NoCommand, InstallationStates, Deliveries, Delivery
<1>2. RevokedGone /\ AccessNeedsInstallation /\ SyncsOK /\ SendingOK
  BY DEF Init, RevokedGone, AccessNeedsInstallation, SyncsOK, SendingOK, IdleSync
<1> QED BY <1>1, <1>2 DEF IInv

\* What GitHub does is not seen before a delivery or a read.
LEMMA GitHubIInv ==
  ASSUME IInv, NEW kind \in {"added", "removed", "suspend", "unsuspend", "deleted"},
         NEW repos \in SUBSET Repos,
         github' \in [state : InstallationStates, repos : SUBSET Repos], Change(kind, repos)
  PROVE  IInv'
<1> USE DEF IInv, Change, Send
<1> DEFINE e == [kind |-> kind, repos |-> repos]
<1>1. e \in Delivery /\ sent \in Seq(Delivery) /\ sent' = Append(sent, e)
  BY DEF TypeOK, Delivery
<1>2. sent' \in Seq(Delivery) /\ Deliveries \subseteq Deliveries'
  BY <1>1 DEF Deliveries
<1>3. TypeOK'
  BY <1>2 DEF TypeOK
<1>4. (RevokedGone /\ AccessNeedsInstallation /\ SyncsOK /\ SendingOK)'
  BY DEF RevokedGone, AccessNeedsInstallation, SyncsOK, SendingOK
<1> QED BY <1>3, <1>4

\* A delivery revokes its repositories, for the syncs under way too.
LEMMA ReceiveIInv ==
  ASSUME IInv, NEW d \in Deliveries, ReceiveLifecycle(d)
  PROVE  IInv'
<1> USE DEF IInv
<1> DEFINE lost == Lost(sent[d])
<1>1. sent[d] \in Delivery
  BY DEF TypeOK, Deliveries
<1>2. lost \subseteq Repos
  BY <1>1 DEF Lost, Delivery
<1>3. /\ received' = received \cup {d} /\ sending = {}
      /\ installation' = [installation EXCEPT !.state = StateAfter(sent[d])]
      /\ access' = [r \in Repos |->
                      IF r \in lost /\ access[r] = "active" THEN "removed" ELSE access[r]]
      /\ sync' = [s \in Syncs |-> IF sync[s].pc = "idle" THEN IdleSync ELSE OutdatedSync]
      /\ revoked' = revoked \cup lost
      /\ UNCHANGED <<github, sent, policy, command, sending>>
  BY DEF ReceiveLifecycle, Bump, LockFree
<1>4. installation' \in [state : InstallationStates \cup {"pending"}, recent : BOOLEAN]
  BY <1>1, <1>3 DEF StateAfter, Delivery, InstallationStates, TypeOK
<1>5. sync' \in [Syncs -> SyncState]
  <2>1. sync \in [Syncs -> SyncState]
    BY DEF TypeOK
  <2> HIDE DEF lost
  <2> QED BY <1>2, <1>3, <2>1, EmptySyncs
<1>6. TypeOK'
  <2> HIDE DEF lost
  <2> QED BY <1>2, <1>3, <1>4, <1>5 DEF TypeOK, Deliveries
<1>7. RevokedGone'
  <2> HIDE DEF lost
  <2> QED BY <1>2, <1>3 DEF RevokedGone, TypeOK
<1>8. AccessNeedsInstallation'
  BY <1>1, <1>3 DEF AccessNeedsInstallation, Lost, StateAfter, Delivery, TypeOK
<1>9. SyncsOK'
  <2> HIDE DEF lost
  <2> QED BY <1>3, EmptySyncs DEF SyncsOK, TypeOK
<1>10. SendingOK'
  BY <1>3 DEF SendingOK
<1> QED BY <1>6, <1>7, <1>8, <1>9, <1>10

\* A sync that reads, gives up or is outdated has no effect but on itself.
LEMMA ReadIInv ==
  ASSUME IInv, NEW s \in Syncs,
         NEW v \in SyncState, v.since = {}, SetSync(s, v)
  PROVE  IInv'
<1> USE DEF IInv, SetSync
<1>1. TypeOK'
  BY DEF TypeOK, Deliveries
<1>2. SyncsOK'
  BY DEF SyncsOK, TypeOK
<1>3. (RevokedGone /\ AccessNeedsInstallation /\ SendingOK)'
  BY DEF RevokedGone, AccessNeedsInstallation, SendingOK
<1> QED BY <1>1, <1>2, <1>3

\* What is applied was asked for after the last revocation.
LEMMA ApplyIInv ==
  ASSUME IInv, NEW s \in Syncs, Apply(s)
  PROVE  IInv'
<1> USE DEF IInv
<1>1. /\ sending = {} /\ revoked' = sync[s].since
      /\ installation' = [state |-> sync[s].state, recent |-> TRUE]
      /\ access' = AccessAfter(s)
      /\ sync' = [t \in Syncs |->
                    IF t = s \/ sync[t].pc = "idle" THEN IdleSync ELSE OutdatedSync]
      /\ UNCHANGED <<github, sent, received, policy, command, sending>>
  BY DEF Apply, LockFree
<1>2. revoked' = {}
  BY <1>1 DEF SyncsOK
<1>3. access' \in [Repos -> {"none", "pending", "active", "removed"}]
  BY <1>1 DEF AccessAfter
<1>4. sync' \in [Syncs -> SyncState]
  <2>1. sync \in [Syncs -> SyncState]
    BY DEF TypeOK
  <2> QED BY <1>1, <2>1, EmptySyncs
<1>5. TypeOK'
  <2>1. installation' \in [state : InstallationStates \cup {"pending"}, recent : BOOLEAN]
    BY <1>1 DEF TypeOK, SyncState
  <2> QED BY <1>1, <1>2, <1>3, <1>4, <2>1 DEF TypeOK, Deliveries
<1>6. AccessNeedsInstallation'
  BY <1>1 DEF AccessNeedsInstallation, AccessAfter, Snapshot
<1>7. SyncsOK'
  BY <1>1, EmptySyncs DEF SyncsOK, TypeOK
<1>8. (RevokedGone /\ SendingOK)'
  BY <1>1, <1>2 DEF RevokedGone, SendingOK
<1> QED BY <1>5, <1>6, <1>7, <1>8

\* Every step of a sync.
LEMMA SyncIInv ==
  ASSUME IInv, NEW s \in Syncs, SyncStep(s) \/ SyncFails(s)
  PROVE  IInv'
<1>1. /\ sync[s] \in SyncState /\ sync[s].since = {}
      /\ github \in [state : InstallationStates, repos : SUBSET Repos]
  BY DEF IInv, TypeOK, SyncsOK
<1>2. IdleSync \in SyncState /\ IdleSync.since = {}
  BY EmptySyncs
<1>3. CASE ReadRevision(s)
  <2> DEFINE v == [IdleSync EXCEPT !.pc = "asked"]
  <2>1. v \in SyncState /\ v.since = {}
    BY DEF IdleSync, SyncState, InstallationStates
  <2>2. SetSync(s, v)
    BY <1>1, <1>3 DEF ReadRevision
  <2> QED BY <2>1, <2>2, ReadIInv
<1>4. CASE ReadInstallation(s)
  <2> DEFINE v == [sync[s] EXCEPT !.state = github.state,
                                  !.pc = IF github.state = "active" THEN "listing" ELSE "read"]
  <2>1. v \in SyncState /\ v.since = {}
    BY <1>1 DEF SyncState
  <2>2. SetSync(s, v)
    BY <1>1, <1>4 DEF ReadInstallation
  <2> QED BY <2>1, <2>2, ReadIInv
<1>5. CASE ListFirst(s)
  <2>1. Cardinality(github.repos) \in Nat
    BY <1>1, PolicyAssumption, FS_Subset, FS_CardinalityType
  <2>2. PICK page \in SUBSET github.repos :
          SetSync(s, [sync[s] EXCEPT !.pc = "more", !.found = page,
                                     !.total = Cardinality(github.repos)])
    BY <1>5 DEF ListFirst
  <2> DEFINE v == [sync[s] EXCEPT !.pc = "more", !.found = page,
                                  !.total = Cardinality(github.repos)]
  <2>3. v \in SyncState /\ v.since = {}
    BY <1>1, <2>1 DEF SyncState
  <2>4. SetSync(s, v)
    BY <1>1, <1>5, <2>2 DEF ListFirst
  <2> QED BY <2>3, <2>4, ReadIInv
<1>6. CASE ListRest(s)
  <2>1. PICK page \in SUBSET (github.repos \ sync[s].found) :
          SetSync(s, [sync[s] EXCEPT !.pc = "read", !.found = @ \cup page])
    BY <1>6 DEF ListRest
  <2> DEFINE v == [sync[s] EXCEPT !.pc = "read", !.found = @ \cup page]
  <2>2. v \in SyncState /\ v.since = {}
    BY <1>1 DEF SyncState
  <2>3. SetSync(s, v)
    BY <1>1, <1>6, <2>1 DEF ListRest
  <2> QED BY <2>2, <2>3, ReadIInv
<1>7. CASE InventoryChanged(s) \/ Outdated(s) \/ SyncFails(s)
  <2>1. SetSync(s, IdleSync)
    BY <1>1, <1>7, PolicyAssumption DEF InventoryChanged, Outdated, SyncFails
  <2> QED BY <1>2, <2>1, ReadIInv
<1>8. CASE Apply(s)
  BY <1>8, ApplyIInv
<1> QED BY <1>3, <1>4, <1>5, <1>6, <1>7, <1>8 DEF SyncStep

\* The policy, the run and its start.
LEMMA RunIInv ==
  ASSUME IInv, NEW r \in Repos,
         \/ \E budget \in 0 .. MaxBudget : ReplacePolicy(r, budget)
         \/ CreateRun(r) \/ Block(r) \/ SendStart(r) \/ Start(r) \/ DispatcherGone(r)
  PROVE  IInv'
<1> USE DEF IInv
<1>1. UNCHANGED <<github, sent, received, installation, access, sync, revoked>>
  BY DEF ReplacePolicy, CreateRun, Block, SendStart, Start, DispatcherGone
<1>2. (RevokedGone /\ AccessNeedsInstallation /\ SyncsOK)'
  BY <1>1 DEF RevokedGone, AccessNeedsInstallation, SyncsOK
<1>3. CASE \E budget \in 0 .. MaxBudget : ReplacePolicy(r, budget)
  <2>1. TypeOK'
    BY <1>1, <1>3, PolicyAssumption DEF TypeOK, ReplacePolicy, Deliveries
  <2>2. SendingOK'
    BY <1>3 DEF ReplacePolicy, LockFree, SendingOK
  <2> QED BY <1>2, <2>1, <2>2
<1>4. CASE CreateRun(r)
  <2>1. TypeOK' /\ SendingOK'
    BY <1>1, <1>4 DEF TypeOK, CreateRun, Deliveries, LockFree, SendingOK
  <2> QED BY <1>2, <2>1
<1>5. CASE Block(r)
  <2>1. TypeOK' /\ SendingOK'
    BY <1>1, <1>5 DEF TypeOK, Block, Deliveries, LockFree, SendingOK
  <2> QED BY <1>2, <2>1
<1>6. CASE SendStart(r)
  <2>1. TypeOK'
    BY <1>1, <1>6 DEF TypeOK, SendStart, Deliveries, LockFree
  <2>2. SendingOK'
    BY <1>1, <1>6 DEF SendStart, LockFree, SendingOK, Allowed, Admitted, RevokedGone
  <2> QED BY <1>2, <2>1, <2>2
<1>7. CASE Start(r)
  <2>1. TypeOK' /\ SendingOK'
    BY <1>1, <1>7 DEF TypeOK, Start, Deliveries, SendingOK
  <2> QED BY <1>2, <2>1
<1>8. CASE DispatcherGone(r)
  <2>1. TypeOK' /\ SendingOK'
    BY <1>1, <1>8, PolicyAssumption DEF TypeOK, DispatcherGone, Deliveries, SendingOK
  <2> QED BY <1>2, <2>1
<1> QED BY <1>3, <1>4, <1>5, <1>6, <1>7, <1>8

\* IInv is inductive.
LEMMA NextIInv == IInv /\ [Next]_vars => IInv'
<1> SUFFICES ASSUME IInv, [Next]_vars PROVE IInv'
  OBVIOUS
<1>1. CASE UNCHANGED vars
  BY <1>1 DEF vars, IInv, TypeOK, RevokedGone, AccessNeedsInstallation, SyncsOK, SendingOK,
              Deliveries
<1>2. ASSUME NEW r \in Repos, AddRepository(r) \/ RemoveRepository(r) PROVE IInv'
  <2> DEFINE G == [state : InstallationStates, repos : SUBSET Repos]
  <2>1. github' \in G
    <3>1. github \in G
      BY DEF IInv, TypeOK
    <3>2. github.repos \cup {r} \in SUBSET Repos /\ github.repos \ {r} \in SUBSET Repos
      BY <3>1
    <3>3. \/ github' = [github EXCEPT !.repos = github.repos \cup {r}]
          \/ github' = [github EXCEPT !.repos = github.repos \ {r}]
      BY <1>2 DEF AddRepository, RemoveRepository
    <3> QED BY <3>1, <3>2, <3>3
  <2>2. Change("added", {r}) \/ Change("removed", {r})
    BY <1>2 DEF AddRepository, RemoveRepository
  <2> QED BY <2>1, <2>2, GitHubIInv
<1>3. CASE Suspend \/ Unsuspend \/ Uninstall
  <2>1. github' \in [state : InstallationStates, repos : SUBSET Repos]
    BY <1>3 DEF IInv, TypeOK, Suspend, Unsuspend, Uninstall, InstallationStates
  <2>2. Change("suspend", {}) \/ Change("unsuspend", {}) \/ Change("deleted", {})
    BY <1>3 DEF Suspend, Unsuspend, Uninstall
  <2> QED BY <2>1, <2>2, GitHubIInv
<1>4. ASSUME NEW d \in Deliveries, ReceiveLifecycle(d) PROVE IInv'
  BY <1>4, ReceiveIInv
<1>5. ASSUME NEW s \in Syncs, SyncStep(s) \/ SyncFails(s) PROVE IInv'
  BY <1>5, SyncIInv
<1>6. CASE Lapse
  <2>1. TypeOK'
    BY <1>6 DEF IInv, TypeOK, Lapse, Deliveries
  <2>2. (RevokedGone /\ AccessNeedsInstallation /\ SyncsOK /\ SendingOK)'
    BY <1>6 DEF IInv, TypeOK, Lapse, RevokedGone, AccessNeedsInstallation, SyncsOK, SendingOK
  <2> QED BY <2>1, <2>2 DEF IInv
<1>7. ASSUME NEW r \in Repos, NEW budget \in 0 .. MaxBudget, ReplacePolicy(r, budget)
      PROVE  IInv'
  BY <1>7, RunIInv
<1>8. ASSUME NEW r \in Repos,
             CreateRun(r) \/ Block(r) \/ SendStart(r) \/ Start(r) \/ DispatcherGone(r)
      PROVE  IInv'
  BY <1>8, RunIInv
<1> QED BY <1>1, <1>2, <1>3, <1>4, <1>5, <1>6, <1>7, <1>8 DEF Next

\* The invariant behind the theorems below.
THEOREM InductiveInvariant == Spec => []IInv
  BY InitIInv, NextIInv, PTL DEF Spec

\* At most one dispatcher holds the lock of the installation.
THEOREM TypeCorrect == Spec => []TypeOK
<1>1. IInv => TypeOK
  BY DEF IInv
<1> QED BY <1>1, InductiveInvariant, PTL

\* No snapshot that was asked for before a revocation restores what it revoked.
THEOREM RevocationsHold == Spec => []RevocationHolds
<1>1. IInv => RevocationHolds
  BY DEF IInv, RevokedGone, RevocationHolds, Admitted
<1> QED BY <1>1, InductiveInvariant, PTL

\* Syncs and deliveries leave both tables in agreement.
THEOREM AccessAgrees == Spec => []AccessNeedsInstallation
<1>1. IInv => AccessNeedsInstallation
  BY DEF IInv
<1> QED BY <1>1, InductiveInvariant, PTL

\* The lock carries the admission from the check to the start.
THEOREM AdmittedUntilStarted == Spec => StartsWithinPolicy
<1>1. IInv => [\A r \in Repos : Start(r) =>
                 /\ access[r] = "active" /\ r \notin revoked
                 /\ policy[r] > 0 /\ command[r].budget <= policy[r]]_vars
  BY DEF IInv, SendingOK, Start
<1> QED BY <1>1, InductiveInvariant, PTL DEF StartsWithinPolicy
=============================================================================
