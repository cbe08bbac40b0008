--------------------------- MODULE ApprovalDispatch ---------------------------
(***************************************************************************)
(* From the decisions about single findings to the one signal a waiting    *)
(* workflow gets: record_approval_decision (approvals/inbox.py), which     *)
(* writes a command for every decision, and dispatch_next_approval         *)
(* (dispatch.py), run by several dispatchers.                              *)
(*                                                                         *)
(* Each run belongs to a pull request of its own; what a signal does to an *)
(* execution that reviews another run is the subject of ReviewLifecycle.   *)
(***************************************************************************)
EXTENDS Integers, Sequences, FiniteSets

CONSTANTS
  Runs,          \* runs that await approval and have findings
  FindingsOf,    \* FindingsOf[r]: the findings of run r
  Dispatchers,
  MaxFaults      \* bound: dispatchers that die, heads that move, executions that expire

ASSUME ApprovalAssumption ==
  /\ FindingsOf \in [Runs -> SUBSET UNION {FindingsOf[r] : r \in Runs}]
  /\ \A r \in Runs : FindingsOf[r] # {}
  /\ MaxFaults \in Nat

VARIABLES
  awaiting,   \* runs in the state awaiting_approval
  current,    \* runs whose head is the one of their pull request
  moved,      \* history: runs whose pull request had another head at some time
  decision,   \* decision[r][f]: the row of approvals
  outbox,     \* the commands (approval.signal_created) in the order of their ids
  settled,    \* commands with a receipt of their own: deferred or skipped
  accepted,   \* runs with the receipt of an aggregate
  disp,       \* disp[d]: the snapshot of dispatcher d, or the command it has sent
  wf,         \* wf[r]: the workflow execution of r and the approval it was sent
  faults

vars == <<awaiting, current, moved, decision, outbox, settled, accepted, disp, wf, faults>>

-----------------------------------------------------------------------------
(* Values *)

Findings == UNION {FindingsOf[r] : r \in Runs}

Command == [run : Runs, finding : Findings]
Commands == DOMAIN outbox
RunOf(c) == outbox[c].run

\* The approval sent to a workflow: the set of approved findings.
NoApproval == [sent |-> FALSE, approved |-> {}]

IdleDispatcher == [pc |-> "idle", seen |-> {}, command |-> 0]

\* In a call to the server.
Holding == {"sent", "refused"}

\* The locks of the row query are held until the receipt is committed.
Locked(r) ==
  \E d \in Dispatchers : disp[d].pc \in Holding /\ RunOf(disp[d].command) = r

\* Every finding of the run has its immutable decision.
Complete(r) == \A f \in FindingsOf[r] : decision[r][f] # "none"
ApprovedFindings(r) == {f \in FindingsOf[r] : decision[r][f] = "approved"}

Fault == faults < MaxFaults /\ faults' = faults + 1

-----------------------------------------------------------------------------
(* The inbox *)

\* record_approval_decision: a second decision about a finding is a retry of
\* the first or a conflict, and changes nothing.
Decide(r, f, d) ==
  /\ ~Locked(r)
  /\ r \in awaiting \cap current
  /\ decision[r][f] = "none"
  /\ decision' = [decision EXCEPT ![r][f] = d]
  /\ outbox' = Append(outbox, [run |-> r, finding |-> f])
  /\ UNCHANGED <<awaiting, current, moved, settled, accepted, disp, wf, faults>>

-----------------------------------------------------------------------------
(* The dispatcher *)

\* Faulty variant: any receipt of the run counts as that of its aggregate.
PendingWithoutSibling ==
  {c \in Commands : RunOf(c) \notin accepted /\ ~\E b \in settled : RunOf(b) = RunOf(c)}

\* The two NOT EXISTS: neither a receipt of the command nor of its run.
Pending == {c \in Commands : c \notin settled /\ RunOf(c) \notin accepted}

\* The row query reads a snapshot and takes its locks later.
Select(d) ==
  /\ disp[d].pc = "idle" /\ Pending # {}
  /\ disp' = [disp EXCEPT ![d] = [pc |-> "selected", seen |-> Pending, command |-> 0]]
  /\ UNCHANGED <<awaiting, current, moved, decision, outbox, settled, accepted, wf, faults>>

\* ORDER BY id, SKIP LOCKED, LIMIT 1: the first command of the snapshot that
\* nobody has locked.
Takes(d, c) ==
  /\ disp[d].pc = "selected"
  /\ c \in disp[d].seen /\ ~Locked(RunOf(c))
  /\ \A b \in disp[d].seen : b < c => Locked(RunOf(b))

\* return False
NothingToTake(d) ==
  /\ disp[d].pc = "selected"
  /\ \A c \in disp[d].seen : Locked(RunOf(c))
  /\ disp' = [disp EXCEPT ![d] = IdleDispatcher]
  /\ UNCHANGED <<awaiting, current, moved, decision, outbox, settled, accepted, wf, faults>>

Settle(d, c) ==
  /\ settled' = settled \cup {c}
  /\ disp' = [disp EXCEPT ![d] = IdleDispatcher]
  /\ UNCHANGED <<awaiting, current, moved, decision, outbox, accepted, wf, faults>>

\* "run no longer awaits this commit"
Skip(d) == \E c \in Commands : Takes(d, c) /\ RunOf(c) \notin awaiting \cap current /\ Settle(d, c)

\* "run still awaits finding decisions"
Defer(d) ==
  \E c \in Commands :
    /\ Takes(d, c) /\ RunOf(c) \in awaiting \cap current
    /\ ~Complete(RunOf(c))
    /\ Settle(d, c)

\* Faulty variant: the findings decided so far are enough.
SignalEarly(d) ==
  \E c \in Commands :
    LET r == RunOf(c) IN
    /\ Takes(d, c) /\ r \in awaiting \cap current
    /\ wf[r].pc # "closed"
    /\ wf' = [wf EXCEPT ![r].approval = [sent |-> TRUE, approved |-> ApprovedFindings(r)]]
    /\ disp' = [disp EXCEPT ![d] = [pc |-> "sent", seen |-> {}, command |-> c]]
    /\ UNCHANGED <<awaiting, current, moved, decision, outbox, settled, accepted, faults>>

\* The aggregate of all decisions goes to the workflow.
Signal(d) ==
  \E c \in Commands :
    LET r == RunOf(c) IN
    /\ Takes(d, c) /\ r \in awaiting \cap current
    /\ Complete(r) /\ wf[r].pc # "closed"
    /\ wf' = [wf EXCEPT ![r].approval = [sent |-> TRUE, approved |-> ApprovedFindings(r)]]
    /\ disp' = [disp EXCEPT ![d] = [pc |-> "sent", seen |-> {}, command |-> c]]
    /\ UNCHANGED <<awaiting, current, moved, decision, outbox, settled, accepted, faults>>

\* The execution is not there: the server answers the call with an error.
Refused(d) ==
  \E c \in Commands :
    /\ Takes(d, c) /\ RunOf(c) \in awaiting \cap current
    /\ Complete(RunOf(c)) /\ wf[RunOf(c)].pc = "closed"
    /\ disp' = [disp EXCEPT ![d] = [pc |-> "refused", seen |-> {}, command |-> c]]
    /\ UNCHANGED <<awaiting, current, moved, decision, outbox, settled, accepted, wf, faults>>

\* RPCError: roll back, and poll again.
RollBack(d) ==
  /\ disp[d].pc = "refused"
  /\ disp' = [disp EXCEPT ![d] = IdleDispatcher]
  /\ UNCHANGED <<awaiting, current, moved, decision, outbox, settled, accepted, wf, faults>>

\* _insert_aggregate_approval_receipt, keyed by the set; ends the transaction.
InsertReceipt(d) ==
  /\ disp[d].pc = "sent"
  /\ accepted' = accepted \cup {RunOf(disp[d].command)}
  /\ disp' = [disp EXCEPT ![d] = IdleDispatcher]
  /\ UNCHANGED <<awaiting, current, moved, decision, outbox, settled, wf, faults>>

\* It dies, or its call times out although the server accepted the signal.
Fails(d) ==
  /\ disp[d].pc = "sent" /\ Fault
  /\ disp' = [disp EXCEPT ![d] = IdleDispatcher]
  /\ UNCHANGED <<awaiting, current, moved, decision, outbox, settled, accepted, wf>>

-----------------------------------------------------------------------------
(* The workflow and the pull request *)

\* The wait ends with the approval, a timeout or an interrupt.
EndWait(r) ==
  /\ wf[r].pc = "waiting"
  /\ wf' = [wf EXCEPT ![r].pc = "ending"]
  /\ UNCHANGED <<awaiting, current, moved, decision, outbox, settled, accepted, disp, faults>>

\* record_terminal needs the row, and the execution closes.
RecordTerminal(r) ==
  /\ wf[r].pc = "ending" /\ ~Locked(r)
  /\ awaiting' = awaiting \ {r}
  /\ wf' = [wf EXCEPT ![r].pc = "closed"]
  /\ UNCHANGED <<current, moved, decision, outbox, settled, accepted, disp, faults>>

\* The execution timeout: nothing is recorded.
Expire(r) ==
  /\ wf[r].pc # "closed" /\ Fault
  /\ wf' = [wf EXCEPT ![r].pc = "closed"]
  /\ UNCHANGED <<awaiting, current, moved, decision, outbox, settled, accepted, disp>>

\* A delivery moves the head of the pull request, away or back.
MoveHead(r) ==
  /\ ~Locked(r) /\ Fault
  /\ current' = IF r \in current THEN current \ {r} ELSE current \cup {r}
  /\ moved' = moved \cup {r}
  /\ UNCHANGED <<awaiting, decision, outbox, settled, accepted, disp, wf>>

-----------------------------------------------------------------------------
(* Specification *)

Init ==
  /\ awaiting = Runs /\ current = Runs /\ moved = {}
  /\ decision = [r \in Runs |-> [f \in FindingsOf[r] |-> "none"]]
  /\ outbox = <<>> /\ settled = {} /\ accepted = {}
  /\ disp = [d \in Dispatchers |-> IdleDispatcher]
  /\ wf = [r \in Runs |-> [pc |-> "waiting", approval |-> NoApproval]]
  /\ faults = 0

DispatchStep(d) ==
  \/ Select(d) \/ NothingToTake(d) \/ Skip(d) \/ Defer(d) \/ Signal(d) \/ Refused(d)
  \/ RollBack(d) \/ InsertReceipt(d)

Next ==
  \/ \E r \in Runs : \E f \in FindingsOf[r], v \in {"approved", "rejected"} : Decide(r, f, v)
  \/ \E d \in Dispatchers : DispatchStep(d) \/ Fails(d)
  \/ \E r \in Runs : EndWait(r) \/ RecordTerminal(r) \/ Expire(r) \/ MoveHead(r)

Spec == Init /\ [][Next]_vars

\* The polling loop of every dispatcher goes on.
FairSpec == Spec /\ \A d \in Dispatchers : WF_vars(DispatchStep(d))

-----------------------------------------------------------------------------
(* Properties *)

\* The shape of the state; no two dispatchers hold the locks of one run.
TypeOK ==
  /\ awaiting \subseteq Runs /\ current \subseteq Runs /\ moved \subseteq Runs
  /\ DOMAIN decision = Runs
  /\ \A r \in Runs : decision[r] \in [FindingsOf[r] -> {"none", "approved", "rejected"}]
  /\ outbox \in Seq(Command)
  /\ settled \subseteq Commands /\ accepted \subseteq Runs
  /\ disp \in [Dispatchers -> [pc : {"idle", "selected", "sent", "refused"},
                               seen : SUBSET Commands, command : Commands \cup {0}]]
  /\ wf \in [Runs -> [pc : {"waiting", "ending", "closed"},
                      approval : [sent : BOOLEAN, approved : SUBSET Findings]]]
  /\ faults \in 0 .. MaxFaults
  /\ \A d \in Dispatchers : disp[d].pc \in Holding =>
       /\ disp[d].command # 0
       /\ \A e \in Dispatchers \ {d} :
            disp[e].pc \in Holding => RunOf(disp[e].command) # RunOf(disp[d].command)

\* What a workflow is sent is the whole decision about its run: no finding is
\* published because its sibling was decided first, and a mixed set publishes
\* exactly the approved ones.
ApprovalIsWhole ==
  \A r \in Runs :
    wf[r].approval.sent => Complete(r) /\ wf[r].approval.approved = ApprovedFindings(r)

\* A repeated signal, of a dispatcher that died or acted on an old snapshot,
\* never changes the answer.
AnswerStable ==
  [][\A r \in Runs : wf[r].approval.sent => wf'[r].approval = wf[r].approval]_vars

\* A run has the receipt of its aggregate only when its workflow has the answer.
ReceiptMeansSent == \A r \in accepted : wf[r].approval.sent

\* The receipts that defer early decisions strand no run: once the last finding
\* is decided a command is left that carries the aggregate.
LastDecisionPending ==
  \A r \in awaiting \ (moved \cup accepted) :
    Complete(r) => \E c \in Pending : RunOf(c) = r

\* The execution of the run is gone, and the row still awaits an approval.
Expired(r) == r \in awaiting /\ wf[r].pc = "closed"

\* The command of an execution that is gone is before those of the run in the queue.
Blocked(r) ==
  \E b \in Pending : Expired(RunOf(b)) /\ \A c \in Pending : RunOf(c) = r => b <= c

\* Nothing is left to be answered about the run.
Answered(r) == r \in accepted \cup moved \/ r \notin awaiting

\* A run whose findings are all decided gets its answer, whatever dispatchers
\* die and whichever other execution is gone, unless it ends or its head moves,
\* or a signal that is refused for ever is before it in the queue.
DecisionsArrive ==
  \A r \in Runs : <>[]~Blocked(r) => (Complete(r) ~> Answered(r))
=============================================================================
