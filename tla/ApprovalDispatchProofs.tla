------------------------ MODULE ApprovalDispatchProofs ------------------------
(***************************************************************************)
(* The safety properties of ApprovalDispatch for any number of runs,       *)
(* findings, dispatchers and faults.                                       *)
(*                                                                         *)
(* Decisions are immutable and a signal is sent only when all are there:   *)
(* so a repeated signal is the same one.  A receipt that defers a command  *)
(* leaves the command of the finding that is still to be decided.          *)
(***************************************************************************)
EXTENDS ApprovalDispatch, TLAPS

\* A run whose head is not the current one has moved.
HeadsOK == \A r \in Runs \ moved : r \in current

\* A dispatcher that waits for the answer of the server has sent the signal.
SentOK ==
  \A d \in Dispatchers : disp[d].pc = "sent" => wf[RunOf(disp[d].command)].approval.sent

IInv ==
  /\ TypeOK /\ ApprovalIsWhole /\ ReceiptMeansSent /\ LastDecisionPending
  /\ HeadsOK /\ SentOK

\* A command is the decision about a finding of one of the runs.
LEMMA CommandRun == TypeOK => \A c \in Commands : RunOf(c) \in Runs /\ c # 0
<1> SUFFICES ASSUME outbox \in Seq(Command), NEW c \in DOMAIN outbox
             PROVE  outbox[c].run \in Runs /\ c # 0
  BY DEF TypeOK, Commands, RunOf
<1>1. outbox[c] \in Command /\ c # 0
  OBVIOUS
<1> QED BY <1>1 DEF Command

\* So is the command of a call to the server.
LEMMA SentRun ==
  TypeOK => \A d \in Dispatchers : disp[d].pc \in Holding =>
              disp[d].command \in Commands /\ RunOf(disp[d].command) \in Runs
<1> SUFFICES ASSUME TypeOK, NEW d \in Dispatchers, disp[d].pc \in Holding
             PROVE  disp[d].command \in Commands /\ RunOf(disp[d].command) \in Runs
  OBVIOUS
<1>1. disp[d].command \in Commands
  BY DEF TypeOK
<1> QED BY <1>1, CommandRun

\* The state before any decision.
LEMMA InitIInv == Init => IInv
  BY ApprovalAssumption
     DEF Init, IInv, TypeOK, ApprovalIsWhole, ReceiptMeansSent, LastDecisionPending, HeadsOK,
         SentOK, Complete, Pending, Commands, RunOf, NoApproval, IdleDispatcher, Command, Holding

\* record_approval_decision appends the command of the decision it inserts.
LEMMA DecideIInv ==
  ASSUME IInv, NEW r \in Runs, NEW f \in FindingsOf[r], NEW v \in {"approved", "rejected"},
         Decide(r, f, v)
  PROVE  IInv'
<1> USE DEF Decide, IInv, Commands, RunOf
<1> DEFINE new == [run |-> r, finding |-> f]
<1>1. /\ outbox' = Append(outbox, new) /\ outbox \in Seq(Command)
      /\ new \in Command
  BY DEF TypeOK, Command, Findings
<1>2. /\ outbox' \in Seq(Command) /\ Len(outbox') = Len(outbox) + 1
      /\ DOMAIN outbox' = DOMAIN outbox \cup {Len(outbox) + 1}
      /\ outbox'[Len(outbox) + 1] = new
      /\ \A c \in DOMAIN outbox : outbox'[c] = outbox[c]
      /\ Len(outbox) + 1 \notin DOMAIN outbox /\ 0 \notin DOMAIN outbox
  BY <1>1
<1>3. /\ DOMAIN decision' = Runs
      /\ \A q \in Runs : decision'[q] \in [FindingsOf[q] -> {"none", "approved", "rejected"}]
      /\ \A q \in Runs \ {r} : decision'[q] = decision[q]
      /\ ~Complete(r)
  BY DEF TypeOK, Complete
<1>4. TypeOK'
  <2>1. \A d \in Dispatchers : disp[d].pc \in Holding => disp[d].command \in DOMAIN outbox
    BY DEF TypeOK
  <2> QED BY <1>2, <1>3, <2>1 DEF TypeOK
<1>5. ApprovalIsWhole'
  BY <1>3 DEF ApprovalIsWhole, Complete, ApprovedFindings
<1>6. LastDecisionPending'
  <2> SUFFICES ASSUME NEW q \in awaiting \ (moved \cup accepted), Complete(q)'
               PROVE  \E c \in Pending' : RunOf(c)' = q
    BY DEF LastDecisionPending
  <2>1. CASE q = r
    <3>1. Len(outbox) + 1 \notin settled
      BY <1>2 DEF TypeOK
    <3> QED BY <1>2, <2>1, <3>1 DEF Pending
  <2>2. CASE q # r
    <3>1. Complete(q)
      BY <1>3, <2>2 DEF Complete, TypeOK
    <3>2. PICK c \in Pending : RunOf(c) = q
      BY <3>1 DEF LastDecisionPending
    <3> QED BY <1>2, <3>2 DEF Pending
  <2> QED BY <2>1, <2>2
<1>7. SentOK'
  <2>1. \A d \in Dispatchers : disp[d].pc = "sent" => disp[d].command \in DOMAIN outbox
    BY DEF TypeOK, Holding
  <2> QED BY <1>2, <2>1 DEF SentOK
<1> QED BY <1>4, <1>5, <1>6, <1>7 DEF ReceiptMeansSent, HeadsOK

\* A dispatcher that has no locks and leaves rows, receipts and signals alone
\* disturbs nothing.
LEMMA IdleIInv ==
  ASSUME IInv, NEW d \in Dispatchers, NEW s \in [pc : {"idle", "selected"},
           seen : SUBSET Commands, command : Commands \cup {0}],
         disp' = [disp EXCEPT ![d] = s], faults' \in 0 .. MaxFaults,
         UNCHANGED <<awaiting, current, moved, decision, outbox, settled, accepted, wf>>
  PROVE  IInv'
<1> USE DEF IInv, Commands, RunOf
<1>1. TypeOK'
  BY DEF TypeOK, Holding
<1>2. ApprovalIsWhole' /\ ReceiptMeansSent' /\ LastDecisionPending' /\ HeadsOK'
  BY DEF ApprovalIsWhole, ReceiptMeansSent, LastDecisionPending, HeadsOK, Complete,
         ApprovedFindings, Pending
<1>3. SentOK'
  BY DEF SentOK, TypeOK
<1> QED BY <1>1, <1>2, <1>3

\* A dispatcher that takes a command is the only one that holds the locks of its run.
LEMMA TakesLocks ==
  ASSUME TypeOK, NEW d \in Dispatchers, NEW c \in Commands, Takes(d, c), NEW h \in Holding,
         disp' = [disp EXCEPT ![d] = [pc |-> h, seen |-> {}, command |-> c]], UNCHANGED outbox
  PROVE  /\ disp' \in [Dispatchers -> [pc : {"idle", "selected", "sent", "refused"},
                                       seen : SUBSET Commands, command : Commands \cup {0}]]
         /\ \A e \in Dispatchers : disp'[e].pc \in Holding =>
              /\ disp'[e].command # 0
              /\ \A o \in Dispatchers \ {e} :
                   disp'[o].pc \in Holding => RunOf(disp'[o].command) # RunOf(disp'[e].command)
<1>1. disp' \in [Dispatchers -> [pc : {"idle", "selected", "sent", "refused"},
                                seen : SUBSET Commands, command : Commands \cup {0}]]
  BY DEF TypeOK, Holding
<1>2. \A e \in Dispatchers : disp[e].pc \in Holding => RunOf(disp[e].command) # RunOf(c)
  BY DEF Takes, Locked
<1>3. /\ disp'[d] = [pc |-> h, seen |-> {}, command |-> c]
      /\ \A e \in Dispatchers \ {d} : disp'[e] = disp[e]
  BY DEF TypeOK
<1>4. \A e \in Dispatchers : disp[e].pc \in Holding =>
        /\ disp[e].command # 0
        /\ \A o \in Dispatchers \ {e} :
             disp[o].pc \in Holding => RunOf(disp[o].command) # RunOf(disp[e].command)
  BY DEF TypeOK
<1>5. c # 0
  BY CommandRun
<1> QED BY <1>1, <1>2, <1>3, <1>4, <1>5

\* A call the server answers with an error changes nothing but the locks.
LEMMA RefusedIInv ==
  ASSUME IInv, NEW d \in Dispatchers, Refused(d)
  PROVE  IInv'
<1> USE DEF IInv
<1>1. PICK c \in Commands :
        /\ Takes(d, c)
        /\ disp' = [disp EXCEPT ![d] = [pc |-> "refused", seen |-> {}, command |-> c]]
  BY DEF Refused
<1>2. UNCHANGED <<awaiting, current, moved, decision, outbox, settled, accepted, wf, faults>>
  BY DEF Refused
<1>3. TypeOK'
  <2>1. "refused" \in Holding
    BY DEF Holding
  <2> QED BY <1>1, <1>2, <2>1, TakesLocks DEF TypeOK, Commands, RunOf
<1>4. ApprovalIsWhole' /\ ReceiptMeansSent' /\ LastDecisionPending' /\ HeadsOK'
  BY <1>2 DEF ApprovalIsWhole, ReceiptMeansSent, LastDecisionPending, HeadsOK, Complete,
              ApprovedFindings, Pending, Commands, RunOf
<1>5. SentOK'
  BY <1>1, <1>2 DEF SentOK, TypeOK, RunOf
<1> QED BY <1>3, <1>4, <1>5

\* The receipt of a command, deferred or skipped, of a run that another command
\* will answer or that needs no answer.
LEMMA SettleIInv ==
  ASSUME IInv, NEW d \in Dispatchers, NEW c \in Commands, Settle(d, c),
         RunOf(c) \in awaiting \ moved => ~Complete(RunOf(c))
  PROVE  IInv'
<1> USE DEF IInv, Commands, RunOf, Settle, IdleDispatcher
<1>1. TypeOK'
  BY DEF TypeOK, Holding
<1>2. ApprovalIsWhole' /\ ReceiptMeansSent' /\ HeadsOK'
  BY DEF ApprovalIsWhole, ReceiptMeansSent, HeadsOK, Complete, ApprovedFindings
<1>3. LastDecisionPending'
  BY DEF LastDecisionPending, Pending, Complete, TypeOK
<1>4. SentOK'
  BY DEF SentOK, TypeOK
<1> QED BY <1>1, <1>2, <1>3, <1>4

\* The signal carries all decisions.
LEMMA SignalIInv ==
  ASSUME IInv, NEW d \in Dispatchers, Signal(d)
  PROVE  IInv'
<1> USE DEF IInv, Commands, RunOf
<1>1. PICK c \in Commands :
        LET r == RunOf(c) IN
        /\ Takes(d, c) /\ r \in awaiting \cap current
        /\ Complete(r) /\ wf[r].pc # "closed"
        /\ wf' = [wf EXCEPT ![r].approval = [sent |-> TRUE, approved |-> ApprovedFindings(r)]]
        /\ disp' = [disp EXCEPT ![d] = [pc |-> "sent", seen |-> {}, command |-> c]]
        /\ UNCHANGED <<awaiting, current, moved, decision, outbox, settled, accepted, faults>>
  BY DEF Signal
<1> DEFINE r == RunOf(c)
<1>2. r \in Runs /\ c # 0 /\ outbox \in Seq(Command)
  BY <1>1, CommandRun DEF TypeOK
<1>3. /\ wf'[r].approval = [sent |-> TRUE, approved |-> ApprovedFindings(r)]
      /\ \A q \in Runs \ {r} : wf'[q] = wf[q]
      /\ ApprovedFindings(r) \subseteq Findings
  <2>1. wf'[r].approval = [sent |-> TRUE, approved |-> ApprovedFindings(r)]
    BY <1>1, <1>2 DEF TypeOK
  <2>2. \A q \in Runs \ {r} : wf'[q] = wf[q]
    BY <1>1 DEF TypeOK
  <2>3. \A q \in Runs : ApprovedFindings(q) \subseteq Findings
    BY DEF ApprovedFindings, Findings
  <2> QED BY <1>2, <2>1, <2>2, <2>3
<1>4. TypeOK'
  <2>1. wf' \in [Runs -> [pc : {"waiting", "ending", "closed"},
                         approval : [sent : BOOLEAN, approved : SUBSET Findings]]]
    <3> DEFINE a == [sent |-> TRUE, approved |-> ApprovedFindings(r)]
    <3>1. a \in [sent : BOOLEAN, approved : SUBSET Findings]
      BY <1>3
    <3>2. wf \in [Runs -> [pc : {"waiting", "ending", "closed"},
                          approval : [sent : BOOLEAN, approved : SUBSET Findings]]]
      BY DEF TypeOK
    <3>3. wf' = [wf EXCEPT ![r].approval = a]
      BY <1>1
    <3> HIDE DEF a, r
    <3> QED BY <1>2, <3>1, <3>2, <3>3
  <2>2. "sent" \in Holding
    BY DEF Holding
  <2>3. /\ disp' \in [Dispatchers -> [pc : {"idle", "selected", "sent", "refused"},
                                       seen : SUBSET Commands, command : Commands \cup {0}]]
        /\ \A e \in Dispatchers : disp'[e].pc \in Holding =>
             /\ disp'[e].command # 0
             /\ \A o \in Dispatchers \ {e} :
                  disp'[o].pc \in Holding => RunOf(disp'[o].command) # RunOf(disp'[e].command)
    BY <1>1, <2>2, TakesLocks
  <2> QED BY <1>1, <2>1, <2>3 DEF TypeOK
<1>5. ApprovalIsWhole'
  BY <1>1, <1>2, <1>3 DEF ApprovalIsWhole, Complete, ApprovedFindings
<1>6. ReceiptMeansSent' /\ HeadsOK'
  BY <1>1, <1>2, <1>3 DEF ReceiptMeansSent, HeadsOK, TypeOK
<1>7. LastDecisionPending'
  BY <1>1 DEF LastDecisionPending, Complete, Pending
<1>8. SentOK'
  <2>1. \A e \in Dispatchers : disp[e].pc = "sent" => RunOf(disp[e].command) \in Runs
    BY SentRun DEF Holding
  <2>2. \A e \in Dispatchers \ {d} : disp'[e] = disp[e]
    BY <1>1 DEF TypeOK
  <2>3. disp'[d].command = c
    BY <1>1 DEF TypeOK
  <2>4. wf'[r].approval.sent
    BY <1>3
  <2>5. \A q \in Runs : wf[q].approval.sent => wf'[q].approval.sent
    BY <1>3, <2>4
  <2>6. ASSUME NEW e \in Dispatchers \ {d}, disp'[e].pc = "sent"
        PROVE  wf'[RunOf(disp[e].command)'].approval.sent
    BY <1>1, <2>1, <2>2, <2>5, <2>6 DEF SentOK
  <2>7. RunOf(disp[d].command)' = r
    BY <1>1, <2>3
  <2> QED BY <2>4, <2>6, <2>7 DEF SentOK
<1> QED BY <1>4, <1>5, <1>6, <1>7, <1>8

\* The run-level receipt follows the signal.
LEMMA ReceiptIInv ==
  ASSUME IInv, NEW d \in Dispatchers, InsertReceipt(d)
  PROVE  IInv'
<1> USE DEF IInv, InsertReceipt, Commands, RunOf, IdleDispatcher
<1>1. RunOf(disp[d].command) \in Runs
  BY SentRun DEF Holding
<1>2. TypeOK'
  BY <1>1 DEF TypeOK, Holding
<1>3. ApprovalIsWhole' /\ HeadsOK'
  BY DEF ApprovalIsWhole, HeadsOK, Complete, ApprovedFindings
<1>4. ReceiptMeansSent'
  BY DEF ReceiptMeansSent, SentOK
<1>5. LastDecisionPending'
  BY DEF LastDecisionPending, Pending, Complete
<1>6. SentOK'
  BY DEF SentOK, TypeOK
<1> QED BY <1>2, <1>3, <1>4, <1>5, <1>6

\* The end of a wait or of an execution touches no approval.
LEMMA WorkflowIInv ==
  ASSUME IInv, NEW r \in Runs, EndWait(r) \/ RecordTerminal(r) \/ Expire(r)
  PROVE  IInv'
<1> USE DEF IInv, Commands, RunOf
<1>1. /\ awaiting' \subseteq awaiting
      /\ UNCHANGED <<current, moved, decision, outbox, settled, accepted, disp>>
      /\ faults' \in 0 .. MaxFaults
      /\ \E p \in {"ending", "closed"} : wf' = [wf EXCEPT ![r].pc = p]
  BY ApprovalAssumption DEF EndWait, RecordTerminal, Expire, Fault, TypeOK
<1>2. \A q \in Runs : wf'[q].approval = wf[q].approval
  BY <1>1 DEF TypeOK
<1>3. TypeOK'
  BY <1>1 DEF TypeOK
<1>4. ApprovalIsWhole' /\ ReceiptMeansSent' /\ LastDecisionPending' /\ HeadsOK'
  BY <1>1, <1>2 DEF ApprovalIsWhole, ReceiptMeansSent, LastDecisionPending, HeadsOK, Complete,
                    ApprovedFindings, Pending, TypeOK
<1>5. SentOK'
  <2>1. \A e \in Dispatchers : disp[e].pc = "sent" => RunOf(disp[e].command) \in Runs
    BY SentRun DEF Holding
  <2> QED BY <1>1, <1>2, <2>1 DEF SentOK
<1> QED BY <1>3, <1>4, <1>5

\* A head that moves is remembered.
LEMMA MoveHeadIInv ==
  ASSUME IInv, NEW r \in Runs, MoveHead(r)
  PROVE  IInv'
<1> USE DEF IInv, Commands, RunOf
<1>1. TypeOK'
  BY ApprovalAssumption DEF TypeOK, MoveHead, Fault
<1>2. ApprovalIsWhole' /\ ReceiptMeansSent' /\ LastDecisionPending' /\ HeadsOK' /\ SentOK'
  BY DEF ApprovalIsWhole, ReceiptMeansSent, LastDecisionPending, HeadsOK, SentOK, Complete,
         ApprovedFindings, Pending, MoveHead
<1> QED BY <1>1, <1>2

\* Every step of a dispatcher.
LEMMA DispatchIInv ==
  ASSUME IInv, NEW d \in Dispatchers, DispatchStep(d) \/ Fails(d)
  PROVE  IInv'
<1> DEFINE State == [pc : {"idle", "selected"}, seen : SUBSET Commands,
                     command : Commands \cup {0}]
<1>1. IdleDispatcher \in State /\ [pc |-> "selected", seen |-> Pending, command |-> 0] \in State
  BY DEF IdleDispatcher, Pending
<1>2. faults \in 0 .. MaxFaults
  BY DEF IInv, TypeOK
<1>3. CASE Select(d)
  BY <1>1, <1>2, <1>3, IdleIInv DEF Select
<1>4. CASE NothingToTake(d) \/ RollBack(d)
  BY <1>1, <1>2, <1>4, IdleIInv DEF NothingToTake, RollBack
<1>5. CASE Fails(d)
  <2>1. faults' \in 0 .. MaxFaults
    BY <1>2, <1>5, ApprovalAssumption DEF Fails, Fault
  <2> QED BY <1>1, <1>5, <2>1, IdleIInv DEF Fails
<1>6. CASE Skip(d)
  <2>1. PICK c \in Commands : RunOf(c) \notin awaiting \cap current /\ Settle(d, c)
    BY <1>6 DEF Skip
  <2>2. RunOf(c) \in Runs
    BY CommandRun DEF IInv
  <2>3. RunOf(c) \notin awaiting \ moved
    BY <2>1, <2>2 DEF IInv, HeadsOK
  <2> QED BY <2>1, <2>3, SettleIInv
<1>7. CASE Defer(d)
  BY <1>7, SettleIInv DEF Defer
<1>8. CASE Signal(d)
  BY <1>8, SignalIInv
<1>9. CASE InsertReceipt(d)
  BY <1>9, ReceiptIInv
<1>10. CASE Refused(d)
  BY <1>10, RefusedIInv
<1> QED BY <1>3, <1>4, <1>5, <1>6, <1>7, <1>8, <1>9, <1>10 DEF DispatchStep

\* IInv is inductive.
LEMMA NextIInv == IInv /\ [Next]_vars => IInv'
<1> SUFFICES ASSUME IInv, [Next]_vars PROVE IInv'
  OBVIOUS
<1>1. CASE UNCHANGED vars
  BY <1>1 DEF vars, IInv, TypeOK, ApprovalIsWhole, ReceiptMeansSent, LastDecisionPending, HeadsOK,
              SentOK, Complete, ApprovedFindings, Pending, Commands, RunOf
<1>2. ASSUME NEW r \in Runs, NEW f \in FindingsOf[r], NEW v \in {"approved", "rejected"},
             Decide(r, f, v)
      PROVE  IInv'
  BY <1>2, DecideIInv
<1>3. ASSUME NEW d \in Dispatchers, DispatchStep(d) \/ Fails(d) PROVE IInv'
  BY <1>3, DispatchIInv
<1>4. ASSUME NEW r \in Runs, EndWait(r) \/ RecordTerminal(r) \/ Expire(r) PROVE IInv'
  BY <1>4, WorkflowIInv
<1>5. ASSUME NEW r \in Runs, MoveHead(r) PROVE IInv'
  BY <1>5, MoveHeadIInv
<1> QED BY <1>1, <1>2, <1>3, <1>4, <1>5 DEF Next

\* The invariant behind the theorems below.
THEOREM InductiveInvariant == Spec => []IInv
  BY InitIInv, NextIInv, PTL DEF Spec

\* No two dispatchers hold the locks of one run (FOR UPDATE ... SKIP LOCKED).
THEOREM TypeCorrect == Spec => []TypeOK
<1>1. IInv => TypeOK
  BY DEF IInv
<1> QED BY <1>1, InductiveInvariant, PTL

\* The workflow is sent exactly the approved findings, after the last decision.
THEOREM WholeApproval == Spec => []ApprovalIsWhole
<1>1. IInv => ApprovalIsWhole
  BY DEF IInv
<1> QED BY <1>1, InductiveInvariant, PTL

\* The receipt of an aggregate is never ahead of its signal.
THEOREM ReceiptAfterSignal == Spec => []ReceiptMeansSent
<1>1. IInv => ReceiptMeansSent
  BY DEF IInv
<1> QED BY <1>1, InductiveInvariant, PTL

\* Deferring early decisions strands no run.
THEOREM NoRunStranded == Spec => []LastDecisionPending
<1>1. IInv => LastDecisionPending
  BY DEF IInv
<1> QED BY <1>1, InductiveInvariant, PTL

\* A repeated signal is the same signal.
THEOREM SameAnswer == Spec => AnswerStable
<1> DEFINE Keeps == \A r \in Runs : wf[r].approval.sent => wf'[r].approval = wf[r].approval
<1>1. ASSUME IInv, [Next]_vars PROVE [Keeps]_vars
  <2>1. CASE wf' = wf
    BY <2>1
  <2>2. ASSUME NEW d \in Dispatchers, Signal(d) PROVE Keeps
    <3>1. PICK c \in Commands :
            wf' = [wf EXCEPT ![RunOf(c)].approval =
                     [sent |-> TRUE, approved |-> ApprovedFindings(RunOf(c))]]
      BY <2>2 DEF Signal
    <3>2. \A r \in Runs : wf[r].approval.sent =>
            wf[r].approval = [sent |-> TRUE, approved |-> ApprovedFindings(r)]
      BY <1>1 DEF IInv, TypeOK, ApprovalIsWhole
    <3> QED BY <1>1, <3>1, <3>2 DEF IInv, TypeOK
  <2>3. ASSUME NEW r \in Runs, EndWait(r) \/ RecordTerminal(r) \/ Expire(r) PROVE Keeps
    <3>1. \E p \in {"ending", "closed"} : wf' = [wf EXCEPT ![r].pc = p]
      BY <2>3 DEF EndWait, RecordTerminal, Expire
    <3> QED BY <1>1, <3>1 DEF IInv, TypeOK
  <2> QED
    BY <1>1, <2>1, <2>2, <2>3
       DEF Next, vars, Decide, DispatchStep, Select, NothingToTake, Skip, Defer, Settle, Refused,
           RollBack, InsertReceipt, Fails, MoveHead
<1> QED BY <1>1, InductiveInvariant, PTL DEF Spec, AnswerStable
=============================================================================
