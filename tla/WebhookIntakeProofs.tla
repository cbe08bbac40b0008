------------------------- MODULE WebhookIntakeProofs -------------------------
(***************************************************************************)
(* Theorems about WebhookIntake: for any number of deliveries, in any      *)
(* order and however often they arrive, the row and the runs are what      *)
(* docs/architecture.md promises, and the row has GitHub's head once the   *)
(* deliveries of the last second are there.  The second half is about      *)
(* CheckRun, the publication of the check that is one action to the intake.*)
(***************************************************************************)
EXTENDS WebhookIntake, CheckRun, SequenceTheorems, FiniteSetTheorems, TLAPS

-----------------------------------------------------------------------------
(* The inductive invariant *)

\* A run is owed to a delivery that was received, and a completed check is the
\* check of a run.
RowsOK ==
  /\ \A g \in DOMAIN runs : runs[g].by \in received
  /\ \A h \in Heads : checks[h].completed => checks[h].gen > 0

IInv == TypeOK /\ OpenWins /\ EachDeliveryOnce /\ RowsOK

-----------------------------------------------------------------------------
(* Lemmas *)

\* What is appended to a sequence comes last and moves nothing.
LEMMA Appended ==
  ASSUME NEW S, NEW s \in Seq(S), NEW e \in S
  PROVE  /\ Append(s, e) \in Seq(S)
         /\ Len(Append(s, e)) = Len(s) + 1
         /\ DOMAIN Append(s, e) = 1 .. Len(s) + 1
         /\ DOMAIN s = 1 .. Len(s) /\ Len(s) \in Nat
         /\ \A i \in 1 .. Len(s) : Append(s, e)[i] = s[i]
         /\ Append(s, e)[Len(s) + 1] = e
  BY AppendProperties, LenProperties

\* What GitHub sent is a delivery, and what is owed a run is a run.
LEMMA Elements ==
  ASSUME TypeOK
  PROVE  /\ \A d \in Deliveries : d \in Nat /\ sent[d] \in Delivery
         /\ \A d \in Deliveries : sent[d].head \in Heads /\ sent[d].time \in 1 .. MaxTime
         /\ \A g \in DOMAIN runs : g \in Nat \ {0} /\ runs[g].head \in Heads
  <1>1. sent \in Seq(Delivery) /\ runs \in Seq([head : Heads, by : Nat])
    BY DEF TypeOK
  <1>2. \A d \in Deliveries : d \in Nat /\ sent[d] \in Delivery
    BY <1>1, ElementOfSeq DEF Deliveries
  <1>3. DOMAIN runs = 1 .. Len(runs) /\ Len(runs) \in Nat
    BY <1>1, LenProperties
  <1>4. \A g \in DOMAIN runs : g \in Nat \ {0} /\ runs[g].head \in Heads
    <2> SUFFICES ASSUME NEW g \in DOMAIN runs PROVE g \in Nat \ {0} /\ runs[g].head \in Heads
      OBVIOUS
    <2>1. g \in 1 .. Len(runs)
      BY <1>3
    <2>2. runs[g] \in [head : Heads, by : Nat]
      BY <1>1, <2>1, ElementOfSeq
    <2> QED
      BY <1>3, <2>1, <2>2
  <1>5. \A e \in Delivery : e.head \in Heads /\ e.time \in 1 .. MaxTime
    BY DEF Delivery
  <1> QED
    BY <1>2, <1>4, <1>5

\* The initial states satisfy the invariant.
LEMMA InitIInv == Init => IInv
  <1> SUFFICES ASSUME Init PROVE IInv
    OBVIOUS
  <1> USE IntakeAssumption
  <1>1. PICK h \in Heads :
          /\ github = [head |-> h, open |-> TRUE, time |-> 1]
          /\ sent = <<[kind |-> "opened", before |-> h, head |-> h, time |-> 1]>>
          /\ pr = [head |-> h, open |-> FALSE, time |-> 0]
    BY DEF Init
  <1>2. [kind |-> "opened", before |-> h, head |-> h, time |-> 1] \in Delivery
    BY DEF Delivery, Kinds
  <1>3. sent \in Seq(Delivery)
    BY <1>1, <1>2
  <1>4. runs = <<>> /\ runs \in Seq([head : Heads, by : Nat]) /\ DOMAIN runs = {}
    BY DEF Init
  <1>5. TypeOK
    BY <1>1, <1>3, <1>4 DEF TypeOK, Init
  <1>6. OpenWins
    BY <1>1 DEF Init, OpenWins, Events
  <1>7. EachDeliveryOnce /\ RowsOK
    BY <1>4 DEF Init, EachDeliveryOnce, RowsOK
  <1> QED
    BY <1>5, <1>6, <1>7 DEF IInv

\* An event on GitHub only adds a delivery that nobody has received.
LEMMA EventIInv ==
  ASSUME IInv, NEW kind \in Kinds, NEW h \in Heads, NEW t \in 1 .. MaxTime,
         Event(kind, h, t),
         github' \in [head : Heads, open : BOOLEAN, time : 1 .. MaxTime]
  PROVE  IInv'
  <1> DEFINE e == [kind |-> kind, before |-> github.head, head |-> h, time |-> t]
  <1> USE DEF IInv, TypeOK
  <1>1. e \in Delivery /\ sent' = Append(sent, e)
    BY DEF Event, Delivery
  <1>2. /\ sent' \in Seq(Delivery) /\ Deliveries \subseteq Deliveries'
        /\ \A d \in Deliveries : sent'[d] = sent[d]
    BY <1>1, Appended DEF Deliveries
  <1>3. UNCHANGED <<received, applied, known, admitted, pr, runs, checks>>
    BY DEF Event
  <1>4. TypeOK'
    BY <1>2, <1>3
  <1>5. Events' = Events /\ \A d \in Events : sent'[d] = sent[d]
    BY <1>2, <1>3 DEF Events
  <1>6. OpenWins'
    BY <1>3, <1>5 DEF OpenWins, Opens
  <1>7. \A g \in DOMAIN runs : sent'[runs[g].by] = sent[runs[g].by]
    BY <1>2 DEF RowsOK
  <1>8. EachDeliveryOnce'
    <2> SUFFICES ASSUME NEW f \in DOMAIN runs, NEW g \in DOMAIN runs, f < g
                 PROVE  /\ runs[f].by # runs[g].by
                        /\ runs[f].head = runs[g].head =>
                             sent'[runs[g].by].kind \in {"reopened", "rerun"}
      BY <1>3 DEF EachDeliveryOnce
    <2>1. /\ runs[f].by # runs[g].by
          /\ runs[f].head = runs[g].head => sent[runs[g].by].kind \in {"reopened", "rerun"}
      <3> HIDE DEF TypeOK
      <3> QED
        BY DEF EachDeliveryOnce
    <2> HIDE DEF IInv, TypeOK
    <2> QED
      BY <1>7, <2>1
  <1>9. RowsOK'
    BY <1>3 DEF RowsOK
  <1> QED
    BY <1>4, <1>6, <1>8, <1>9

\* A run that is added for a delivery not yet received keeps the runs apart, if
\* its head has no run or somebody asked for another one.
LEMMA NewRunKeeps ==
  ASSUME IInv, NEW d \in Deliveries, d \notin received, NEW h \in Heads,
         UNCHANGED <<sent, checks>>, received' = received \cup {d},
         runs' = Append(runs, [head |-> h, by |-> d]),
         \/ sent[d].kind \in {"reopened", "rerun"}
         \/ \A g \in DOMAIN runs : runs[g].head # h
  PROVE  /\ runs' \in Seq([head : Heads, by : Nat])
         /\ \A i \in Heads : checks'[i].gen > 0 =>
              checks'[i].gen \in DOMAIN runs' /\ runs'[checks'[i].gen].head = i
         /\ EachDeliveryOnce' /\ RowsOK'
  <1> DEFINE r == [head |-> h, by |-> d]
  <1> USE DEF IInv, TypeOK
  <1>1. r \in [head : Heads, by : Nat]
    BY DEF Deliveries
  <1>2. /\ runs' \in Seq([head : Heads, by : Nat])
        /\ DOMAIN runs' = 1 .. Len(runs) + 1 /\ DOMAIN runs = 1 .. Len(runs)
        /\ Len(runs) \in Nat
        /\ \A i \in 1 .. Len(runs) : runs'[i] = runs[i]
        /\ runs'[Len(runs) + 1] = r
    BY <1>1, Appended
  <1>3. EachDeliveryOnce'
    <2> SUFFICES ASSUME NEW f \in DOMAIN runs', NEW g \in DOMAIN runs', f < g
                 PROVE  /\ runs'[f].by # runs'[g].by
                        /\ runs'[f].head = runs'[g].head =>
                             sent'[runs'[g].by].kind \in {"reopened", "rerun"}
      BY DEF EachDeliveryOnce
    <2> HIDE DEF TypeOK
    <2>1. EachDeliveryOnce /\ RowsOK
      OBVIOUS
    <2> HIDE DEF IInv
    <2>2. f \in 1 .. Len(runs) + 1 /\ g \in 1 .. Len(runs) + 1
      BY <1>2
    <2>3. f \in DOMAIN runs /\ runs'[f] = runs[f]
      BY <1>2, <2>2
    <2>4. CASE g \in DOMAIN runs
      <3>1. runs'[g] = runs[g]
        BY <1>2, <2>4
      <3> QED
        BY <2>1, <2>3, <2>4, <3>1 DEF EachDeliveryOnce
    <2>5. CASE g = Len(runs) + 1
      <3>1. runs'[g].by = d /\ runs'[g].head = h
        BY <1>2, <2>5
      <3>2. runs[f].by # d
        BY <2>1, <2>3 DEF RowsOK
      <3> QED
        BY <2>3, <3>1, <3>2
    <2> QED
      BY <1>2, <2>2, <2>4, <2>5
  <1>4. RowsOK'
    <2> HIDE DEF TypeOK
    <2>1. RowsOK
      OBVIOUS
    <2> HIDE DEF IInv
    <2>2. \A g \in DOMAIN runs' : runs'[g].by \in received'
      BY <1>2, <2>1 DEF RowsOK
    <2> QED
      BY <2>1, <2>2 DEF RowsOK
  <1>5. ASSUME NEW i \in Heads, checks'[i].gen > 0
        PROVE  checks'[i].gen \in DOMAIN runs' /\ runs'[checks'[i].gen].head = i
    <2>1. checks[i].gen \in DOMAIN runs /\ runs[checks[i].gen].head = i
      BY <1>5
    <2> HIDE DEF IInv, TypeOK
    <2> QED
      BY <1>2, <2>1
  <1> HIDE DEF IInv, TypeOK
  <1> QED
    BY <1>2, <1>3, <1>4, <1>5

\* A delivery about the pull request.
LEMMA ReceivePullRequestIInv ==
  ASSUME IInv, NEW d \in Deliveries, ReceivePullRequest(d)
  PROVE  IInv'
  <1> USE DEF IInv, TypeOK
  <1>1. /\ d \notin received /\ received' = received \cup {d} /\ sent[d].kind # "rerun"
        /\ UNCHANGED <<github, sent, known, admitted, checks>>
    BY DEF ReceivePullRequest
  <1>2. sent[d] \in Delivery /\ Deliveries' = Deliveries
    BY <1>1, ElementOfSeq DEF Deliveries
  <1>3. CASE ~known
    <2>1. UNCHANGED <<applied, pr, runs>>
      BY <1>3 DEF ReceivePullRequest
    <2>2. TypeOK'
      BY <1>1, <1>2, <2>1
    <2>3. OpenWins' /\ EachDeliveryOnce' /\ RowsOK'
      BY <1>1, <2>1 DEF OpenWins, Events, Opens, EachDeliveryOnce, RowsOK
    <2> QED
      BY <2>2, <2>3
  <1>4. CASE known
    <2>1. PICK h \in Heads : ApplyDelivery(d, h)
      BY <1>4 DEF ReceivePullRequest
    <2>2. applied' = applied \cup {d}
      BY <1>4 DEF ReceivePullRequest
    <2>3. Events' = Events \cup {d} /\ \A i \in Events' : sent'[i] = sent[i]
      BY <1>1, <2>2 DEF Events
    <2>4. \A i \in Events : sent[i].time <= pr.time
      BY DEF OpenWins
    <2>5. sent[d].time \in 1 .. MaxTime /\ pr.time \in 0 .. MaxTime /\ pr.open \in BOOLEAN
          /\ Opens(sent[d]) \in BOOLEAN
      BY <1>2 DEF Delivery, Opens
    <2>5a. \A i \in Events : sent[i].time \in 1 .. MaxTime
      BY Elements DEF Events
    <2>5b. pr \in [head : Heads, open : BOOLEAN, time : 0 .. MaxTime]
      OBVIOUS
    <2>6. pr' \in [head : Heads, open : BOOLEAN, time : 0 .. MaxTime] /\ OpenWins'
      <3>1. CASE Current(sent[d], h)
        <4>1. pr' = [head |-> h, open |-> Opens(sent[d]), time |-> sent[d].time]
          BY <3>1, <2>1 DEF ApplyDelivery
        <4>2. pr.time <= sent[d].time
          BY <3>1, <2>5 DEF Current
        <4>3. pr.time = sent[d].time => Opens(sent[d])
          BY <3>1, <2>5 DEF Current, Opens
        <4>4. \A i \in Events' : sent[i].time <= pr'.time
          BY <4>1, <4>2, <2>3, <2>4, <2>5, <2>5a
        <4>5. \E i \in Events' : sent[i].time = pr'.time
          BY <4>1, <2>3
        <4>6. pr'.open <=> \E i \in Events' : sent[i].time = pr'.time /\ Opens(sent[i])
          <5>1. CASE Opens(sent[d])
            BY <5>1, <4>1, <2>3
          <5>2. CASE ~Opens(sent[d])
            <6>1. pr.time < sent[d].time
              BY <5>2, <4>2, <4>3, <2>5
            <6>2. \A i \in Events : sent[i].time # sent[d].time
              BY <6>1, <2>4, <2>5, <2>5a
            <6> QED
              BY <5>2, <6>2, <4>1, <2>3
          <5> QED
            BY <5>1, <5>2
        <4>7. pr' \in [head : Heads, open : BOOLEAN, time : 0 .. MaxTime]
          BY <4>1, <2>5
        <4> HIDE DEF IInv, TypeOK
        <4>8. UNCHANGED sent
          BY <1>1
        <4>9. OpenWins'
          BY <4>4, <4>5, <4>6, <4>8 DEF OpenWins, Opens
        <4> QED
          BY <4>7, <4>9
      <3>2. CASE ~Current(sent[d], h)
        <4>1. pr' = pr
          BY <3>2, <2>1 DEF ApplyDelivery
        <4>2. sent[d].time <= pr.time
          BY <3>2, <2>5 DEF Current
        <4>3. sent[d].time = pr.time /\ Opens(sent[d]) => pr.open
          BY <3>2 DEF Current
        <4>4. \A i \in Events' : sent[i].time <= pr'.time
          BY <4>1, <4>2, <2>3, <2>4
        <4>5. pr.time > 0
          BY <4>2, <2>5
        <4>6. pr'.open <=> \E i \in Events' : sent[i].time = pr'.time /\ Opens(sent[i])
          BY <4>1, <4>3, <4>5, <2>3 DEF OpenWins
        <4>7. \E i \in Events' : sent[i].time = pr'.time
          BY <4>1, <4>5, <2>3 DEF OpenWins
        <4> HIDE DEF IInv, TypeOK
        <4>8. UNCHANGED sent
          BY <1>1
        <4>9. OpenWins'
          BY <4>4, <4>6, <4>7, <4>8 DEF OpenWins, Opens
        <4> QED
          BY <4>1, <4>9, <2>5b
      <3> QED
        BY <3>1, <3>2
    <2>7. \/ UNCHANGED runs
          \/ /\ runs' = Append(runs, [head |-> h, by |-> d])
             /\ sent[d].kind = "reopened" \/ \A g \in DOMAIN runs : runs[g].head # h
      BY <2>1 DEF ApplyDelivery, CreateRun
    <2>8. /\ runs' \in Seq([head : Heads, by : Nat])
          /\ \A i \in Heads : checks'[i].gen > 0 =>
               checks'[i].gen \in DOMAIN runs' /\ runs'[checks'[i].gen].head = i
          /\ EachDeliveryOnce' /\ RowsOK'
      <3>1. CASE UNCHANGED runs
        BY <3>1, <1>1 DEF EachDeliveryOnce, RowsOK
      <3>2. CASE ~UNCHANGED runs
        BY <3>2, <2>7, <1>1, NewRunKeeps
      <3> QED
        BY <3>1, <3>2
    <2>9. TypeOK'
      BY <1>1, <1>2, <2>2, <2>6, <2>8
    <2> QED
      BY <2>6, <2>8, <2>9
  <1> QED
    BY <1>3, <1>4

\* A request to run the review of a check again.
LEMMA ReceiveRerunIInv ==
  ASSUME IInv, NEW d \in Deliveries, ReceiveRerun(d)
  PROVE  IInv'
  <1> USE DEF IInv, TypeOK
  <1>1. /\ d \notin received /\ received' = received \cup {d} /\ applied' = applied \cup {d}
        /\ sent[d].kind = "rerun"
        /\ UNCHANGED <<github, sent, known, admitted, pr, checks>>
    BY DEF ReceiveRerun
  <1>2. sent[d].head \in Heads /\ Deliveries' = Deliveries
    BY <1>1, Elements DEF Deliveries
  <1>3. Events' = Events /\ \A i \in Events' : sent'[i] = sent[i]
    BY <1>1 DEF Events
  <1>4. OpenWins'
    BY <1>1, <1>3 DEF OpenWins, Opens
  <1>5. UNCHANGED runs \/ runs' = Append(runs, [head |-> sent[d].head, by |-> d])
    BY DEF ReceiveRerun
  <1>6. /\ runs' \in Seq([head : Heads, by : Nat])
        /\ \A i \in Heads : checks'[i].gen > 0 =>
             checks'[i].gen \in DOMAIN runs' /\ runs'[checks'[i].gen].head = i
        /\ EachDeliveryOnce' /\ RowsOK'
    <2>1. CASE UNCHANGED runs
      BY <2>1, <1>1 DEF EachDeliveryOnce, RowsOK
    <2>2. CASE ~UNCHANGED runs
      BY <2>2, <1>1, <1>2, <1>5, NewRunKeeps
    <2> QED
      BY <2>1, <2>2
  <1>7. TypeOK'
    BY <1>1, <1>2, <1>6
  <1> QED
    BY <1>4, <1>6, <1>7

\* The worker's check of a run.
LEMMA PublishCheckIInv ==
  ASSUME IInv, NEW g \in DOMAIN runs, PublishCheck(g)
  PROVE  IInv'
  <1> USE DEF IInv, TypeOK
  <1>1. UNCHANGED <<github, sent, received, applied, known, admitted, pr, runs>>
    BY DEF PublishCheck
  <1>2. g \in Nat \ {0} /\ runs[g].head \in Heads
    BY Elements
  <1>3. /\ checks' \in [Heads -> [gen : Nat, completed : BOOLEAN]]
        /\ \A h \in Heads : checks'[h].gen > 0 =>
             checks'[h].gen \in DOMAIN runs' /\ runs'[checks'[h].gen].head = h
        /\ \A h \in Heads : checks'[h].completed => checks'[h].gen > 0
    <2> DEFINE h == runs[g].head
    <2>1. CASE checks' = [checks EXCEPT ![h] = [gen |-> g, completed |-> FALSE]]
      BY <2>1, <1>1, <1>2 DEF RowsOK
    <2>2. CASE checks[h].gen = g /\ checks' = [checks EXCEPT ![h].completed = TRUE]
      <3>1. \A i \in Heads : /\ checks'[i].gen = checks[i].gen
                             /\ checks'[i].completed = IF i = h THEN TRUE ELSE checks[i].completed
        BY <2>2, <1>2
      <3>2. checks' \in [Heads -> [gen : Nat, completed : BOOLEAN]]
        BY <2>2, <1>2
      <3> QED
        BY <2>2, <3>1, <3>2, <1>1, <1>2 DEF RowsOK
    <2> QED
      BY <2>1, <2>2 DEF PublishCheck
  <1>4. TypeOK' /\ RowsOK'
    BY <1>1, <1>3 DEF RowsOK, Deliveries
  <1>5. OpenWins' /\ EachDeliveryOnce'
    BY <1>1 DEF OpenWins, Events, Opens, EachDeliveryOnce
  <1> QED
    BY <1>4, <1>5

\* Every step preserves the invariant.
LEMMA NextIInv == IInv /\ [Next]_vars => IInv'
  <1> SUFFICES ASSUME IInv, [Next]_vars PROVE IInv'
    OBVIOUS
  <1>1. CASE GitHub
    <2>1. Times \subseteq 1 .. MaxTime /\ github \in [head : Heads, open : BOOLEAN, time : 1 .. MaxTime]
      BY DEF Times, IInv, TypeOK
    <2>2. ASSUME NEW h \in Heads, NEW t \in Times, Push(h, t) PROVE IInv'
      BY <2>1, <2>2, EventIInv DEF Push, Kinds
    <2>3. ASSUME NEW h \in Heads, NEW t \in Times, Reopen(h, t) PROVE IInv'
      BY <2>1, <2>3, EventIInv DEF Reopen, Kinds
    <2>4. ASSUME NEW t \in Times, Close(t) PROVE IInv'
      BY <2>1, <2>4, EventIInv DEF Close, Kinds
    <2>5. ASSUME NEW h \in Heads, RequestRerun(h) PROVE IInv'
      BY <2>1, <2>5, EventIInv DEF RequestRerun, Kinds
    <2> QED
      BY <1>1, <2>2, <2>3, <2>4, <2>5 DEF GitHub
  <1>2. CASE Intake
    BY <1>2, ReceivePullRequestIInv, ReceiveRerunIInv DEF Intake
  <1>3. CASE Environment
    <2>1. ASSUME NEW g \in DOMAIN runs, PublishCheck(g) PROVE IInv'
      BY <2>1, PublishCheckIInv
    <2>2. CASE AddRepository \/ ChangePolicy
      <3>1. UNCHANGED <<github, sent, received, applied, pr, runs, checks>>
            /\ {known', admitted'} \subseteq BOOLEAN
        BY <2>2 DEF AddRepository, ChangePolicy, IInv, TypeOK
      <3> QED
        BY <3>1 DEF IInv, TypeOK, OpenWins, Events, Opens, EachDeliveryOnce, RowsOK, Deliveries
    <2> QED
      BY <1>3, <2>1, <2>2 DEF Environment
  <1>4. CASE UNCHANGED vars
    BY <1>4 DEF vars, IInv, TypeOK, OpenWins, Events, Opens, EachDeliveryOnce, RowsOK, Deliveries
  <1> QED
    BY <1>1, <1>2, <1>3, <1>4 DEF Next

-----------------------------------------------------------------------------
(* Theorems *)

\* The invariant holds in every reachable state.
THEOREM InductiveInvariant == Spec => []IInv
  BY InitIInv, NextIInv, PTL DEF Spec

\* The rows keep their shape, and checks name runs of their head.
THEOREM TypeCorrect == Spec => []TypeOK
  <1>1. IInv => TypeOK
    BY DEF IInv
  <1> QED
    BY <1>1, InductiveInvariant, PTL

\* Time and state of the row do not depend on the order of the deliveries.
THEOREM OrderDoesNotMatter == Spec => []OpenWins
  <1>1. IInv => OpenWins
    BY DEF IInv
  <1> QED
    BY <1>1, InductiveInvariant, PTL

\* A delivery asks for one run at most, and a second review of a head is asked for.
THEOREM DeliveredOnce == Spec => []EachDeliveryOnce
  <1>1. IInv => EachDeliveryOnce
    BY DEF IInv
  <1> QED
    BY <1>1, InductiveInvariant, PTL

\* A new run reviews the head in the row, and a rerun repeats the newest run.
THEOREM NewRunsFollowHead == Spec => RunsFollowHead
  <1> DEFINE Follows ==
        runs' # runs =>
          LET g == Len(runs') IN
          /\ pr'.open /\ runs'[g].head = pr'.head
          /\ sent[runs'[g].by].kind = "rerun" => runs[g - 1].head = pr.head
  <1>1. ASSUME IInv, [Next]_vars PROVE Follows
    <2> SUFFICES ASSUME runs' # runs PROVE Follows
      OBVIOUS
    <2> USE DEF IInv, TypeOK
    <2>1. PICK d \in Deliveries : ReceivePullRequest(d) \/ ReceiveRerun(d)
      BY <1>1 DEF Next, GitHub, Push, Close, Reopen, RequestRerun, Event, Intake, Environment,
                  AddRepository, ChangePolicy, PublishCheck, vars
    <2>2. d \in Nat /\ sent[d].head \in Heads
      BY <1>1, Elements
    <2>3. CASE ReceivePullRequest(d)
      <3>1. known
        BY <2>3 DEF ReceivePullRequest
      <3>2. PICK h \in Heads : ApplyDelivery(d, h)
        BY <2>3, <3>1 DEF ReceivePullRequest
      <3>3. /\ runs' = Append(runs, [head |-> h, by |-> d])
            /\ pr' = [head |-> h, open |-> Opens(sent[d]), time |-> sent[d].time]
            /\ Opens(sent[d]) /\ sent[d].kind # "rerun"
        BY <2>3, <3>2 DEF ApplyDelivery, CreateRun, ReceivePullRequest
      <3>4. runs'[Len(runs')] = [head |-> h, by |-> d]
        BY <1>1, <2>2, <3>3, Appended
      <3> QED
        BY <3>3, <3>4
    <2>4. CASE ReceiveRerun(d)
      <3>1. /\ runs' = Append(runs, [head |-> sent[d].head, by |-> d])
            /\ Rerunnable(sent[d].head) /\ UNCHANGED pr
        BY <2>4 DEF ReceiveRerun
      <3>2. Len(runs') = Len(runs) + 1 /\ runs'[Len(runs')] = [head |-> sent[d].head, by |-> d]
            /\ Len(runs) \in Nat
        BY <1>1, <2>2, <3>1, Appended
      <3>3. checks[sent[d].head].gen = Len(runs) /\ checks[sent[d].head].gen > 0
        BY <1>1, <2>2, <3>1 DEF Rerunnable, RowsOK
      <3>4. runs[Len(runs)].head = sent[d].head
        BY <1>1, <2>2, <3>3
      <3> QED
        BY <3>1, <3>2, <3>4 DEF Rerunnable
    <2> QED
      BY <2>1, <2>3, <2>4
  <1>2. IInv /\ [Next]_vars => [Follows]_vars
    BY <1>1
  <1> QED
    BY <1>2, InductiveInvariant, PTL DEF Spec, RunsFollowHead

-----------------------------------------------------------------------------
(* The head the pushes of one second lead to *)

\* A set of numbers has a smallest element: the sets 1 .. k, ordered by inclusion,
\* are well-founded.
LEMMA SmallestOf ==
  ASSUME NEW T, T \subseteq Nat, T # {}
  PROVE  \E m \in T : \A k \in T : m <= k
  <1> DEFINE R == StrictSubsetOrdering(Nat)
             F == {1 .. k : k \in T}
  <1>1. F \subseteq FiniteSubsetsOf(Nat) /\ F # {}
    <2>1. ASSUME NEW k \in T PROVE 1 .. k \subseteq Nat /\ IsFiniteSet(1 .. k)
      BY FS_Interval
    <2> QED
      BY <2>1 DEF FiniteSubsetsOf
  <1>2. IsWellFoundedOn(R, FiniteSubsetsOf(Nat))
    BY FS_StrictSubsetOrderingWellFounded
  <1>3. \E x \in F : \A y \in F : ~(<<y, x>> \in R)
    <2> HIDE DEF R, F
    <2> QED
      BY <1>1, <1>2, WFMin
  <1>4. PICK m \in T : \A y \in F : ~(<<y, 1 .. m>> \in R)
    BY <1>3
  <1>5. ASSUME NEW k \in T, k < m PROVE FALSE
    <2>1. 1 .. k \in F /\ 1 .. k \subseteq 1 .. m /\ m \in 1 .. m /\ m \notin 1 .. k
      BY <1>5
    <2>2. 1 .. k \in SUBSET Nat /\ 1 .. m \in SUBSET Nat /\ 1 .. k # 1 .. m
      BY <2>1
    <2>3. <<1 .. k, 1 .. m>> \in R
      <3> HIDE DEF F
      <3> QED
        BY <2>1, <2>2 DEF StrictSubsetOrdering
    <2> QED
      BY <1>4, <2>1, <2>3
  <1> QED
    BY <1>5

LEMMA LargestOf ==
  ASSUME NEW n \in Nat, NEW T, T \subseteq 0 .. n, T # {}
  PROVE  \E m \in T : \A k \in T : k <= m
  <1> DEFINE U == {n - k : k \in T}
  <1>1. U \subseteq Nat /\ U # {}
    OBVIOUS
  <1>2. PICK u \in U : \A v \in U : u <= v
    <2> HIDE DEF U
    <2> QED
      BY <1>1, SmallestOf
  <1>3. PICK m \in T : u = n - m
    OBVIOUS
  <1>4. ASSUME NEW k \in T PROVE k <= m
    <2>1. n - k \in U
      OBVIOUS
    <2>2. n - m <= n - k
      BY <1>2, <1>3, <2>1
    <2> QED
      BY <2>2
  <1> QED
    BY <1>4

\* A chain is a sequence.
LEMMA ChainIsSeq ==
  ASSUME NEW n \in Nat, NEW c \in [1 .. n -> Heads]
  PROVE  Len(c) = n /\ DOMAIN c = 1 .. n /\ c \in Seq(Heads)
  <1>1. c \in Seq(Heads)
    BY SeqDef
  <1> QED
    BY <1>1, LenProperties

\* The pushes L lead to head g: no push returns to a head before it, and each is gone
\* on from, except one that gives g.
LeadTo(L, g) ==
  /\ L \subseteq Nat /\ IsFiniteSet(L)
  /\ \A i \in L : /\ sent[i].before \in Heads /\ sent[i].head \in Heads
                  /\ sent[i].before # sent[i].head
  /\ \A i, j \in L : i < j => sent[j].head \notin {sent[i].before, sent[i].head}
  /\ \A i \in L : sent[i].head = g \/ \E j \in L : sent[j].before = sent[i].head

\* A longest chain of pushes that lead to g ends at g.
LEMMA ChainEndsAtHead ==
  ASSUME NEW d \in Deliveries, NEW g, d \in Links(d), LeadTo(Links(d), g),
         NEW c \in Chains(d),
         \A o \in Chains(d) : Len(o) <= Len(c)
  PROVE  c[Len(c)] = g
  <1> DEFINE L == Links(d)
  <1>0. /\ L \subseteq Nat /\ IsFiniteSet(L) /\ d \in L
        /\ \A i \in L : /\ sent[i].before \in Heads /\ sent[i].head \in Heads
                        /\ sent[i].before # sent[i].head
        /\ \A i, j \in L : i < j => sent[j].head \notin {sent[i].before, sent[i].head}
        /\ \A i \in L : sent[i].head = g \/ \E j \in L : sent[j].before = sent[i].head
    BY DEF LeadTo
  <1>1. PICK n \in 1 .. Cardinality(L) + 1 : c \in [1 .. n -> Heads]
    BY DEF Chains
  <1>2. Cardinality(L) \in Nat /\ n \in Nat /\ n >= 1
    BY <1>0, FS_CardinalityType
  <1>3. Len(c) = n /\ DOMAIN c = 1 .. n
    BY <1>1, <1>2, ChainIsSeq
  <1>4. /\ c[1] = sent[d].head
        /\ \A i, j \in 1 .. n : c[i] = c[j] => i = j
        /\ \A i \in 1 .. n - 1 : \E l \in L : sent[l].before = c[i] /\ sent[l].head = c[i + 1]
    BY <1>3 DEF Chains
  <1>5. \A j \in 1 .. n : \E l \in L : sent[l].head = c[j]
    <2> SUFFICES ASSUME NEW j \in 1 .. n PROVE \E l \in L : sent[l].head = c[j]
      OBVIOUS
    <2>1. CASE j = 1
      BY <1>0, <1>4, <2>1
    <2>2. CASE j # 1
      <3>1. PICK i \in 1 .. n - 1 : i + 1 = j
        <4>1. j - 1 \in 1 .. n - 1 /\ (j - 1) + 1 = j
          BY <1>2, <2>2
        <4> QED
          BY <4>1
      <3>2. \E l \in L : sent[l].before = c[i] /\ sent[l].head = c[i + 1]
        BY <1>4
      <3> QED
        BY <3>1, <3>2
    <2> QED
      BY <2>1, <2>2
  <1> DEFINE r == [j \in 1 .. n |-> CHOOSE l \in L : sent[l].head = c[j]]
  <1>6. \A j \in 1 .. n : r[j] \in L /\ sent[r[j]].head = c[j]
    BY <1>5
  <1> HIDE DEF r
  \* No two pushes have the same head, and each goes on from one before it.
  <1>7. \A i, j \in L : sent[i].head = sent[j].head => i = j
    BY <1>0
  <1>8. \A i, j \in L : sent[j].before = sent[i].head => i < j
    BY <1>0
  <1>9. \A j \in 1 .. n - 1 : r[j] < r[j + 1]
    <2> SUFFICES ASSUME NEW j \in 1 .. n - 1 PROVE r[j] < r[j + 1]
      OBVIOUS
    <2>1. j \in 1 .. n /\ j + 1 \in 1 .. n
      BY <1>2
    <2>2. PICK l \in L : sent[l].before = c[j] /\ sent[l].head = c[j + 1]
      BY <1>4
    <2>3. r[j] \in L /\ sent[r[j]].head = c[j] /\ r[j + 1] \in L /\ sent[r[j + 1]].head = c[j + 1]
      BY <1>6, <2>1
    <2>4. r[j + 1] = l
      BY <1>7, <2>2, <2>3
    <2>5. r[j] < l
      BY <1>8, <2>2, <2>3
    <2> QED
      BY <2>4, <2>5
  <1> SUFFICES ASSUME c[n] # g PROVE FALSE
    BY <1>3
  <1>10. PICK l \in L : sent[l].before = c[n]
    BY <1>0, <1>2, <1>6
  <1>11. r[n] < l
    BY <1>0, <1>2, <1>6, <1>8, <1>10
  <1>12. ASSUME NEW m \in 1 .. n, c[m] = sent[l].head PROVE FALSE
    <2> DEFINE T == {j \in 1 .. n : r[j] >= l}
    <2>1. r[m] = l
      BY <1>0, <1>6, <1>7, <1>12
    <2>2. T \subseteq 0 .. n /\ m \in T
      BY <1>0, <1>2, <2>1
    <2>3. PICK k \in T : \A j \in T : j <= k
      <3> HIDE DEF T
      <3> QED
        BY <1>2, <2>2, LargestOf
    <2>4. k # n
      BY <1>0, <1>6, <1>11, <1>2
    <2>5. k \in 1 .. n - 1 /\ k + 1 \in 1 .. n
      BY <1>2, <2>4
    <2>6. r[k + 1] >= l
      BY <1>0, <1>6, <1>9, <2>5
    <2>7. k + 1 \in T
      BY <2>5, <2>6
    <2> QED
      BY <2>3, <2>5, <2>7
  <1>13. n <= Cardinality(L)
    <2>1. r \in [1 .. n -> L]
      BY <1>6 DEF r
    <2>2. ASSUME NEW i \in 1 .. n, NEW j \in 1 .. n, r[i] = r[j] PROVE i = j
      <3>1. sent[r[i]].head = c[i] /\ sent[r[j]].head = c[j]
        BY <1>6
      <3>2. c[i] = c[j]
        BY <2>2, <3>1
      <3> QED
        BY <1>4, <3>2
    <2>3. r \in Injection(1 .. n, L)
      BY <2>1, <2>2 DEF Injection, IsInjective
    <2>4. Cardinality(1 .. n) <= Cardinality(L)
      BY <1>0, <2>3, FS_Injection
    <2>5. Cardinality(1 .. n) = n
      <3>1. 1 \in Int /\ n \in Int /\ ~(1 > n) /\ n - 1 + 1 = n
        BY <1>2
      <3>2. Cardinality(1 .. n) = IF 1 > n THEN 0 ELSE n - 1 + 1
        BY <3>1, FS_Interval
      <3> QED
        BY <3>1, <3>2
    <2> QED
      BY <2>4, <2>5
  <1> DEFINE o == [j \in 1 .. n + 1 |-> IF j = n + 1 THEN sent[l].head ELSE c[j]]
  <1>14. o \in [1 .. n + 1 -> Heads] /\ n + 1 \in 1 .. Cardinality(L) + 1 /\ n + 1 \in Nat
    BY <1>0, <1>1, <1>2, <1>13
  <1>15. Len(o) = n + 1 /\ DOMAIN o = 1 .. n + 1
    <2> HIDE DEF o
    <2> QED
      BY <1>14, ChainIsSeq
  <1>16. o[1] = sent[d].head
    BY <1>2, <1>4
  <1>17. ASSUME NEW i \in 1 .. n + 1, NEW j \in 1 .. n + 1, o[i] = o[j] PROVE i = j
    BY <1>2, <1>4, <1>12, <1>17
  <1>18. ASSUME NEW i \in 1 .. n
         PROVE  \E k \in L : sent[k].before = o[i] /\ sent[k].head = o[i + 1]
    <2>1. CASE i = n
      BY <1>2, <1>10, <2>1
    <2>2. CASE i # n
      <3>1. i \in 1 .. n - 1 /\ o[i] = c[i] /\ o[i + 1] = c[i + 1]
        BY <1>2, <2>2
      <3> QED
        BY <1>4, <3>1
    <2> QED
      BY <2>1, <2>2
  <1> HIDE DEF o
  <1>19. o \in UNION {[1 .. m -> Heads] : m \in 1 .. Cardinality(Links(d)) + 1}
    BY <1>14
  <1>20. o \in Chains(d)
    <2>1. \A i \in 1 .. Len(o) - 1 : i \in 1 .. n
      BY <1>2, <1>15
    <2> QED
      BY <1>15, <1>16, <1>17, <1>18, <1>19, <2>1 DEF Chains
  <1>21. Len(o) <= n
    BY <1>3, <1>20
  <1> QED
    BY <1>2, <1>15, <1>21

-----------------------------------------------------------------------------
(* The row converges to GitHub's head *)

\* The pushes of the last second.
Pushes == {d \in LastSecond : sent[d].kind = "synchronize"}

\* The last second has an event, and nothing was sent after it.  Unless the pull
\* request was reopened in it, its pushes lead to GitHub's head; without a push the
\* head is the one its events carry.
SecondOK ==
  /\ LastSecond # {}
  /\ \A d \in Deliveries : sent[d].time <= github.time
  /\ \A d \in Pushes : sent[d].before # sent[d].head
  /\ (\A d \in LastSecond : sent[d].kind # "reopened") =>
       /\ \A d \in Pushes : \/ sent[d].head = github.head
                            \/ \E f \in Pushes : sent[f].before = sent[d].head
       /\ Pushes = {} => \A d \in LastSecond : sent[d].head = github.head

\* The row has GitHub's head once it has all pushes of the last second, or, in a
\* second without one, anything of it.
HeadOK ==
  Unambiguous =>
    /\ Pushes # {} /\ Pushes \subseteq applied =>
         pr.time = github.time /\ pr.open /\ pr.head = github.head
    /\ Pushes = {} /\ pr.time = github.time => pr.head = github.head

HeadInv == IInv /\ SecondOK /\ HeadOK

\* What the proofs below use of the shape of the state.
LEMMA HeadShape ==
  ASSUME IInv
  PROVE  /\ github.time \in 1 .. MaxTime /\ github.head \in Heads /\ pr.time \in 0 .. MaxTime
         /\ applied \subseteq received /\ received \subseteq Deliveries
         /\ Deliveries = 1 .. Len(sent) /\ Len(sent) \in Nat /\ MaxTime \in Nat
         /\ sent \in Seq(Delivery)
         /\ \A d \in Deliveries : /\ d \in Nat /\ sent[d] \in Delivery
                                  /\ sent[d].before \in Heads /\ sent[d].head \in Heads
                                  /\ sent[d].time \in 1 .. MaxTime
  <1>1. /\ github.time \in 1 .. MaxTime /\ github.head \in Heads /\ pr.time \in 0 .. MaxTime
        /\ applied \subseteq received /\ received \subseteq Deliveries
        /\ sent \in Seq(Delivery)
    BY DEF IInv, TypeOK
  <1>2. Len(sent) \in Nat /\ MaxTime \in Nat
    BY <1>1, LenProperties, IntakeAssumption
  <1>3. \A d \in Deliveries : d \in Nat /\ sent[d] \in Delivery
    BY Elements DEF IInv
  <1>4. \A e \in Delivery : e.before \in Heads /\ e.head \in Heads /\ e.time \in 1 .. MaxTime
    BY DEF Delivery
  <1> QED
    BY <1>1, <1>2, <1>3, <1>4 DEF Deliveries

\* The row is not ahead of GitHub.
LEMMA RowNotAhead ==
  ASSUME IInv, SecondOK
  PROVE  pr.time <= github.time
  <1>1. CASE pr.time = 0
    BY <1>1, HeadShape
  <1>2. CASE pr.time # 0
    <2>1. pr.time > 0
      BY <1>2, HeadShape
    <2>2. PICK d \in Events : sent[d].time = pr.time
      BY <2>1 DEF IInv, OpenWins
    <2>3. d \in Deliveries
      BY <2>2, HeadShape DEF Events
    <2> QED
      BY <2>2, <2>3 DEF SecondOK
  <1> QED
    BY <1>1, <1>2

\* A push that completes the pushes of the last second resolves to GitHub's head.
LEMMA LastPushResolves ==
  ASSUME IInv, SecondOK, Unambiguous, NEW d \in Pushes, NEW h, Resolves(d, h),
         Pushes \subseteq received \cup {d}
  PROVE  h = github.head
  <1>1. Pushes \subseteq LastSecond /\ LastSecond \subseteq Deliveries
    BY DEF Pushes, LastSecond
  <1>2. Links(d) = Pushes
    BY HeadShape DEF Links, Pushes, LastSecond
  <1>3. Links(d) \subseteq Nat /\ IsFiniteSet(Links(d))
    <2>1. IsFiniteSet(Deliveries)
      <3>1. Deliveries = 1 .. Len(sent) /\ 1 \in Int /\ Len(sent) \in Int
        BY HeadShape
      <3> QED
        BY <3>1, FS_Interval
    <2> QED
      BY <1>1, <1>2, <2>1, HeadShape, FS_Subset
  <1>4. \A i \in Pushes : sent[i].before \in Heads /\ sent[i].head \in Heads
                          /\ sent[i].before # sent[i].head
    BY <1>1, HeadShape DEF SecondOK
  <1>5. ASSUME NEW i \in Pushes, NEW j \in Pushes, i < j
        PROVE  sent[j].head \notin {sent[i].before, sent[i].head}
    <2>1. i \in LastSecond /\ j \in LastSecond /\ sent[j].kind = "synchronize"
      BY DEF Pushes
    <2> QED
      BY <1>5, <2>1 DEF Unambiguous
  <1>6. \A i \in Pushes : \/ sent[i].head = github.head
                          \/ \E j \in Pushes : sent[j].before = sent[i].head
    BY DEF SecondOK, Unambiguous
  <1>7. sent[d].kind = "synchronize"
    BY DEF Pushes
  <1>8. PICK c \in Chains(d) :
          /\ h = c[Len(c)]
          /\ \A o \in Chains(d) : Len(o) < Len(c) \/ (Len(o) = Len(c) /\ o[Len(o)] <= h)
    BY <1>7 DEF Resolves
  <1>9. ASSUME NEW o \in Chains(d) PROVE Len(o) \in Nat
    <2>1. PICK n \in 1 .. Cardinality(Links(d)) + 1 : o \in [1 .. n -> Heads]
      BY DEF Chains
    <2>2. n \in Nat
      BY <1>3, FS_CardinalityType
    <2> QED
      BY <2>1, <2>2, ChainIsSeq
  <1>10. ASSUME NEW o \in Chains(d) PROVE Len(o) <= Len(c)
    <2>1. Len(o) \in Nat /\ Len(c) \in Nat
      BY <1>9
    <2>2. Len(o) < Len(c) \/ Len(o) = Len(c)
      BY <1>8
    <2> QED
      BY <2>1, <2>2
  <1>11. d \in Deliveries /\ sent[d].head \in Heads /\ d \in Links(d)
    BY <1>1, <1>2, <1>4
  <1>12. c[Len(c)] = github.head
    <2>1. LeadTo(Links(d), github.head)
      BY <1>2, <1>3, <1>4, <1>5, <1>6 DEF LeadTo
    <2>2. c \in Chains(d) /\ \A o \in Chains(d) : Len(o) <= Len(c)
      BY <1>8, <1>10
    <2> QED
      BY <1>11, <2>1, <2>2, ChainEndsAtHead
  <1> QED
    BY <1>8, <1>12

\* What a delivery of the last second, received now, leaves in the row.
LEMMA ReceivePullRequestHead ==
  ASSUME HeadInv, NEW d \in Deliveries, ReceivePullRequest(d)
  PROVE  SecondOK' /\ HeadOK'
  <1> DEFINE e == sent[d]
  <1>1. IInv /\ SecondOK /\ HeadOK
    BY DEF HeadInv
  <1>2. /\ d \notin received /\ received' = received \cup {d} /\ sent[d].kind # "rerun"
        /\ UNCHANGED <<github, sent>>
    BY DEF ReceivePullRequest
  <1>3. Deliveries' = Deliveries /\ LastSecond' = LastSecond /\ Pushes' = Pushes
        /\ (Unambiguous' <=> Unambiguous)
    BY <1>2 DEF Deliveries, LastSecond, Pushes, Unambiguous
  <1>4. SecondOK'
    BY <1>1, <1>2, <1>3 DEF SecondOK
  <1>5. CASE ~known
    <2>1. UNCHANGED <<applied, pr>>
      BY <1>5 DEF ReceivePullRequest
    <2>2. HeadOK'
      BY <1>1, <1>2, <1>3, <2>1 DEF HeadOK
    <2> QED
      BY <1>4, <2>2
  <1>6. CASE known
    <2>1. applied' = applied \cup {d}
      BY <1>6 DEF ReceivePullRequest
    <2>2. PICK h \in Heads : Resolves(d, h) /\ ApplyDelivery(d, h)
      BY <1>6 DEF ReceivePullRequest
    <2>3. \/ Current(e, h) /\ pr' = [head |-> h, open |-> Opens(e), time |-> e.time]
          \/ ~Current(e, h) /\ pr' = pr
      BY <2>2 DEF ApplyDelivery
    <2>4. e.time \in 1 .. MaxTime /\ e.time <= github.time /\ pr.time <= github.time
      BY <1>1, HeadShape, RowNotAhead DEF SecondOK
    <2>5. d \notin applied
      BY <1>1, <1>2, HeadShape
    <2>6. e.time = github.time => d \in LastSecond /\ (e.kind = "synchronize" => d \in Pushes)
      BY <1>2 DEF LastSecond, Pushes
    <2>7. ASSUME Unambiguous, Pushes # {}, Pushes \subseteq applied'
          PROVE  pr'.time = github.time /\ pr'.open /\ pr'.head = github.head
      <3>1. CASE d \in Pushes
        <4>1. h = github.head
          <5>1. Pushes \subseteq received \cup {d}
            BY <1>1, <2>1, <2>7, HeadShape
          <5> QED
            BY <1>1, <2>2, <2>7, <3>1, <5>1, LastPushResolves
        <4>2. e.kind = "synchronize" /\ e.time = github.time /\ Opens(e)
          BY <3>1 DEF Pushes, LastSecond, Opens
        <4>3. CASE Current(e, h)
          BY <2>3, <4>1, <4>2, <4>3
        <4>4. CASE ~Current(e, h)
          <5>1. ~(pr.time < e.time)
            BY <4>4 DEF Current
          <5>2. pr.time = e.time
            BY <1>1, <2>4, <4>2, <5>1, HeadShape
          <5>3. pr.open /\ pr.head = h
            BY <4>2, <4>4, <5>2 DEF Current
          <5> QED
            BY <2>3, <4>1, <4>2, <4>4, <5>2, <5>3
        <4> QED
          BY <4>3, <4>4
      <3>2. CASE d \notin Pushes
        <4>1. pr.time = github.time /\ pr.open /\ pr.head = github.head
          BY <1>1, <2>1, <2>7, <3>2 DEF HeadOK
        <4>2. e.time = github.time => e.kind # "synchronize"
          BY <2>6, <3>2
        <4>3. ~Current(e, h)
          <5>1. ~(pr.time < e.time)
            BY <1>1, <2>4, <4>1, HeadShape
          <5>2. pr.time = e.time => e.kind # "synchronize"
            BY <4>1, <4>2
          <5> QED
            BY <4>1, <5>1, <5>2 DEF Current
        <4> QED
          BY <2>3, <4>1, <4>3
      <3> QED
        BY <3>1, <3>2
    <2>8. ASSUME Unambiguous, Pushes = {}, pr'.time = github.time
          PROVE  pr'.head = github.head
      <3>1. CASE Current(e, h)
        <4>1. pr'.head = h /\ e.time = github.time
          BY <2>3, <2>8, <3>1
        <4>2. d \in LastSecond /\ e.kind # "synchronize"
          BY <2>6, <2>8, <4>1
        <4>3. e.head = github.head
          BY <1>1, <2>8, <4>2 DEF SecondOK, Unambiguous
        <4>4. h = e.head
          BY <2>2, <4>2 DEF Resolves
        <4> QED
          BY <4>1, <4>3, <4>4
      <3>2. CASE ~Current(e, h)
        <4>1. pr' = pr
          BY <2>3, <3>2
        <4> QED
          BY <1>1, <2>8, <4>1 DEF HeadOK
      <3> QED
        BY <3>1, <3>2
    <2>9. HeadOK'
      BY <1>2, <1>3, <2>7, <2>8 DEF HeadOK
    <2> QED
      BY <1>4, <2>9
  <1> QED
    BY <1>5, <1>6

\* What an event on GitHub leaves of the deliveries sent before it.
LEMMA EventSent ==
  ASSUME IInv, NEW kind \in Kinds, NEW h \in Heads, NEW t \in 1 .. MaxTime, Event(kind, h, t)
  PROVE  LET n == Len(sent) + 1 IN
         /\ Deliveries' = Deliveries \cup {n} /\ n \notin Deliveries /\ n \in Nat
         /\ n \notin applied
         /\ \A d \in Deliveries : sent'[d] = sent[d] /\ d < n
         /\ sent'[n] = [kind |-> kind, before |-> github.head, head |-> h, time |-> t]
         /\ UNCHANGED <<applied, pr>>
  <1> DEFINE e == [kind |-> kind, before |-> github.head, head |-> h, time |-> t]
  <1>1. e \in Delivery
    BY HeadShape DEF Delivery
  <1>2. sent' = Append(sent, e) /\ UNCHANGED <<applied, pr>>
    BY DEF Event
  <1> HIDE DEF e
  <1>3. /\ Len(sent') = Len(sent) + 1 /\ Len(sent) \in Nat
        /\ \A i \in 1 .. Len(sent) : sent'[i] = sent[i]
        /\ sent'[Len(sent) + 1] = e
    <2>1. sent \in Seq(Delivery)
      BY HeadShape
    <2>2. Len(Append(sent, e)) = Len(sent) + 1
      BY <1>1, <2>1, AppendProperties
    <2> QED
      BY <1>1, <1>2, <2>1, <2>2, Appended
  <1>4. Deliveries = 1 .. Len(sent) /\ Deliveries' = 1 .. Len(sent) + 1
    BY <1>3 DEF Deliveries
  <1>5. applied \subseteq Deliveries
    BY HeadShape
  <1> QED
    BY <1>2, <1>3, <1>4, <1>5 DEF e

\* An event of a new second begins a second of its own.
LEMMA NewSecond ==
  ASSUME HeadInv, NEW kind \in Kinds \ {"rerun"}, NEW h \in Heads, NEW t \in 1 .. MaxTime,
         Event(kind, h, t), github'.time = t, github'.head = h, github.time < t,
         kind = "synchronize" => h # github.head
  PROVE  SecondOK' /\ HeadOK'
  <1> DEFINE n == Len(sent) + 1
             e == [kind |-> kind, before |-> github.head, head |-> h, time |-> t]
  <1>1. IInv /\ SecondOK
    BY DEF HeadInv
  <1>2. /\ Deliveries' = Deliveries \cup {n} /\ n \notin Deliveries /\ n \notin applied
        /\ \A d \in Deliveries : sent'[d] = sent[d]
        /\ sent'[n] = e
        /\ UNCHANGED <<applied, pr>>
    BY <1>1, EventSent
  <1> HIDE DEF n
  <1>3. ASSUME NEW d \in Deliveries PROVE sent'[d].time < t
    <2>1. sent[d].time <= github.time /\ sent[d].time \in 1 .. MaxTime /\ github.time \in 1 .. MaxTime
      BY <1>1, HeadShape DEF SecondOK
    <2> QED
      BY <1>2, <2>1
  <1>4. LastSecond' = {n}
    <2>1. \A d \in Deliveries : sent'[d].time # t
      BY <1>3
    <2> QED
      BY <1>2, <2>1 DEF LastSecond
  <1>5. Pushes' = IF kind = "synchronize" THEN {n} ELSE {}
    BY <1>2, <1>4 DEF Pushes
  <1>6. SecondOK'
    <2>1. \A d \in Deliveries' : sent'[d].time <= github'.time
      <3>1. \A d \in Deliveries : sent'[d].time \in 1 .. MaxTime
        BY <1>1, <1>2, HeadShape
      <3>2. sent'[n].time <= t
        BY <1>2
      <3>3. \A d \in Deliveries : sent'[d].time <= t
        BY <1>3, <3>1
      <3> QED
        BY <1>2, <3>2, <3>3
    <2>2. \A d \in Pushes' : sent'[d].before # sent'[d].head /\ sent'[d].head = github'.head
      BY <1>2, <1>5
    <2>3. \A d \in LastSecond' : sent'[d].head = github'.head
      BY <1>2, <1>4
    <2> QED
      BY <1>4, <2>1, <2>2, <2>3 DEF SecondOK
  <1>7. ~(Pushes' # {} /\ Pushes' \subseteq applied')
    BY <1>2, <1>5
  <1>8. pr'.time # github'.time
    <2>1. pr.time <= github.time
      BY <1>1, RowNotAhead
    <2> QED
      BY <1>1, <1>2, <2>1, HeadShape
  <1> QED
    BY <1>6, <1>7, <1>8 DEF HeadOK

\* An event of the same second adds to it.
LEMMA SameSecond ==
  ASSUME HeadInv, NEW kind \in Kinds \ {"rerun"}, NEW h \in Heads,
         Event(kind, h, github.time), github'.time = github.time, github'.head = h,
         kind = "synchronize" => h # github.head,
         kind \notin {"synchronize", "reopened"} => h = github.head
  PROVE  SecondOK' /\ HeadOK'
  <1> DEFINE n == Len(sent) + 1
             t == github.time
             e == [kind |-> kind, before |-> github.head, head |-> h, time |-> t]
  <1>1. IInv /\ SecondOK /\ HeadOK
    BY DEF HeadInv
  <1>2. t \in 1 .. MaxTime
    BY <1>1, HeadShape
  <1>3. /\ Deliveries' = Deliveries \cup {n} /\ n \notin Deliveries /\ n \notin applied
        /\ \A d \in Deliveries : sent'[d] = sent[d] /\ d < n
        /\ sent'[n] = e
        /\ UNCHANGED <<applied, pr>>
    BY <1>1, <1>2, EventSent
  <1> HIDE DEF n
  <1>4. LastSecond' = LastSecond \cup {n} /\ LastSecond \subseteq Deliveries
    BY <1>3 DEF LastSecond
  <1>5. Pushes' = IF kind = "synchronize" THEN Pushes \cup {n} ELSE Pushes
    BY <1>3, <1>4 DEF Pushes
  <1>6. Pushes \subseteq LastSecond
    BY DEF Pushes
  <1>7. \A d \in Deliveries' : sent'[d].time <= github'.time
    BY <1>1, <1>2, <1>3 DEF SecondOK
  <1>8. \A d \in Pushes' : sent'[d].before # sent'[d].head
    BY <1>1, <1>3, <1>4, <1>5, <1>6 DEF SecondOK
  <1>9. ASSUME \A d \in LastSecond' : sent'[d].kind # "reopened"
        PROVE  /\ kind # "reopened"
               /\ \A d \in Pushes : \/ sent[d].head = github.head
                                    \/ \E f \in Pushes : sent[f].before = sent[d].head
               /\ Pushes = {} => \A d \in LastSecond : sent[d].head = github.head
    <2>1. kind # "reopened"
      BY <1>3, <1>4, <1>9
    <2>2. \A d \in LastSecond : sent[d].kind # "reopened"
      BY <1>3, <1>4, <1>9
    <2> QED
      BY <1>1, <2>1, <2>2 DEF SecondOK
  <1>10. ASSUME \A d \in LastSecond' : sent'[d].kind # "reopened", NEW d \in Pushes'
         PROVE  \/ sent'[d].head = github'.head
                \/ \E f \in Pushes' : sent'[f].before = sent'[d].head
    <2>1. CASE d = n
      BY <1>3, <2>1
    <2>2. CASE d # n
      <3>1. d \in Pushes /\ sent'[d] = sent[d]
        BY <1>3, <1>4, <1>5, <1>6, <2>2
      <3>2. CASE sent[d].head = github.head
        <4>1. CASE kind = "synchronize"
          <5>1. n \in Pushes' /\ sent'[n].before = sent'[d].head
            BY <1>3, <1>5, <3>1, <3>2, <4>1
          <5> QED
            BY <5>1
        <4>2. CASE kind # "synchronize"
          BY <1>9, <1>10, <3>1, <3>2, <4>2
        <4> QED
          BY <4>1, <4>2
      <3>3. CASE sent[d].head # github.head
        <4>1. PICK f \in Pushes : sent[f].before = sent[d].head
          BY <1>9, <1>10, <3>1, <3>3
        <4>2. f \in Pushes' /\ sent'[f] = sent[f]
          BY <1>3, <1>4, <1>5, <1>6
        <4> QED
          BY <3>1, <4>1, <4>2
      <3> QED
        BY <3>2, <3>3
    <2> QED
      BY <2>1, <2>2
  <1>11. ASSUME \A d \in LastSecond' : sent'[d].kind # "reopened", Pushes' = {},
                NEW d \in LastSecond'
         PROVE  sent'[d].head = github'.head
    <2>1. kind # "synchronize" /\ Pushes = {}
      BY <1>5, <1>11
    <2>2. h = github.head /\ \A i \in LastSecond : sent[i].head = github.head
      BY <1>9, <1>11, <2>1
    <2> QED
      BY <1>3, <1>4, <2>2
  <1>12. SecondOK'
    BY <1>4, <1>7, <1>8, <1>10, <1>11 DEF SecondOK
  <1>13. ASSUME Unambiguous' PROVE Unambiguous /\ kind # "reopened"
    <2>1. \A d \in LastSecond : sent'[d] = sent[d] /\ d \in LastSecond'
      BY <1>3, <1>4
    <2>2. kind # "reopened"
      BY <1>3, <1>4, <1>13 DEF Unambiguous
    <2>3. \A d \in LastSecond : sent[d].kind # "reopened"
      BY <1>13, <2>1 DEF Unambiguous
    <2>4. ASSUME NEW i \in LastSecond, NEW j \in LastSecond, i < j, sent[j].kind = "synchronize"
          PROVE  sent[j].head \notin {sent[i].before, sent[i].head}
      <3>1. i \in LastSecond' /\ j \in LastSecond' /\ sent'[j].kind = "synchronize"
        BY <2>1, <2>4
      <3>2. sent'[j].head \notin {sent'[i].before, sent'[i].head}
        BY <1>13, <2>4, <3>1 DEF Unambiguous
      <3> QED
        BY <2>1, <3>2
    <2> QED
      BY <2>2, <2>3, <2>4 DEF Unambiguous
  <1>14. CASE kind = "synchronize"
    <2>1. Pushes' # {} /\ ~(Pushes' \subseteq applied')
      BY <1>3, <1>5, <1>14
    <2> QED
      BY <1>12, <2>1 DEF HeadOK
  <1>15. CASE kind # "synchronize"
    <2>1. Pushes' = Pushes /\ UNCHANGED <<applied, pr>> /\ github'.time = github.time
      BY <1>3, <1>5, <1>15
    <2>2. ASSUME Unambiguous' PROVE github'.head = github.head /\ Unambiguous
      BY <1>13, <1>15, <2>2
    <2>3. HeadOK'
      BY <1>1, <2>1, <2>2 DEF HeadOK
    <2> QED
      BY <1>12, <2>3
  <1> QED
    BY <1>14, <1>15

\* The request for a rerun is not one of the events that have a second.
LEMMA RequestRerunHead ==
  ASSUME HeadInv, NEW h \in Heads, RequestRerun(h)
  PROVE  SecondOK' /\ HeadOK'
  <1> DEFINE n == Len(sent) + 1
             e == [kind |-> "rerun", before |-> github.head, head |-> h, time |-> github.time]
  <1>1. IInv /\ SecondOK /\ HeadOK
    BY DEF HeadInv
  <1>2. github.time \in 1 .. MaxTime /\ "rerun" \in Kinds /\ Event("rerun", h, github.time)
        /\ UNCHANGED github
    BY <1>1, HeadShape DEF Kinds, RequestRerun
  <1>3. /\ Deliveries' = Deliveries \cup {n}
        /\ \A d \in Deliveries : sent'[d] = sent[d]
        /\ sent'[n] = e
        /\ UNCHANGED <<applied, pr>>
    BY <1>1, <1>2, EventSent
  <1> HIDE DEF n
  <1>4. LastSecond' = LastSecond /\ LastSecond \subseteq Deliveries
    BY <1>2, <1>3 DEF LastSecond
  <1>5. \A d \in LastSecond : sent'[d] = sent[d]
    BY <1>3, <1>4
  <1>6. Pushes' = Pushes /\ Pushes \subseteq LastSecond
    BY <1>4, <1>5 DEF Pushes
  <1>7. Unambiguous' <=> Unambiguous
    BY <1>4, <1>5 DEF Unambiguous
  <1>8. \A d \in Deliveries' : sent'[d].time <= github'.time
    BY <1>1, <1>2, <1>3 DEF SecondOK
  <1>9. SecondOK'
    BY <1>1, <1>2, <1>4, <1>5, <1>6, <1>8 DEF SecondOK
  <1>10. HeadOK'
    BY <1>1, <1>2, <1>3, <1>6, <1>7 DEF HeadOK
  <1> QED
    BY <1>9, <1>10

\* What the other steps leave alone.
LEMMA NothingSent ==
  ASSUME HeadInv, UNCHANGED <<github, sent, pr>>, Pushes # {} => applied' = applied
  PROVE  SecondOK' /\ HeadOK'
  <1>1. Deliveries' = Deliveries /\ LastSecond' = LastSecond /\ Pushes' = Pushes
        /\ (Unambiguous' <=> Unambiguous)
    BY DEF Deliveries, LastSecond, Pushes, Unambiguous
  <1>2. SecondOK'
    BY <1>1 DEF HeadInv, SecondOK
  <1>3. HeadOK'
    BY <1>1 DEF HeadInv, HeadOK
  <1> QED
    BY <1>2, <1>3

\* A rerun that is received is not one of the pushes.
LEMMA ReceiveRerunHead ==
  ASSUME HeadInv, NEW d \in Deliveries, ReceiveRerun(d)
  PROVE  SecondOK' /\ HeadOK'
  <1>1. sent[d].kind = "rerun" /\ applied' = applied \cup {d} /\ UNCHANGED <<github, sent, pr>>
    BY DEF ReceiveRerun
  <1>2. Deliveries' = Deliveries /\ LastSecond' = LastSecond /\ Pushes' = Pushes
        /\ (Unambiguous' <=> Unambiguous)
    BY <1>1 DEF Deliveries, LastSecond, Pushes, Unambiguous
  <1>3. d \notin Pushes
    BY <1>1 DEF Pushes
  <1>4. Pushes \subseteq applied' <=> Pushes \subseteq applied
    BY <1>1, <1>3
  <1>5. SecondOK'
    BY <1>1, <1>2 DEF HeadInv, SecondOK
  <1>6. HeadOK'
    BY <1>1, <1>2, <1>4 DEF HeadInv, HeadOK
  <1> QED
    BY <1>5, <1>6

LEMMA InitHeadInv == Init => HeadInv
  <1> SUFFICES ASSUME Init PROVE SecondOK /\ HeadOK
    BY InitIInv DEF HeadInv
  <1>1. PICK h \in Heads :
          /\ github = [head |-> h, open |-> TRUE, time |-> 1]
          /\ sent = <<[kind |-> "opened", before |-> h, head |-> h, time |-> 1]>>
          /\ pr = [head |-> h, open |-> FALSE, time |-> 0]
    BY DEF Init
  <1>2. Len(sent) = 1 /\ sent[1] = [kind |-> "opened", before |-> h, head |-> h, time |-> 1]
    BY <1>1
  <1>3. Deliveries = {1} /\ LastSecond = {1} /\ Pushes = {}
    BY <1>1, <1>2 DEF Deliveries, LastSecond, Pushes
  <1>4. SecondOK
    BY <1>1, <1>2, <1>3 DEF SecondOK
  <1>5. HeadOK
    BY <1>1, <1>3 DEF HeadOK
  <1> QED
    BY <1>4, <1>5

LEMMA NextHeadInv == HeadInv /\ [Next]_vars => HeadInv'
  <1> SUFFICES ASSUME HeadInv, [Next]_vars PROVE SecondOK' /\ HeadOK'
    BY NextIInv DEF HeadInv
  <1>1. github.time \in 1 .. MaxTime /\ github.head \in Heads /\ MaxTime \in Nat
        /\ github \in [head : Heads, open : BOOLEAN, time : 1 .. MaxTime]
    BY HeadShape DEF HeadInv, IInv, TypeOK
  <1>2. Times \subseteq 1 .. MaxTime /\ \A t \in Times : t = github.time \/ github.time < t
    BY <1>1 DEF Times
  <1>3. ASSUME NEW h \in Heads, NEW t \in Times, Push(h, t) PROVE SecondOK' /\ HeadOK'
    <2>1. "synchronize" \in Kinds \ {"rerun"} /\ Event("synchronize", h, t)
          /\ github'.time = t /\ github'.head = h /\ h # github.head
      BY <1>1, <1>3 DEF Push, Kinds
    <2> QED
      BY <1>2, <2>1, NewSecond, SameSecond
  <1>4. ASSUME NEW h \in Heads, NEW t \in Times, Reopen(h, t) PROVE SecondOK' /\ HeadOK'
    <2>1. "reopened" \in Kinds \ {"rerun"} /\ Event("reopened", h, t)
          /\ github'.time = t /\ github'.head = h
      BY <1>1, <1>4 DEF Reopen, Kinds
    <2> QED
      BY <1>2, <2>1, NewSecond, SameSecond
  <1>5. ASSUME NEW t \in Times, Close(t) PROVE SecondOK' /\ HeadOK'
    <2>1. "closed" \in Kinds \ {"rerun"} /\ Event("closed", github.head, t)
          /\ github'.time = t /\ github'.head = github.head
      BY <1>1, <1>5 DEF Close, Kinds
    <2> QED
      BY <1>1, <1>2, <2>1, NewSecond, SameSecond
  <1>6. CASE GitHub
    BY <1>3, <1>4, <1>5, <1>6, RequestRerunHead DEF GitHub
  <1>7. CASE Intake
    BY <1>7, ReceivePullRequestHead, ReceiveRerunHead DEF Intake
  <1>8. CASE Environment \/ UNCHANGED vars
    <2>1. UNCHANGED <<github, sent, pr, applied>>
      BY <1>8 DEF Environment, AddRepository, ChangePolicy, PublishCheck, vars
    <2> QED
      BY <2>1, NothingSent
  <1> QED
    BY <1>6, <1>7, <1>8 DEF Next

\* Once the deliveries of the last second have arrived the row has GitHub's head: the
\* upsert's comparison of times and heads and the chain of _resolve_head_sha make up for
\* their order, whatever is lost before that second.
THEOREM HeadFollowsGitHub == Spec => []HeadConverges
  <1>1. HeadInv => HeadConverges
    <2> SUFFICES ASSUME HeadInv, LastSecond \subseteq applied, Unambiguous
                 PROVE  pr.head = github.head
      BY DEF HeadConverges
    <2>1. CASE Pushes # {}
      <3>1. Pushes \subseteq applied
        BY DEF Pushes
      <3> QED
        BY <2>1, <3>1 DEF HeadInv, HeadOK
    <2>2. CASE Pushes = {}
      <3>1. PICK d \in LastSecond : TRUE
        BY DEF HeadInv, SecondOK
      <3>2. d \in Events /\ sent[d].time = github.time
        BY DEF Events, LastSecond
      <3>3. github.time <= pr.time /\ pr.time <= github.time
        BY <3>2, RowNotAhead DEF HeadInv, IInv, OpenWins
      <3>4. pr.time = github.time
        BY <3>3, HeadShape DEF HeadInv
      <3> QED
        BY <2>2, <3>4 DEF HeadInv, HeadOK
    <2> QED
      BY <2>1, <2>2
  <1> QED
    BY <1>1, InitHeadInv, NextHeadInv, PTL DEF Spec

\* A delivery that gives the row an open head leaves that head with a run, if the
\* policy admits reviews: _create_run makes one or finds it.
THEOREM OpenHeadGetsRun == Spec => AdmittedHeadHasRun
  <1> DEFINE HasRun == admitted /\ pr' # pr /\ pr'.open =>
                         \E g \in DOMAIN runs' : runs'[g].head = pr'.head
  <1>1. ASSUME IInv, [Next]_vars, admitted, pr' # pr, pr'.open
        PROVE  \E g \in DOMAIN runs' : runs'[g].head = pr'.head
    <2>1. PICK d \in Deliveries : ReceivePullRequest(d)
      <3>1. ~UNCHANGED vars
        BY <1>1 DEF vars
      <3>2. ~GitHub
        <4>1. ASSUME NEW kind, NEW h, NEW t PROVE ~Event(kind, h, t)
          BY <1>1 DEF Event
        <4>2. \A h \in Heads, t \in Times : ~Push(h, t) /\ ~Reopen(h, t)
          BY <4>1 DEF Push, Reopen
        <4>3. \A t \in Times : ~Close(t)
          BY <4>1 DEF Close
        <4>4. \A h \in Heads : ~RequestRerun(h)
          BY <4>1 DEF RequestRerun
        <4> QED
          BY <4>2, <4>3, <4>4 DEF GitHub
      <3>3. ~Environment
        BY <1>1 DEF Environment, AddRepository, ChangePolicy, PublishCheck
      <3>4. Intake
        BY <1>1, <3>1, <3>2, <3>3 DEF Next
      <3> QED
        BY <1>1, <3>4 DEF Intake, ReceiveRerun
    <2>2. PICK h \in Heads : ApplyDelivery(d, h)
      BY <1>1, <2>1 DEF ReceivePullRequest
    <2>3. pr' = [head |-> h, open |-> Opens(sent[d]), time |-> sent[d].time]
      BY <1>1, <2>2 DEF ApplyDelivery
    <2>4. CreateRun(d, h)
      BY <1>1, <2>2, <2>3 DEF ApplyDelivery
    <2>5. CASE runs' = runs /\ \E g \in DOMAIN runs : runs[g].head = h
      BY <2>3, <2>5
    <2>6. CASE runs' = Append(runs, [head |-> h, by |-> d])
      <3>1. runs \in Seq([head : Heads, by : Nat]) /\ [head |-> h, by |-> d] \in [head : Heads, by : Nat]
        BY <1>1, HeadShape DEF IInv, TypeOK
      <3>2. Len(runs) + 1 \in DOMAIN runs' /\ runs'[Len(runs) + 1] = [head |-> h, by |-> d]
        BY <2>6, <3>1, Appended
      <3> QED
        BY <2>3, <3>2
    <2> QED
      BY <2>4, <2>5, <2>6 DEF CreateRun
  <1>2. IInv /\ [Next]_vars => [HasRun]_vars
    BY <1>1
  <1> QED
    BY <1>2, InductiveInvariant, PTL DEF Spec, AdmittedHeadHasRun

-----------------------------------------------------------------------------
(***************************************************************************)
(* The publication of a check.  The action PublishCheck of the intake      *)
(* stands for what CheckRun specifies: below, the row of one head as the   *)
(* attempts of update_check leave it.                                      *)
(***************************************************************************)

\* The calls of an attempt that prepared to publish, up to the record of it.
Past == {"find", "create", "patch", "record"}

\* Update u is v, or one the workflow waited for before v.
Earlier(u, v) ==
  \/ u.gen < v.gen
  \/ /\ u.gen = v.gen
     /\ Rank(u.status) < Rank(v.status) \/ u.status = v.status

\* The row shows what the workflow waits for.
Shown == row.id # 0 /\ RowUpdate = workflow.u

\* Update u may be recorded: it begins a run or continues the one in the row.
Due(u) ==
  \/ row.gen < u.gen /\ u.status = "queued"
  \/ row.gen = u.gen /\ Rank(row.status) <= Rank(u.status)

\* What an attempt has in hand is on GitHub.
Backed(k) ==
  /\ k \in Attempt
  /\ k.call \in {"patch", "record"} => k.id \in DOMAIN remote
  /\ k.call = "record" => k.u \in accepted

\* While calls are prompt: what an attempt that is still at work may rely on.
Calm(k) ==
  /\ Earlier(k.u, workflow.u)
  /\ k.call = "create" => Len(remote) = 0
  /\ k.call = "record" => remote[k.id] = k.u
  /\ k.call \in Past => Due(k.u) /\ ~Shown

\* The shape of the row, and of what is on GitHub.
RowsTyped ==
  /\ row \in [gen : 0 .. MaxRuns, status : Statuses, id : 0 .. Len(remote)]
  /\ remote \in Seq(Update) /\ accepted \subseteq Update

\* While calls are prompt: one check at most, the row is not ahead of the
\* workflow, and a row that has caught up says what the check shows.
RowOK ==
  /\ Len(remote) <= 1
  /\ row.gen > 0 => Earlier(RowUpdate, workflow.u)
  /\ row.id # 0 => row.gen > 0
  /\ Shown => remote[row.id] = workflow.u

\* The attempt works on the update the workflow waits for; when it acknowledges
\* the update, the row shows it.
WorkflowOK ==
  /\ ~workflow.over => attempt.u = workflow.u
  /\ ~workflow.over /\ attempt.call = "ok" => Shown

\* One attempt at most holds the claim.
Locked ==
  /\ HasClaim(attempt) => \A k \in strays : ~HasClaim(k)
  /\ \A j, k \in strays : HasClaim(j) /\ HasClaim(k) => j = k

\* What holds however late a call takes effect, ...
Frame ==
  /\ RowsTyped /\ Locked /\ RowBehindGitHub
  /\ workflow \in [u : Update, try : 1 .. MaxAttempts, over : BOOLEAN]
  /\ faults \in 0 .. MaxFaults /\ late \in 0 .. MaxLate
  /\ Backed(attempt)
  /\ \A k \in strays \cup orphans : Backed(k)

\* ... and what holds as long as none does.
Quiet ==
  Prompt =>
    /\ orphans = {} /\ RowOK /\ WorkflowOK
    /\ Calm(attempt) /\ \A k \in strays : Calm(k)

\* The inductive invariant.
CheckInv == Frame /\ Quiet

-----------------------------------------------------------------------------
(* What one call of an attempt does *)

\* The order of the statuses.
LEMMA Ranks ==
  /\ \A s \in Statuses : Rank(s) \in 0 .. 2
  /\ Rank("queued") = 0 /\ Rank("running") = 1
  /\ Rank("done") = 2 /\ Rank("failed") = 2
  BY DEF Rank, Statuses

\* _prepare: skipped, refused, or the row is claimed for the run.
LEMMA PrepareEffect ==
  ASSUME NEW k \in Attempt, NEW next, RowsTyped, Prepare(k, next)
  PROVE  /\ k.call = "prepare" /\ UNCHANGED <<remote, accepted>>
         /\ next \in Attempt /\ next.u = k.u
         /\ \/ next.call = "error" /\ UNCHANGED row
            \/ next.call = "ok" /\ Skipped(k.u) /\ UNCHANGED row
            \/ /\ ~Skipped(k.u) /\ ~Refused(k.u)
               /\ \/ row.gen # 0 /\ UNCHANGED row
                  \/ row.gen = 0 /\ row' = [gen |-> k.u.gen, status |-> "queued", id |-> 0]
               /\ \/ next.call = "find"
                  \/ next.call = "patch" /\ row.id # 0 /\ next.id = row.id
  <1>1. PICK u \in Update, c \in Calls \cup Results, i \in Nat :
          k = [u |-> u, call |-> c, id |-> i]
    BY DEF Attempt
  <1>2. PICK g \in 0 .. MaxRuns, s \in Statuses, n \in 0 .. Len(remote) :
          row = [gen |-> g, status |-> s, id |-> n]
    BY DEF RowsTyped
  <1>3. Len(remote) \in Nat
    BY LenProperties DEF RowsTyped
  <1>4. \/ next = [u |-> u, call |-> "error", id |-> i] /\ UNCHANGED row
        \/ next = [u |-> u, call |-> "ok", id |-> i] /\ UNCHANGED row /\ Skipped(u)
        \/ /\ ~Skipped(u) /\ ~Refused(u)
           /\ \/ row' = [gen |-> u.gen, status |-> "queued", id |-> 0] /\ g = 0
              \/ UNCHANGED row /\ g # 0
           /\ \/ next = [u |-> u, call |-> "find", id |-> i]
              \/ next = [u |-> u, call |-> "patch", id |-> n] /\ n # 0
    BY <1>1, <1>2 DEF Prepare, To, NoRow
  <1> QED
    BY <1>1, <1>2, <1>3, <1>4 DEF Prepare, Attempt, Calls, Results

\* find_check_run tells none, one and several apart.
LEMMA FindEffect ==
  ASSUME NEW k \in Attempt, NEW next, RowsTyped, Find(k, next)
  PROVE  /\ k.call = "find" /\ UNCHANGED <<row, remote, accepted>>
         /\ next \in Attempt /\ next.u = k.u
         /\ \/ next.call = "error"
            \/ next.call = "patch" /\ next.id = 1 /\ Len(remote) = 1
            \/ next.call = "create" /\ Len(remote) = 0
  <1>1. PICK u \in Update, c \in Calls \cup Results, i \in Nat :
          k = [u |-> u, call |-> c, id |-> i]
    BY DEF Attempt
  <1>2. Len(remote) \in Nat
    BY LenProperties DEF RowsTyped
  <1>3. \/ next = [u |-> u, call |-> "error", id |-> i]
        \/ next = [u |-> u, call |-> "patch", id |-> 1] /\ Len(remote) = 1
        \/ next = [u |-> u, call |-> "create", id |-> i] /\ Len(remote) = 0
    <2>1. next = CASE Len(remote) > 1 -> To(k, "error")
                   [] Len(remote) = 1 -> [To(k, "patch") EXCEPT !.id = 1]
                   [] OTHER -> To(k, "create")
      BY DEF Find
    <2>2. PICK n \in Nat : n = Len(remote)
      BY <1>2
    <2>3. CASE n > 1
      <3>1. n # 1
        BY <2>3
      <3> QED
        BY <1>1, <2>1, <2>2, <2>3, <3>1 DEF To
    <2>4. CASE n = 1
      <3>1. ~(n > 1)
        BY <2>4
      <3> QED
        BY <1>1, <2>1, <2>2, <2>4, <3>1 DEF To
    <2>5. CASE n = 0
      <3>1. ~(n > 1) /\ n # 1
        BY <2>5
      <3> QED
        BY <1>1, <2>1, <2>2, <2>5, <3>1 DEF To
    <2> QED
      BY <2>3, <2>4, <2>5
  <1> QED
    BY <1>1, <1>3 DEF Find, Attempt, Calls, Results

\* A new check is the last one.
LEMMA CreateEffect ==
  ASSUME NEW k \in Attempt, NEW next, RowsTyped, Create(k, next)
  PROVE  /\ k.call = "create" /\ UNCHANGED row
         /\ remote' \in Seq(Update) /\ Len(remote') = Len(remote) + 1
         /\ accepted' = accepted \cup {k.u}
         /\ next \in Attempt /\ next.u = k.u
         /\ next.call = "patch" /\ next.id = Len(remote')
  <1>1. PICK u \in Update, c \in Calls \cup Results, i \in Nat :
          k = [u |-> u, call |-> c, id |-> i]
    BY DEF Attempt
  <1>2. remote' \in Seq(Update) /\ Len(remote') = Len(remote) + 1 /\ Len(remote) \in Nat
    BY <1>1, AppendProperties, LenProperties DEF RowsTyped, Create
  <1>3. next = [u |-> u, call |-> "patch", id |-> Len(remote) + 1]
    BY <1>1 DEF Create, To
  <1> QED
    BY <1>1, <1>2, <1>3 DEF Create, Attempt, Calls, Results

\* An update of a check that is there.
LEMMA PatchEffect ==
  ASSUME NEW k \in Attempt, NEW next, RowsTyped, Patch(k, next),
         k.id \in DOMAIN remote
  PROVE  /\ k.call = "patch" /\ UNCHANGED row
         /\ remote' \in Seq(Update) /\ Len(remote') = Len(remote)
         /\ remote'[k.id] = k.u
         /\ accepted' = accepted \cup {k.u}
         /\ next \in Attempt /\ next.u = k.u
         /\ next.call = "record" /\ next.id = k.id
  <1>1. PICK u \in Update, c \in Calls \cup Results, i \in Nat :
          k = [u |-> u, call |-> c, id |-> i]
    BY DEF Attempt
  <1>2. DOMAIN remote = 1 .. Len(remote)
    BY LenProperties DEF RowsTyped
  <1>3. remote' \in Seq(Update) /\ Len(remote') = Len(remote) /\ remote'[i] = u
    BY <1>1, <1>2, ExceptSeq DEF RowsTyped, Patch
  <1>4. next = [u |-> u, call |-> "record", id |-> i]
    BY <1>1 DEF Patch, To
  <1> QED
    BY <1>1, <1>3, <1>4 DEF Patch, Attempt, Calls, Results

\* _record writes the update, or finds the row with a newer run.
LEMMA RecordEffect ==
  ASSUME NEW k \in Attempt, NEW next, RowsTyped, Record(k, next)
  PROVE  /\ k.call = "record" /\ UNCHANGED <<remote, accepted>>
         /\ next \in Attempt /\ next.u = k.u
         /\ \/ next.call = "error" /\ UNCHANGED row
            \/ /\ next.call = "ok"
               /\ row.gen = k.u.gen \/ (row.gen < k.u.gen /\ k.u.status = "queued")
               /\ row' = [gen |-> k.u.gen, status |-> k.u.status, id |-> k.id]
  <1>1. PICK u \in Update, c \in Calls \cup Results, i \in Nat :
          k = [u |-> u, call |-> c, id |-> i]
    BY DEF Attempt
  <1> QED
    BY <1>1 DEF Record, To, Attempt, Calls, Results

\* The claim is taken when nobody has it.
LEMMA ClaimEffect ==
  ASSUME NEW k \in Attempt, NEW next, Claim(k, next)
  PROVE  /\ k.call = "claim" /\ UNCHANGED <<row, remote, accepted>>
         /\ next \in Attempt /\ next.u = k.u
         /\ next.call = "error" \/ (next.call = "prepare" /\ ~Busy)
  <1>1. PICK u \in Update, c \in Calls \cup Results, i \in Nat :
          k = [u |-> u, call |-> c, id |-> i]
    BY DEF Attempt
  <1> QED
    BY <1>1 DEF Claim, To, Attempt, Calls, Results

\* A call keeps the rows well formed and passes on what is on GitHub.
LEMMA TakeTyped ==
  ASSUME RowsTyped, RowBehindGitHub,
         NEW k, NEW next, Backed(k), Take(k, next)
  PROVE  /\ RowsTyped' /\ RowBehindGitHub'
         /\ Backed(next)' /\ next.u = k.u
         /\ Len(remote) <= Len(remote') /\ accepted \subseteq accepted'
         /\ row.gen <= row'.gen
         /\ k.call # "claim" => HasClaim(k)
         /\ HasClaim(next) => HasClaim(k) \/ ~Busy
  <1>1. /\ k \in Attempt /\ k.call \in Calls \cup Results /\ k.id \in Nat
        /\ k.u \in Update /\ k.u.gen \in 1 .. MaxRuns /\ k.u.status \in Statuses
    BY DEF Backed, Attempt, Update, Gens
  <1>2. /\ DOMAIN remote = 1 .. Len(remote) /\ Len(remote) \in Nat
        /\ row.gen \in 0 .. MaxRuns /\ row.status \in Statuses /\ row.id \in 0 .. Len(remote)
    BY LenProperties DEF RowsTyped
  <1>3. CASE Claim(k, next)
    BY <1>1, <1>2, <1>3, ClaimEffect DEF RowsTyped, Backed, RowBehindGitHub,
       RowUpdate, HasClaim, Calls
  <1>4. CASE Prepare(k, next)
    <2>1. PICK r : r = row' /\ (r = row \/ r = [gen |-> k.u.gen, status |-> "queued", id |-> 0])
      BY <1>1, <1>4, PrepareEffect
    <2>2. RowsTyped'
      BY <1>1, <1>2, <1>4, <2>1, PrepareEffect DEF RowsTyped, Statuses
    <2>3. RowBehindGitHub'
      BY <1>1, <1>2, <1>4, <2>1, PrepareEffect DEF RowBehindGitHub, RowUpdate
    <2>4. Backed(next)'
      BY <1>1, <1>2, <1>4, PrepareEffect DEF Backed
    <2> QED
      BY <1>1, <1>2, <1>4, <2>2, <2>3, <2>4, PrepareEffect DEF HasClaim, Calls
  <1>5. CASE Find(k, next)
    BY <1>1, <1>2, <1>5, FindEffect DEF RowsTyped, Backed, RowBehindGitHub,
       RowUpdate, HasClaim, Calls
  <1>6. CASE Create(k, next)
    <2>1. Len(remote') \in DOMAIN remote'
      BY <1>1, <1>2, <1>6, CreateEffect, LenProperties
    <2>2. RowsTyped' /\ accepted \subseteq accepted' /\ Len(remote) <= Len(remote')
      BY <1>1, <1>2, <1>6, CreateEffect DEF RowsTyped
    <2>3. Backed(next)'
      BY <1>1, <1>2, <1>6, <2>1, CreateEffect DEF Backed
    <2> QED
      BY <1>1, <1>2, <1>6, <2>2, <2>3, CreateEffect DEF RowBehindGitHub,
         RowUpdate, HasClaim, Calls
  <1>7. CASE Patch(k, next)
    <2>1. k.id \in DOMAIN remote
      BY <1>7 DEF Backed, Patch
    <2>2. DOMAIN remote' = 1 .. Len(remote')
      BY <1>1, <1>7, <2>1, PatchEffect, LenProperties
    <2>3. RowsTyped' /\ accepted \subseteq accepted' /\ Len(remote) <= Len(remote')
      BY <1>1, <1>2, <1>7, <2>1, PatchEffect DEF RowsTyped
    <2>4. Backed(next)'
      BY <1>1, <1>2, <1>7, <2>1, <2>2, PatchEffect DEF Backed
    <2> QED
      BY <1>1, <1>2, <1>7, <2>1, <2>3, <2>4, PatchEffect DEF RowBehindGitHub,
         RowUpdate, HasClaim, Calls
  <1>8. CASE Record(k, next)
    <2>1. k.id \in 1 .. Len(remote) /\ k.u \in accepted
      BY <1>2, <1>8 DEF Backed, Record
    <2>2. k.u = [gen |-> k.u.gen, status |-> k.u.status]
      BY <1>1 DEF Update
    <2> QED
      BY <1>1, <1>2, <1>8, <2>1, <2>2, RecordEffect DEF RowsTyped, Backed, RowBehindGitHub,
         RowUpdate, HasClaim, Calls
  <1> QED
    BY <1>3, <1>4, <1>5, <1>6, <1>7, <1>8 DEF Take

\* While calls are prompt, a call brings the row forward or leaves it.
Advances ==
  \/ UNCHANGED row
  \/ row'.gen > row.gen /\ row'.status = "queued"
  \/ row'.gen = row.gen /\ Rank(row.status) <= Rank(row'.status)

\* While calls are prompt, a call leaves an attempt what it may rely on, and an
\* attempt that ends well leaves its update in the row.
LEMMA TakePrompt ==
  ASSUME RowsTyped, RowOK, workflow.u \in Update, UNCHANGED workflow,
         NEW k, NEW next, Backed(k), Calm(k), Take(k, next)
  PROVE  /\ RowOK' /\ Calm(next)'
         /\ Shown => Shown'
         /\ next.call = "ok" /\ k.u = workflow.u => Shown'
         /\ ~HasClaim(k) => UNCHANGED <<row, remote>>
         /\ Advances
  <1>1. PICK v \in Update : v = workflow.u /\ v = workflow'.u
    OBVIOUS
  <1>2. /\ v.gen \in 1 .. MaxRuns /\ v.status \in Statuses
        /\ v = [gen |-> v.gen, status |-> v.status]
    BY DEF Update, Gens
  <1>3. PICK u \in Update : u = k.u
    BY DEF Backed, Attempt
  <1>4. /\ u.gen \in 1 .. MaxRuns /\ u.status \in Statuses
        /\ u = [gen |-> u.gen, status |-> u.status]
    BY DEF Update, Gens
  <1>5. /\ row.gen \in 0 .. MaxRuns /\ row.status \in Statuses /\ row.id \in 0 .. Len(remote)
        /\ DOMAIN remote = 1 .. Len(remote) /\ Len(remote) \in Nat
    BY LenProperties DEF RowsTyped
  <1>6. k \in Attempt
    BY DEF Backed
  <1>7. \A s \in Statuses : Rank(s) \in 0 .. 2
    BY Ranks
  <1>8. CASE Claim(k, next)
    BY <1>1, <1>6, <1>8, ClaimEffect DEF RowOK, Calm, Shown, Due, Past, Advances, RowUpdate
  <1>9. CASE Prepare(k, next)
    <2>1. CASE UNCHANGED row /\ next.call \in {"ok", "error"}
      <3>1. RowOK' /\ Calm(next)' /\ (Shown => Shown') /\ Advances
        BY <1>1, <1>6, <1>9, <2>1, PrepareEffect
           DEF RowOK, Calm, Shown, Due, Past, Advances, RowUpdate
      <3>2. next.call = "ok" /\ u = v => Shown
        <4>1. next.call = "ok" => Skipped(u)
          BY <1>3, <1>6, <1>9, <2>1, PrepareEffect
        <4>2. row.gen > 0 => Earlier([gen |-> row.gen, status |-> row.status], v)
          BY <1>1 DEF RowOK, RowUpdate
        <4>3. ASSUME Skipped(v) PROVE row.id # 0 /\ row.gen = v.gen /\ row.status = v.status
          BY <1>2, <1>5, <1>7, <4>2, <4>3 DEF Earlier, Skipped
        <4> QED
          BY <1>1, <1>2, <4>1, <4>3 DEF Shown, RowUpdate
      <3> QED
        BY <1>1, <1>3, <1>9, <2>1, <3>1, <3>2 DEF Prepare, HasClaim, Calls
    <2>2. CASE next.call \in {"find", "patch"}
      <3>1. /\ ~Skipped(u) /\ ~Refused(u)
            /\ next.u = u /\ UNCHANGED remote /\ k.call = "prepare"
        BY <1>3, <1>6, <1>9, <2>2, PrepareEffect
      <3>2. ~Shown
        BY <1>1, <1>2, <1>3, <1>4, <1>5, <1>7, <3>1
           DEF Calm, Shown, Earlier, Skipped, RowUpdate
      <3>3. CASE row.gen # 0 /\ UNCHANGED row
        <4>1. Due(u) 
          BY <1>2, <1>4, <1>5, <1>7, <3>1, <3>3 DEF Due, Skipped, Refused
        <4> QED
          BY <1>1, <1>3, <2>2, <3>1, <3>2, <3>3, <4>1
             DEF RowOK, Calm, Shown, Due, Advances, RowUpdate, HasClaim, Calls
      <3>4. CASE row.gen = 0 /\ row' = [gen |-> u.gen, status |-> "queued", id |-> 0]
        <4>1. u.status = "queued"
          BY <1>4, <1>5, <3>1, <3>4 DEF Refused
        <4>2. Due(u)' /\ ~Shown' /\ Advances
          BY <1>4, <1>5, <1>7, <3>4, <4>1 DEF Due, Shown, Advances
        <4>3. RowOK'
          BY <1>1, <1>3, <1>4, <3>1, <3>4, <4>1, <4>2 DEF RowOK, Calm, Earlier, RowUpdate
        <4> QED
          BY <1>1, <1>3, <2>2, <3>1, <3>2, <4>2, <4>3 DEF Calm, HasClaim, Calls
      <3> QED
        BY <1>3, <1>6, <1>9, <2>2, <3>3, <3>4, PrepareEffect
    <2> QED
      BY <1>6, <1>9, <2>1, <2>2, PrepareEffect
  <1>10. CASE Find(k, next)
    BY <1>1, <1>6, <1>10, FindEffect
       DEF RowOK, Calm, Shown, Due, Past, Advances, RowUpdate, HasClaim, Calls
  <1>11. CASE Create(k, next)
    <2>1. Len(remote) = 0 /\ row.id = 0 /\ k.call = "create"
      BY <1>5, <1>11 DEF Calm, Create
    <2>2. Len(remote') = 1 /\ UNCHANGED row
      BY <1>6, <1>11, <2>1, CreateEffect
    <2>3. ~Shown /\ ~Shown'
      BY <2>1, <2>2 DEF Shown
    <2>4. RowOK'
      BY <1>1, <2>2, <2>3 DEF RowOK, RowUpdate
    <2> QED
      BY <1>1, <1>6, <1>11, <2>1, <2>3, <2>4, CreateEffect
         DEF Calm, Due, Past, Advances, HasClaim, Calls
  <1>12. CASE Patch(k, next)
    <2>1. k.id \in DOMAIN remote /\ k.call = "patch"
      BY <1>12 DEF Backed, Patch
    <2>2. RowOK' /\ ~Shown /\ ~Shown'
      BY <1>1, <1>6, <1>12, <2>1, PatchEffect DEF RowOK, Calm, Past, Shown, Earlier, RowUpdate
    <2> QED
      BY <1>1, <1>6, <1>12, <2>1, <2>2, PatchEffect
         DEF Calm, Due, Past, Advances, HasClaim, Calls
  <1>13. CASE Record(k, next)
    <2>1. /\ k.id \in 1 .. Len(remote) /\ k.call = "record" /\ remote[k.id] = u
          /\ Due(u) /\ ~Shown /\ Earlier(u, v)
      BY <1>1, <1>3, <1>5, <1>13 DEF Backed, Calm, Past, Record
    <2>2. CASE next.call = "error" /\ UNCHANGED row
      <3>1. UNCHANGED <<row, remote>> /\ (Shown <=> Shown') /\ ~Shown
        BY <1>1, <1>6, <1>13, <2>1, <2>2, RecordEffect DEF Shown, RowUpdate
      <3>2. RowOK'
        BY <1>1, <3>1 DEF RowOK, RowUpdate
      <3>3. next.call = "error" /\ next.u = k.u
        BY <1>6, <1>13, <2>2, RecordEffect
      <3> QED
        BY <1>1, <2>1, <3>1, <3>2, <3>3 DEF Calm, Past, Advances, HasClaim, Calls
    <2>3. CASE next.call = "ok" /\ row' = [gen |-> u.gen, status |-> u.status, id |-> k.id]
      <3>1. RowUpdate' = u /\ row'.id = k.id /\ row'.gen = u.gen
        BY <1>4, <2>3 DEF RowUpdate
      <3>2. RowOK' /\ (u = v => Shown')
        BY <1>1, <1>3, <1>4, <1>6, <1>13, <2>1, <3>1, RecordEffect DEF RowOK, Shown
      <3>3. Advances
        BY <1>4, <1>5, <2>1, <2>3 DEF Due, Advances
      <3> QED
        BY <1>1, <1>3, <1>6, <1>13, <2>1, <2>3, <3>2, <3>3, RecordEffect
           DEF Calm, Past, HasClaim, Calls
    <2> QED
      BY <1>3, <1>6, <1>13, <2>2, <2>3, RecordEffect
  <1> QED
    BY <1>8, <1>9, <1>10, <1>11, <1>12, <1>13 DEF Take

-----------------------------------------------------------------------------
(* The steps of attempts, strays and late calls *)

\* What is on GitHub stays there, for the attempts that do not move.
LEMMA BackedStays ==
  ASSUME RowsTyped, RowsTyped', NEW j, Backed(j),
         Len(remote) <= Len(remote'), accepted \subseteq accepted'
  PROVE  Backed(j)'
  <1>1. /\ DOMAIN remote = 1 .. Len(remote) /\ Len(remote) \in Nat
        /\ DOMAIN remote' = 1 .. Len(remote') /\ Len(remote') \in Nat
    BY LenProperties DEF RowsTyped
  <1> QED
    BY <1>1 DEF Backed

\* An attempt that has not prepared relies on nothing in the row.
LEMMA CalmStays ==
  ASSUME NEW j, Calm(j), UNCHANGED workflow,
         j.call \in Past \/ j.call = "create" => UNCHANGED <<row, remote>>
  PROVE  Calm(j)'
  BY DEF Calm, Shown, Due, Past, RowUpdate

\* The attempt of the workflow makes a call.
LEMMA MakeCallKeeps ==
  ASSUME CheckInv, MakeCall
  PROVE  CheckInv' /\ (Prompt' => Advances) /\ row.gen <= row'.gen
  <1>1. PICK next : Take(attempt, next) /\ attempt' = next
    BY DEF MakeCall
  <1>2. UNCHANGED <<workflow, strays, orphans, faults, late>>
    BY DEF MakeCall
  <1>3. /\ RowsTyped' /\ RowBehindGitHub' /\ Backed(next)' /\ next.u = attempt.u
        /\ Len(remote) <= Len(remote') /\ accepted \subseteq accepted'
        /\ row.gen <= row'.gen
        /\ attempt.call # "claim" => HasClaim(attempt)
        /\ HasClaim(next) => HasClaim(attempt) \/ ~Busy
    BY <1>1, TakeTyped DEF CheckInv, Frame
  <1>4. \A j : Backed(j) => Backed(j)'
    BY <1>3, BackedStays DEF CheckInv, Frame
  <1>5. Locked'
    BY <1>1, <1>2, <1>3 DEF CheckInv, Frame, Locked, Busy, HasClaim
  <1>6. Frame'
    BY <1>1, <1>2, <1>3, <1>4, <1>5 DEF CheckInv, Frame, Backed
  <1>7. ASSUME Prompt' PROVE Advances /\ Quiet'
    <2>1. Prompt
      BY <1>2, <1>7 DEF Prompt
    <2>2. /\ RowOK' /\ Calm(next)' /\ (Shown => Shown') /\ Advances
          /\ next.call = "ok" /\ attempt.u = workflow.u => Shown'
          /\ ~HasClaim(attempt) => UNCHANGED <<row, remote>>
      BY <1>1, <1>2, <2>1, TakePrompt DEF CheckInv, Frame, Quiet
    <2>3. ASSUME NEW j \in strays PROVE Calm(j)'
      BY <1>2, <2>1, <2>2, CalmStays
         DEF CheckInv, Frame, Locked, Quiet, Past, HasClaim, Calls
    <2>4. WorkflowOK'
      BY <1>1, <1>2, <1>3, <2>1, <2>2 DEF CheckInv, Quiet, WorkflowOK
    <2> QED
      BY <1>1, <1>2, <2>1, <2>2, <2>3, <2>4 DEF CheckInv, Quiet, Calm
  <1> QED
    BY <1>3, <1>6, <1>7 DEF CheckInv, Quiet

\* A stray makes a call, beside the attempt that replaced it.
LEMMA StrayCallKeeps ==
  ASSUME CheckInv, StrayCall
  PROVE  CheckInv' /\ (Prompt' => Advances) /\ row.gen <= row'.gen
  <1>0. PICK k \in strays : \E next :
          /\ Take(k, next)
          /\ strays' = (strays \ {k}) \cup (IF Finished(next) THEN {} ELSE {next})
    BY DEF StrayCall
  <1>1. PICK next :
          /\ Take(k, next)
          /\ strays' = (strays \ {k}) \cup (IF Finished(next) THEN {} ELSE {next})
    BY <1>0
  <1>2. UNCHANGED <<workflow, attempt, orphans, faults, late>>
    BY DEF StrayCall
  <1>3. /\ RowsTyped' /\ RowBehindGitHub' /\ Backed(next)' /\ next.u = k.u
        /\ Len(remote) <= Len(remote') /\ accepted \subseteq accepted'
        /\ row.gen <= row'.gen
        /\ k.call # "claim" => HasClaim(k)
        /\ HasClaim(next) => HasClaim(k) \/ ~Busy
    BY <1>1, TakeTyped DEF CheckInv, Frame
  <1>4. \A j : Backed(j) => Backed(j)'
    BY <1>3, BackedStays DEF CheckInv, Frame
  <1>5. \A j \in strays' : j = next \/ (j \in strays /\ j # k)
    BY <1>1
  <1>6. Locked'
    BY <1>2, <1>3, <1>5 DEF CheckInv, Frame, Locked, Busy
  <1>7. Frame'
    BY <1>2, <1>3, <1>4, <1>5, <1>6 DEF CheckInv, Frame
  <1>8. ASSUME Prompt' PROVE Advances /\ Quiet'
    <2>1. Prompt
      BY <1>2, <1>8 DEF Prompt
    <2>2. /\ RowOK' /\ Calm(next)' /\ (Shown => Shown') /\ Advances
          /\ ~HasClaim(k) => UNCHANGED <<row, remote>>
      BY <1>1, <1>2, <2>1, TakePrompt DEF CheckInv, Frame, Quiet
    <2>3. ASSUME NEW j \in strays, j # k PROVE Calm(j)'
      BY <1>2, <2>1, <2>2, <2>3, CalmStays
         DEF CheckInv, Frame, Locked, Quiet, Past, HasClaim, Calls
    <2>4. Calm(attempt)'
      BY <1>2, <2>1, <2>2, CalmStays
         DEF CheckInv, Frame, Locked, Quiet, Past, HasClaim, Calls, Calm
    <2>5. WorkflowOK'
      BY <1>2, <2>1, <2>2 DEF CheckInv, Quiet, WorkflowOK
    <2> QED
      BY <1>2, <1>5, <2>1, <2>2, <2>3, <2>4, <2>5 DEF CheckInv, Quiet
  <1> QED
    BY <1>3, <1>7, <1>8 DEF CheckInv, Quiet

\* An attempt that is given an error, or goes on without the server.
LEMMA Erred ==
  ASSUME NEW k, Backed(k)
  PROVE  /\ To(k, "error").u = k.u /\ To(k, "error").call = "error"
         /\ To(k, "ok").u = k.u /\ To(k, "ok").call = "ok"
         /\ To(k, "error") \in Attempt /\ To(k, "ok") \in Attempt
  <1>1. PICK u \in Update, c \in Calls \cup Results, i \in Nat :
          k = [u |-> u, call |-> c, id |-> i]
    BY DEF Attempt, Backed
  <1> QED
    BY <1>1 DEF To, Attempt, Calls, Results

\* What Abandon leaves behind.
LEMMA AbandonKeeps ==
  ASSUME late \in 0 .. MaxLate, NEW k, Abandon(k)
  PROVE  /\ late' \in 0 .. MaxLate
         /\ \A j \in orphans' : j \in orphans \/ j = k
         /\ Prompt' => Prompt /\ orphans' = orphans
  BY CheckAssumption DEF Abandon, Prompt

\* Faults are counted.
LEMMA FaultCounted ==
  ASSUME faults \in 0 .. MaxFaults, Fault
  PROVE  faults' \in 0 .. MaxFaults
  BY CheckAssumption DEF Fault

\* A call fails, with or without effect.
LEMMA CallFailsKeeps ==
  ASSUME CheckInv, CallFails
  PROVE  CheckInv' /\ (Prompt' => Advances) /\ row.gen <= row'.gen
  <1>0. PICK failed : failed = To(attempt, "error")
    OBVIOUS
  <1>1. /\ UNCHANGED <<workflow, strays>> /\ attempt' = failed
        /\ faults' \in 0 .. MaxFaults
    BY <1>0, FaultCounted DEF CallFails, CheckInv, Frame
  <1>2. /\ late' \in 0 .. MaxLate
        /\ \A j \in orphans' : j \in orphans \/ j = attempt
        /\ Prompt' => Prompt /\ orphans' = orphans
    <2>1. CASE Abandon(attempt)
      BY <2>1, AbandonKeeps DEF CheckInv, Frame
    <2>2. CASE UNCHANGED <<orphans, late>>
      BY <2>2 DEF CheckInv, Frame, Prompt
    <2> QED
      BY <2>1, <2>2 DEF CallFails
  <1>3. failed.u = attempt.u /\ failed.call = "error" /\ failed \in Attempt
    BY <1>0, Erred DEF CheckInv, Frame
  <1>4. CASE UNCHANGED <<row, remote, accepted>>
    <2>1. \A j : Backed(j) => Backed(j)'
      BY <1>4 DEF Backed
    <2>2. Frame'
      BY <1>1, <1>2, <1>3, <1>4, <2>1
         DEF CheckInv, Frame, RowsTyped, Locked, RowBehindGitHub, RowUpdate,
             HasClaim, Calls, Backed
    <2>3. ASSUME Prompt' PROVE Quiet'
      <3>1. \A j : Calm(j) => Calm(j)'
        BY <1>1, <1>4, CalmStays
      <3>2. RowOK' /\ (Shown' <=> Shown)
        BY <1>1, <1>2, <1>4, <2>3 DEF CheckInv, Quiet, RowOK, Shown, RowUpdate
      <3> QED
        BY <1>1, <1>2, <1>3, <2>3, <3>1, <3>2 DEF CheckInv, Quiet, WorkflowOK, Calm, Past
    <2>4. row.gen <= row'.gen
      BY <1>4 DEF CheckInv, Frame, RowsTyped
    <2> QED
      BY <1>4, <2>2, <2>3, <2>4 DEF CheckInv, Quiet, Advances
  <1>5. CASE \E next \in Nexts(attempt) : Take(attempt, next)
    <2>1. PICK next : Take(attempt, next)
      BY <1>5
    <2>2. /\ RowsTyped' /\ RowBehindGitHub'
          /\ Len(remote) <= Len(remote') /\ accepted \subseteq accepted'
          /\ row.gen <= row'.gen
          /\ attempt.call # "claim" => HasClaim(attempt)
      BY <2>1, TakeTyped DEF CheckInv, Frame
    <2>3. \A j : Backed(j) => Backed(j)'
      BY <2>2, BackedStays DEF CheckInv, Frame
    <2>4. Frame'
      BY <1>1, <1>2, <1>3, <2>2, <2>3
         DEF CheckInv, Frame, Locked, HasClaim, Calls, Backed
    <2>5. ASSUME Prompt' PROVE Advances /\ Quiet'
      <3>1. Prompt /\ orphans' = {}
        BY <1>2, <2>5 DEF CheckInv, Quiet
      <3>2. /\ RowOK' /\ (Shown => Shown') /\ Advances
            /\ ~HasClaim(attempt) => UNCHANGED <<row, remote>>
        BY <1>1, <2>1, <3>1, TakePrompt DEF CheckInv, Frame, Quiet
      <3>3. ASSUME NEW j \in strays PROVE Calm(j)'
        BY <1>1, <3>1, <3>2, CalmStays
           DEF CheckInv, Frame, Locked, Quiet, Past, HasClaim, Calls
      <3>4. Calm(failed)'
        BY <1>1, <1>3, <3>1 DEF CheckInv, Quiet, Calm, Past
      <3> QED
        BY <1>1, <1>3, <3>1, <3>2, <3>3, <3>4 DEF CheckInv, Quiet, WorkflowOK, Calm
    <2> QED
      BY <2>2, <2>4, <2>5 DEF CheckInv, Quiet
  <1> QED
    BY <1>4, <1>5 DEF CallFails

\* A stray is cancelled.
LEMMA CancelledKeeps ==
  ASSUME CheckInv, Cancelled
  PROVE  CheckInv' /\ UNCHANGED row
  <1>1. PICK k \in strays : strays' = strays \ {k} /\ Abandon(k)
    BY DEF Cancelled
  <1>2. UNCHANGED <<row, remote, accepted, workflow, attempt, faults>>
    BY DEF Cancelled
  <1>3. /\ late' \in 0 .. MaxLate
        /\ \A j \in orphans' : j \in orphans \/ j = k
        /\ Prompt' => Prompt /\ orphans' = orphans
    BY <1>1, AbandonKeeps DEF CheckInv, Frame
  <1>4. \A j : Backed(j) => Backed(j)'
    BY <1>2 DEF Backed
  <1>5. Frame'
    BY <1>1, <1>2, <1>3, <1>4
       DEF CheckInv, Frame, RowsTyped, Locked, RowBehindGitHub, RowUpdate,
           HasClaim
  <1>6. ASSUME Prompt' PROVE Quiet'
    <2>1. \A j : Calm(j) => Calm(j)'
      BY <1>2, CalmStays
    <2>2. RowOK' /\ WorkflowOK'
      BY <1>2, <1>3, <1>6 DEF CheckInv, Quiet, RowOK, WorkflowOK, Shown, RowUpdate
    <2> QED
      BY <1>1, <1>2, <1>3, <1>6, <2>1, <2>2 DEF CheckInv, Quiet, Calm
  <1> QED
    BY <1>2, <1>5, <1>6 DEF CheckInv, Quiet

\* A late call may come at any time, which is why the rest is said of prompt calls.
LEMMA OrphanLandsKeeps ==
  ASSUME CheckInv, OrphanLands
  PROVE  CheckInv' /\ ~Prompt' /\ row.gen <= row'.gen
  <1>0. PICK k \in orphans :
          (\E next : Take(k, next)) /\ orphans' = orphans \ {k}
    BY DEF OrphanLands
  <1>1. PICK next : Take(k, next)
    BY <1>0
  <1>2. UNCHANGED <<workflow, attempt, strays, faults, late>>
    BY DEF OrphanLands
  <1>3. /\ RowsTyped' /\ RowBehindGitHub'
        /\ Len(remote) <= Len(remote') /\ accepted \subseteq accepted'
        /\ row.gen <= row'.gen
    BY <1>1, TakeTyped DEF CheckInv, Frame
  <1>4. \A j : Backed(j) => Backed(j)'
    BY <1>3, BackedStays DEF CheckInv, Frame
  <1>5. Frame'
    BY <1>0, <1>2, <1>3, <1>4
       DEF CheckInv, Frame, Locked, HasClaim, Backed
  <1>6. ~Prompt'
    BY <1>0, <1>2 DEF CheckInv, Quiet, Prompt
  <1> QED
    BY <1>3, <1>5, <1>6 DEF CheckInv, Quiet

-----------------------------------------------------------------------------
(* The steps of the workflow *)

\* Update u comes after v.
Later(u, v) ==
  \/ u.gen > v.gen
  \/ u.gen = v.gen /\ Rank(u.status) > Rank(v.status)

\* The workflow goes on to update u, or it ends.
GoesOn(u) ==
  /\ Await(u)
  /\ Later(u, workflow.u) /\ u.gen \in Nat /\ u.status \in Statuses
  /\ u.gen \in Gens => u \in Update

\* It tries again.
TriesAgain ==
  /\ workflow.try < MaxAttempts
  /\ workflow' = [workflow EXCEPT !.try = @ + 1] /\ attempt' = Start(workflow.u)

\* Everything there is about update u of the workflow stays behind a later one.
LEMMA LaterIsBeyond ==
  ASSUME NEW u \in Update, NEW v \in Update, NEW w \in Update,
         Earlier(u, v), Later(w, v)
  PROVE  Earlier(u, w) /\ u # w
  <1>1. /\ u.gen \in Int /\ v.gen \in Int /\ w.gen \in Int
        /\ u.status \in Statuses /\ v.status \in Statuses /\ w.status \in Statuses
    BY DEF Update, Gens
  <1>2. \A s \in Statuses : Rank(s) \in 0 .. 2
    BY Ranks
  <1> QED
    BY <1>1, <1>2 DEF Earlier, Later

\* The workflow goes on or tries again: the attempt begins anew, and all that is
\* still at work is behind it.
LEMMA WorkflowMoves ==
  ASSUME CheckInv, ~workflow.over,
         UNCHANGED <<row, remote, accepted, orphans, late>>,
         strays' = strays \/ strays' = strays \cup {attempt},
         faults' \in 0 .. MaxFaults,
         TriesAgain \/ \E u : GoesOn(u)
  PROVE  CheckInv' /\ row.gen <= row'.gen
  <1>1. PICK v \in Update, n \in 1 .. MaxAttempts :
          workflow = [u |-> v, try |-> n, over |-> FALSE]
    BY DEF CheckInv, Frame
  <1>2. \A j : Backed(j) => Backed(j)'
    BY DEF Backed
  <1>3. \A k \in strays' : k \in strays \/ k = attempt
    OBVIOUS
  <1>4. row.gen <= row'.gen
    BY DEF CheckInv, Frame, RowsTyped
  <1>5. PICK k : k = attempt'
    OBVIOUS
  <1>6. ASSUME k \in Attempt, k.call \in {"claim", "ok"},
               workflow' \in [u : Update, try : 1 .. MaxAttempts, over : BOOLEAN]
        PROVE  Frame'
    <2>1. ~HasClaim(k)
      BY <1>6 DEF HasClaim, Calls
    <2>2. Locked'
      BY <1>5, <2>1 DEF CheckInv, Frame, Locked
    <2>3. Backed(k)'
      BY <1>6 DEF Backed
    <2> QED
      BY <1>2, <1>3, <1>5, <1>6, <2>2, <2>3
         DEF CheckInv, Frame, RowsTyped, RowBehindGitHub, RowUpdate
  <1>7. ASSUME TriesAgain PROVE CheckInv'
    <2>1. k = [u |-> v, call |-> "claim", id |-> 0]
      BY <1>1, <1>5, <1>7 DEF TriesAgain, Start
    <2>2. workflow' = [u |-> v, try |-> n + 1, over |-> FALSE] /\ n + 1 \in 1 .. MaxAttempts
      <3>1. n < MaxAttempts /\ workflow' = [workflow EXCEPT !.try = @ + 1]
        BY <1>1, <1>7 DEF TriesAgain
      <3>2. n + 1 \in 1 .. MaxAttempts
        BY CheckAssumption, <3>1
      <3> QED
        BY <1>1, <3>1, <3>2
    <2>3. Frame'
      BY <1>6, <2>1, <2>2 DEF Attempt, Calls
    <2>4. ASSUME Prompt' PROVE Quiet'
      <3>1. Prompt
        BY <2>4 DEF Prompt
      <3>2. RowOK' /\ (Shown' <=> Shown)
        BY <1>1, <2>2, <3>1 DEF CheckInv, Quiet, RowOK, Shown, RowUpdate
      <3>3. \A j : Calm(j) => Calm(j)'
        BY <1>1, <2>2 DEF Calm, Shown, Due, RowUpdate
      <3>4. Calm(k)'
        BY <1>1, <2>1, <2>2 DEF Calm, Earlier, Past
      <3>5. WorkflowOK'
        BY <1>5, <2>1, <2>2 DEF WorkflowOK
      <3> QED
        BY <1>3, <1>5, <3>1, <3>2, <3>3, <3>4, <3>5 DEF CheckInv, Quiet, Calm
    <2> QED
      BY <2>3, <2>4 DEF CheckInv, Quiet
  <1>8. ASSUME NEW w, GoesOn(w) PROVE CheckInv'
    <2>1. CASE w.gen \in Gens
      <3>1. w \in Update /\ Later(w, v)
        BY <1>1, <1>8, <2>1 DEF GoesOn
      <3>2. k = [u |-> w, call |-> "claim", id |-> 0]
        BY <1>1, <1>5, <1>8, <2>1 DEF GoesOn, Await, Start
      <3>3. workflow' = [u |-> w, try |-> 1, over |-> FALSE]
        BY <1>1, <1>8, <2>1 DEF GoesOn, Await
      <3>4. Frame'
        BY CheckAssumption, <1>6, <3>1, <3>2, <3>3 DEF Attempt, Calls
      <3>5. ASSUME Prompt' PROVE Quiet'
        <4>1. Prompt
          BY <3>5 DEF Prompt
        <4>2. row.gen > 0 => /\ RowUpdate \in Update /\ Earlier(RowUpdate, v)
          BY <1>1, <4>1 DEF CheckInv, Frame, RowsTyped, Quiet, RowOK, RowUpdate,
             Update, Gens
        <4>3. row.gen > 0 => Earlier(RowUpdate, w) /\ RowUpdate # w
          BY <3>1, <4>2, LaterIsBeyond
        <4>4. ~Shown' /\ RowOK'
          BY <3>3, <4>1, <4>3 DEF CheckInv, Quiet, RowOK, Shown, RowUpdate
        <4>5. ASSUME NEW j, Backed(j), Calm(j) PROVE Calm(j)'
          <5>1. j.u \in Update /\ Earlier(j.u, v)
            BY <1>1, <4>5 DEF Calm, Backed, Attempt
          <5>2. Earlier(j.u, w)
            BY <3>1, <5>1, LaterIsBeyond
          <5> QED
            BY <3>3, <4>4, <4>5, <5>2 DEF Calm, Due
        <4>6. Calm(k)'
          BY <3>2, <3>3 DEF Calm, Earlier, Past
        <4>7. WorkflowOK'
          BY <1>5, <3>2, <3>3 DEF WorkflowOK
        <4> QED
          BY <1>3, <1>5, <4>1, <4>4, <4>5, <4>6, <4>7 DEF CheckInv, Frame, Quiet, Calm
      <3> QED
        BY <3>4, <3>5 DEF CheckInv, Quiet
    <2>2. CASE w.gen \notin Gens
      <3>1. k = To(attempt, "ok") /\ workflow' = [u |-> v, try |-> n, over |-> TRUE]
        BY <1>1, <1>5, <1>8, <2>2 DEF GoesOn, Await
      <3>2. k \in Attempt /\ k.u = attempt.u /\ k.call = "ok"
        BY <3>1, Erred DEF CheckInv, Frame
      <3>3. Frame'
        BY <1>6, <3>1, <3>2
      <3>4. ASSUME Prompt' PROVE Quiet'
        <4>1. Prompt
          BY <3>4 DEF Prompt
        <4>2. RowOK' /\ (Shown' <=> Shown)
          BY <1>1, <3>1, <4>1 DEF CheckInv, Quiet, RowOK, Shown, RowUpdate
        <4>3. \A j : Calm(j) => Calm(j)'
          BY <1>1, <3>1 DEF Calm, Shown, Due, RowUpdate
        <4>4. Calm(k)'
          BY <1>1, <3>1, <3>2, <4>1 DEF CheckInv, Quiet, Calm, Past
        <4>5. WorkflowOK'
          BY <3>1 DEF WorkflowOK
        <4> QED
          BY <1>3, <1>5, <4>1, <4>2, <4>3, <4>4, <4>5 DEF CheckInv, Quiet, Calm
      <3> QED
        BY <3>3, <3>4 DEF CheckInv, Quiet
    <2> QED
      BY <2>1, <2>2
  <1> QED
    BY <1>4, <1>7, <1>8

\* The updates that follow u.
LEMMA NextUpdates ==
  ASSUME NEW u \in Update, u = workflow.u
  PROVE  /\ \A s \in Statuses : Rank(s) > Rank(u.status) =>
              (Await([u EXCEPT !.status = s]) => \E w : GoesOn(w))
         /\ Await([gen |-> u.gen + 1, status |-> "queued"]) => \E w : GoesOn(w)
  <1>1. PICK g \in 1 .. MaxRuns, t \in Statuses : u = [gen |-> g, status |-> t]
    BY DEF Update, Gens
  <1>2. ASSUME NEW s \in Statuses, Rank(s) > Rank(u.status),
               Await([u EXCEPT !.status = s])
        PROVE  \E w : GoesOn(w)
    <2>1. PICK w : w = [u EXCEPT !.status = s]
      OBVIOUS
    <2>2. w = [gen |-> g, status |-> s]
      BY <1>1, <2>1
    <2>3. GoesOn(w)
      BY <1>1, <1>2, <2>1, <2>2 DEF GoesOn, Later, Update, Gens
    <2> QED
      BY <2>3
  <1>3. ASSUME Await([gen |-> u.gen + 1, status |-> "queued"]) PROVE \E w : GoesOn(w)
    <2>1. PICK w : w = [gen |-> g + 1, status |-> "queued"]
      OBVIOUS
    <2>2. GoesOn(w)
      BY <1>1, <1>3, <2>1 DEF GoesOn, Later, Update, Gens, Statuses
    <2> QED
      BY <2>2
  <1> QED
    BY <1>2, <1>3

\* The retry policy: another attempt, or the update that follows the failure.
LEMMA RetryGoesOn ==
  ASSUME workflow.u \in Update, Retry
  PROVE  TriesAgain \/ \E w : GoesOn(w)
  <1>1. PICK u \in Update : u = workflow.u
    OBVIOUS
  <1>2. u.status \in Statuses
    BY DEF Update
  <1>3. CASE workflow.try < MaxAttempts
    BY <1>3 DEF Retry, TriesAgain
  <1>4. CASE ~(workflow.try < MaxAttempts)
    <2>1. Raises(u)
      BY <1>1, <1>4 DEF Retry
    <2>2. CASE u.status \in {"queued", "running"}
      <3>1. Await([u EXCEPT !.status = "failed"])
        BY <2>1, <2>2 DEF Raises
      <3>2. "failed" \in Statuses /\ Rank("failed") > Rank(u.status)
        BY <2>2, Ranks DEF Statuses
      <3> QED
        BY <1>1, <3>1, <3>2, NextUpdates
    <2>3. CASE u.status \notin {"queued", "running"}
      <3>1. Await([gen |-> u.gen + 1, status |-> "queued"])
        BY <2>1, <2>3 DEF Raises
      <3> QED
        BY <1>1, <3>1, NextUpdates
    <2> QED
      BY <2>2, <2>3
  <1> QED
    BY <1>3, <1>4

\* After an acknowledgement the workflow goes on.
LEMMA UpdateSucceedsGoesOn ==
  ASSUME workflow.u \in Update, UpdateSucceeds
  PROVE  \E w : GoesOn(w)
  <1>1. PICK u \in Update : u = workflow.u
    OBVIOUS
  <1>2. u.status \in Statuses
    BY DEF Update
  <1>3. CASE u.status = "queued"
    <2>1. Await([u EXCEPT !.status = "running"])
      BY <1>1, <1>3 DEF UpdateSucceeds
    <2>2. "running" \in Statuses /\ Rank("running") > Rank(u.status)
      BY <1>3, Ranks DEF Statuses
    <2> QED
      BY <1>1, <2>1, <2>2, NextUpdates
  <1>4. CASE u.status = "running"
    <2>1. PICK c \in {"done", "failed"} : Await([u EXCEPT !.status = c])
      BY <1>1, <1>4 DEF UpdateSucceeds
    <2>2. c \in Statuses /\ Rank(c) > Rank(u.status)
      BY <1>4, Ranks DEF Statuses
    <2> QED
      BY <1>1, <2>1, <2>2, NextUpdates
  <1>5. CASE u.status \notin {"queued", "running"}
    <2>1. Await([gen |-> u.gen + 1, status |-> "queued"])
      BY <1>1, <1>5 DEF UpdateSucceeds
    <2> QED
      BY <1>1, <2>1, NextUpdates
  <1> QED
    BY <1>3, <1>4, <1>5

-----------------------------------------------------------------------------
(* Theorems about the check *)

\* Every step keeps the invariant, brings the row forward while calls are prompt,
\* and never takes it back to an older run.
LEMMA StepKeeps ==
  ASSUME CheckInv, [CheckNext]_checkVars
  PROVE  CheckInv' /\ (Prompt' => Advances) /\ row.gen <= row'.gen
  <1>1. workflow.u \in Update /\ faults \in 0 .. MaxFaults /\ row.gen <= row.gen
    BY DEF CheckInv, Frame, RowsTyped
  <1>2. CASE MakeCall
    BY <1>2, MakeCallKeeps
  <1>3. CASE StrayCall
    BY <1>3, StrayCallKeeps
  <1>4. CASE CallFails
    BY <1>4, CallFailsKeeps
  <1>5. CASE Cancelled
    BY <1>1, <1>5, CancelledKeeps DEF Advances
  <1>6. CASE OrphanLands
    BY <1>6, OrphanLandsKeeps
  <1>7. CASE UpdateSucceeds
    <2>1. \E w : GoesOn(w)
      BY <1>1, <1>7, UpdateSucceedsGoesOn
    <2>2. ~workflow.over /\ UNCHANGED <<row, remote, accepted, strays, orphans, faults, late>>
      BY <1>7 DEF UpdateSucceeds
    <2> QED
      BY <1>1, <2>1, <2>2, WorkflowMoves DEF Advances
  <1>8. CASE UpdateFails
    <2>1. TriesAgain \/ \E w : GoesOn(w)
      BY <1>1, <1>8, RetryGoesOn DEF UpdateFails
    <2>2. ~workflow.over /\ UNCHANGED <<row, remote, accepted, strays, orphans, faults, late>>
      BY <1>8 DEF UpdateFails
    <2> QED
      BY <1>1, <2>1, <2>2, WorkflowMoves DEF Advances
  <1>9. CASE GiveUp
    <2>1. TriesAgain \/ \E w : GoesOn(w)
      BY <1>1, <1>9, RetryGoesOn DEF GiveUp
    <2>2. /\ ~workflow.over /\ UNCHANGED <<row, remote, accepted, orphans, late>>
          /\ strays' = strays \cup {attempt} /\ faults' \in 0 .. MaxFaults
      BY <1>1, <1>9, FaultCounted DEF GiveUp
    <2> QED
      BY <2>1, <2>2, WorkflowMoves DEF Advances
  <1>10. CASE UNCHANGED checkVars
    BY <1>1, <1>10
       DEF checkVars, CheckInv, Frame, Quiet, RowsTyped, Locked, Backed, Calm, RowOK,
           WorkflowOK, Shown, Due, Advances, Prompt, RowBehindGitHub,
           RowUpdate
  <1> QED
    BY <1>2, <1>3, <1>4, <1>5, <1>6, <1>7, <1>8, <1>9, <1>10 DEF CheckNext

\* The initial state satisfies the invariant.
LEMMA CheckStarts ==
  ASSUME CheckInit
  PROVE  CheckInv
  <1>1. PICK v : v = [gen |-> 1, status |-> "queued"]
    OBVIOUS
  <1>2. v \in Update
    BY CheckAssumption, <1>1 DEF Update, Gens, Statuses
  <1>3. /\ workflow = [u |-> v, try |-> 1, over |-> FALSE]
        /\ attempt = [u |-> v, call |-> "claim", id |-> 0]
        /\ row = [gen |-> 0, status |-> "queued", id |-> 0]
        /\ remote = <<>> /\ accepted = {} /\ strays = {} /\ orphans = {}
        /\ faults = 0 /\ late = 0
    BY <1>1 DEF CheckInit, Start, NoRow
  <1>4. RowsTyped /\ Len(remote) = 0
    BY CheckAssumption, <1>3, EmptySeq DEF RowsTyped, Statuses
  <1>5. Backed(attempt)
    BY <1>2, <1>3 DEF Backed, Attempt, Calls
  <1>6. Frame
    BY CheckAssumption, <1>2, <1>3, <1>4, <1>5
       DEF Frame, Locked, RowBehindGitHub
  <1>7. Quiet
    BY <1>3, <1>4 DEF Quiet, RowOK, WorkflowOK, Calm, Shown, Earlier, Past
  <1> QED
    BY <1>6, <1>7 DEF CheckInv

\* The strengthening is an invariant of the publication of a check.
THEOREM CheckInvariant ==
  CheckSpec => []CheckInv
  <1>1. CheckInit => CheckInv
    BY CheckStarts
  <1>2. CheckInv /\ [CheckNext]_checkVars => CheckInv'
    BY StepKeeps
  <1> QED
    BY <1>1, <1>2, PTL DEF CheckSpec

\* The state keeps its shape: in particular the session lock of update_check has
\* one holder among the attempt and its strays.
THEOREM CheckTypeCorrect ==
  CheckSpec => []CheckTypeOK
  <1>1. CheckInv => CheckTypeOK
    BY DEF CheckInv, Frame, RowsTyped, Locked, Backed, CheckTypeOK
  <1> QED
    BY <1>1, CheckInvariant, PTL

\* As long as no call takes effect after its caller has gone, any number of runs,
\* retries and strays of update_check leave one check for a head on GitHub.
THEOREM OneCheckPerHead ==
  CheckSpec => []OneCheck
  <1>1. CheckInv => OneCheck
    BY DEF CheckInv, Quiet, RowOK, OneCheck
  <1> QED
    BY <1>1, CheckInvariant, PTL

\* The row of github_check_runs never shows an update GitHub has not accepted,
\* however late calls take effect.
THEOREM NoGhostRow ==
  CheckSpec => []RowBehindGitHub
  <1>1. CheckInv => RowBehindGitHub
    BY DEF CheckInv, Frame
  <1> QED
    BY <1>1, CheckInvariant, PTL

\* No call, however late, gives the row back to an older run.
THEOREM NewestRunKeepsRow ==
  CheckSpec => NewerRunWins
  <1>1. CheckInv /\ [CheckNext]_checkVars => [row.gen <= row'.gen]_checkVars
    BY StepKeeps
  <1> QED
    BY <1>1, CheckInvariant, PTL DEF CheckSpec, NewerRunWins

\* While calls are prompt, row and check show the update whose activity succeeds.
THEOREM AcknowledgedIsShown ==
  CheckSpec => AckedIsShown
  <1> DEFINE A == UpdateSucceeds /\ Prompt =>
                    /\ row.id # 0 /\ RowUpdate = workflow.u
                    /\ remote[row.id] = workflow.u
  <1>1. CheckInv => A
    BY DEF CheckInv, Quiet, RowOK, WorkflowOK, Shown, UpdateSucceeds
  <1>2. CheckInv /\ [CheckNext]_checkVars => [A]_checkVars
    BY <1>1
  <1> QED
    BY <1>2, CheckInvariant, PTL DEF CheckSpec, AckedIsShown

\* What PublishCheck of the intake takes for granted: while calls are prompt a
\* newer run takes the row over as queued, and the run in the row only advances.
THEOREM RowOnlyAdvances ==
  CheckSpec => [][Prompt' => Advances]_checkVars
  <1>1. CheckInv /\ [CheckNext]_checkVars => [Prompt' => Advances]_checkVars
    BY StepKeeps
  <1> QED
    BY <1>1, CheckInvariant, PTL DEF CheckSpec
=============================================================================
