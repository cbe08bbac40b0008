---------------------------- MODULE WebhookIntake ----------------------------
(***************************************************************************)
(* The intake of webhook deliveries about ONE pull request: pull_request   *)
(* events (webhooks/github.py) and reruns of its check (webhooks/          *)
(* checks.py).  GitHub sends a delivery for each event; it arrives late,   *)
(* out of order, repeatedly or never, and carries the time of the event in *)
(* whole seconds, so that events of one second have no order.              *)
(*                                                                         *)
(* A delivery is one transaction under the installation lock: one step.    *)
(***************************************************************************)
EXTENDS Integers, Sequences, FiniteSets

CONSTANTS
  Heads,          \* commits, ordered as their shas are
  MaxTime,        \* bound: seconds in which events happen
  MaxDeliveries   \* bound: deliveries GitHub sends

ASSUME IntakeAssumption ==
  /\ Heads \subseteq Nat
  /\ MaxTime \in Nat \ {0}
  /\ MaxDeliveries \in Nat \ {0}

VARIABLES
  github,     \* the pull request on GitHub and the time of its last event
  sent,       \* sent[d]: the delivery with id d
  received,   \* ids of the deliveries in the tables of deliveries
  applied,    \* history: those that found their repository in the inventory
  known,      \* the repository is in the inventory
  admitted,   \* admitted_policy(...) returns a policy
  pr,         \* the pull_requests row; time 0 when there is none
  runs,       \* runs[g]: the run of generation g, and the delivery that asked for it
  checks      \* checks[h]: the github_check_runs row of head h

vars == <<github, sent, received, applied, known, admitted, pr, runs, checks>>

-----------------------------------------------------------------------------
(* Values *)

Kinds == {"opened", "synchronize", "closed", "reopened", "rerun"}

Delivery == [kind : Kinds, before : Heads, head : Heads, time : 1 .. MaxTime]

Deliveries == 1 .. Len(sent)

\* The state a delivery gives the pull request.
Opens(e) == e.kind # "closed"

-----------------------------------------------------------------------------
(* _resolve_head_sha *)

\* The synchronize deliveries of the same second, d and those in the table.
Links(d) ==
  {i \in received \cup {d} : sent[i].kind = "synchronize" /\ sent[i].time = sent[d].time}

\* The chains they make from the head of d, visiting no head twice.
Chains(d) ==
  {c \in UNION {[1 .. n -> Heads] : n \in 1 .. Cardinality(Links(d)) + 1} :
     /\ c[1] = sent[d].head
     /\ \A i, j \in DOMAIN c : c[i] = c[j] => i = j
     /\ \A i \in 1 .. Len(c) - 1 :
          \E l \in Links(d) : sent[l].before = c[i] /\ sent[l].head = c[i + 1]}

\* Faulty variant: the head of the payload.
ResolvesToPayload(d, h) == h = sent[d].head

\* h is the end of the longest chain from the head of delivery d, the largest
\* sha of several.  Only a synchronize delivery is resolved.
Resolves(d, h) ==
  IF sent[d].kind # "synchronize" THEN h = sent[d].head
  ELSE \E c \in Chains(d) :
         /\ h = c[Len(c)]
         /\ \A o \in Chains(d) : Len(o) < Len(c) \/ (Len(o) = Len(c) /\ o[Len(o)] <= h)

-----------------------------------------------------------------------------
(* The transactions of the intake *)

\* Faulty variant: at equal times the last delivery wins.
CurrentIfNotOlder(e, h) == pr.time <= e.time

\* The WHERE of the upsert in _upsert_pull_request.
Current(e, h) ==
  \/ pr.time < e.time
  \/ pr.time = e.time /\ ~pr.open /\ Opens(e)
  \/ pr.time = e.time /\ pr.open /\ e.kind = "synchronize" /\ pr.head # h

\* Faulty variant: any run of the pull request will do.
CreateRunForPullRequest(d, h) ==
  runs' = IF sent[d].kind # "reopened" /\ runs # <<>>
          THEN runs
          ELSE Append(runs, [head |-> h, by |-> d])

\* _create_run: the next generation, unless the head has a run and no new one
\* is asked for.
CreateRun(d, h) ==
  runs' = IF sent[d].kind # "reopened" /\ \E g \in DOMAIN runs : runs[g].head = h
          THEN runs
          ELSE Append(runs, [head |-> h, by |-> d])

ApplyDelivery(d, h) ==
  IF Current(sent[d], h)
  THEN /\ pr' = [head |-> h, open |-> Opens(sent[d]), time |-> sent[d].time]
       /\ IF admitted /\ Opens(sent[d]) THEN CreateRun(d, h) ELSE UNCHANGED runs
  ELSE UNCHANGED <<pr, runs>>

\* receive_github_webhook.  A delivery that is in the table changes nothing;
\* one for an unknown repository is only recorded.
ReceivePullRequest(d) ==
  /\ sent[d].kind # "rerun" /\ d \notin received
  /\ received' = received \cup {d}
  /\ IF known
     THEN /\ applied' = applied \cup {d}
          /\ \E h \in Heads : Resolves(d, h) /\ ApplyDelivery(d, h)
     ELSE UNCHANGED <<applied, pr, runs>>
  /\ UNCHANGED <<github, sent, known, admitted, checks>>

\* Faulty variant: a rerun of an older run of the head.
RerunnableAnyRun(h) ==
  /\ checks[h].completed
  /\ admitted
  /\ pr.time > 0 /\ pr.open /\ pr.head = h

\* _locked_rerun_target and the condition that follows it: the check is
\* completed, its run is the newest one, and its head the current one.
Rerunnable(h) ==
  /\ checks[h].completed
  /\ admitted
  /\ pr.time > 0 /\ pr.open /\ pr.head = h
  /\ checks[h].gen = Len(runs)

\* receive_check_rerun
ReceiveRerun(d) ==
  /\ sent[d].kind = "rerun" /\ d \notin received
  /\ received' = received \cup {d}
  /\ applied' = applied \cup {d}
  /\ runs' = IF Rerunnable(sent[d].head)
             THEN Append(runs, [head |-> sent[d].head, by |-> d]) ELSE runs
  /\ UNCHANGED <<github, sent, known, admitted, pr, checks>>

-----------------------------------------------------------------------------
(* What the intake lives with *)

\* An event on GitHub, in the second of the one before it or in a later one.
Event(kind, h, t) ==
  /\ Len(sent) < MaxDeliveries
  /\ sent' = Append(sent, [kind |-> kind, before |-> github.head, head |-> h, time |-> t])
  /\ UNCHANGED <<received, applied, known, admitted, pr, runs, checks>>

Times == {github.time, github.time + 1} \cap (1 .. MaxTime)

Push(h, t) ==
  /\ github.open /\ h # github.head
  /\ github' = [github EXCEPT !.head = h, !.time = t]
  /\ Event("synchronize", h, t)

Close(t) ==
  /\ github.open
  /\ github' = [github EXCEPT !.open = FALSE, !.time = t]
  /\ Event("closed", github.head, t)

\* Of the pushes to a closed pull request GitHub tells when it is reopened.
Reopen(h, t) ==
  /\ ~github.open
  /\ github' = [head |-> h, open |-> TRUE, time |-> t]
  /\ Event("reopened", h, t)

\* A completed check on GitHub has a button to run the review again; GitHub is
\* told that a check is completed before the row is.
RequestRerun(h) ==
  /\ checks[h].gen > 0
  /\ UNCHANGED github
  /\ Event("rerun", h, github.time)

\* The synchronization of the inventory, and the edits of the policy.
AddRepository ==
  /\ ~known
  /\ known' = TRUE
  /\ UNCHANGED <<github, sent, received, applied, admitted, pr, runs, checks>>

ChangePolicy ==
  /\ known
  /\ admitted' = ~admitted
  /\ UNCHANGED <<github, sent, received, applied, known, pr, runs, checks>>

\* The worker publishes the check of run g (CheckRun says how): a newer run
\* takes over the row of its head, and completes it when it ends.
PublishCheck(g) ==
  LET h == runs[g].head IN
  /\ \/ checks[h].gen < g /\ checks' = [checks EXCEPT ![h] = [gen |-> g, completed |-> FALSE]]
     \/ checks[h].gen = g /\ checks' = [checks EXCEPT ![h].completed = TRUE]
  /\ UNCHANGED <<github, sent, received, applied, known, admitted, pr, runs>>

-----------------------------------------------------------------------------
(* Specification *)

Init ==
  /\ \E h \in Heads :
       /\ github = [head |-> h, open |-> TRUE, time |-> 1]
       /\ sent = <<[kind |-> "opened", before |-> h, head |-> h, time |-> 1]>>
       /\ pr = [head |-> h, open |-> FALSE, time |-> 0]
  /\ received = {} /\ applied = {}
  /\ known \in BOOLEAN
  /\ admitted = known
  /\ runs = <<>>
  /\ checks = [h \in Heads |-> [gen |-> 0, completed |-> FALSE]]

GitHub ==
  \/ \E h \in Heads, t \in Times : Push(h, t) \/ Reopen(h, t)
  \/ \E t \in Times : Close(t)
  \/ \E h \in Heads : RequestRerun(h)

Intake == \E d \in Deliveries : ReceivePullRequest(d) \/ ReceiveRerun(d)

Environment ==
  \/ AddRepository \/ ChangePolicy
  \/ \E g \in DOMAIN runs : PublishCheck(g)

Next == GitHub \/ Intake \/ Environment

Spec == Init /\ [][Next]_vars

-----------------------------------------------------------------------------
(* Properties *)

\* The shape of the rows; only what GitHub sent is received, and a check is
\* that of a run of its head.
TypeOK ==
  /\ github \in [head : Heads, open : BOOLEAN, time : 1 .. MaxTime]
  /\ sent \in Seq(Delivery)
  /\ applied \subseteq received /\ received \subseteq Deliveries
  /\ {known, admitted} \subseteq BOOLEAN
  /\ pr \in [head : Heads, open : BOOLEAN, time : 0 .. MaxTime]
  /\ runs \in Seq([head : Heads, by : Nat])
  /\ checks \in [Heads -> [gen : Nat, completed : BOOLEAN]]
  /\ \A h \in Heads : checks[h].gen > 0 =>
       checks[h].gen \in DOMAIN runs /\ runs[checks[h].gen].head = h

Events == {d \in applied : sent[d].kind # "rerun"}

\* The order of the deliveries does not matter for time and state: the row has
\* those of the latest second received, and is open if anything in that second
\* opened it (docs/architecture.md: open wins).
OpenWins ==
  /\ \A d \in Events : sent[d].time <= pr.time
  /\ pr.time > 0 => \E d \in Events : sent[d].time = pr.time
  /\ pr.time > 0 => (pr.open <=> \E d \in Events : sent[d].time = pr.time /\ Opens(sent[d]))

LastSecond == {d \in Deliveries : sent[d].kind # "rerun" /\ sent[d].time = github.time}

\* In the last second no push returned to a head that this second had seen, and
\* the pull request was not reopened.
Unambiguous ==
  /\ \A d \in LastSecond : sent[d].kind # "reopened"
  /\ \A i, j \in LastSecond : i < j /\ sent[j].kind = "synchronize"
       => sent[j].head \notin {sent[i].before, sent[i].head}

\* Once what GitHub sent about the last second has arrived, in whatever order
\* and with whatever is missing before it, the row has GitHub's head.
HeadConverges == LastSecond \subseteq applied /\ Unambiguous => pr.head = github.head

\* No two runs are owed to the same delivery, however often it arrives, and a
\* head is reviewed again only because somebody reopened or asked for it.
EachDeliveryOnce ==
  \A f, g \in DOMAIN runs : f < g =>
    /\ runs[f].by # runs[g].by
    /\ runs[f].head = runs[g].head => sent[runs[g].by].kind \in {"reopened", "rerun"}

\* A run is created for the head in the row and an open pull request; a rerun
\* repeats the newest run, never an older run of a head that has come back.
RunsFollowHead ==
  [][runs' # runs =>
       LET g == Len(runs') IN
       /\ pr'.open /\ runs'[g].head = pr'.head
       /\ sent[runs'[g].by].kind = "rerun" => runs[g - 1].head = pr.head]_vars

\* A delivery that moves the row to an open head while the policy admits
\* reviews leaves that head with a run.
AdmittedHeadHasRun ==
  [][admitted /\ pr' # pr /\ pr'.open => \E g \in DOMAIN runs' : runs'[g].head = pr'.head]_vars
=============================================================================
