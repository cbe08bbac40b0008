----------------------- MODULE SandboxVerificationProofs -----------------------
(***************************************************************************)
(* The safety properties of SandboxVerification for any configuration, any *)
(* number of attempts and failures.                                        *)
(*                                                                         *)
(* An attempt that is not bad has, for every selected check it is past, a  *)
(* command that ended with status 0 or a lost call, and no container; a    *)
(* receipt is written from there and nothing it rests on changes later.    *)
(*                                                                         *)
(* The last part is about the plan: the rows _path_matches computes say    *)
(* which prefixes of a path the first parts of a pattern stand for.        *)
(***************************************************************************)
EXTENDS SandboxVerification, FiniteSetTheorems, TLAPS

-----------------------------------------------------------------------------
(* The inductive invariant *)

Untouched == {"absent", "begin", "next", "stage", "create"}
InContainer == {"start", "attach", "kill", "inspect", "export"}
Working == {"next", "stage", "proof"} \cup InDocker
Finished == {"mark", "passed", "failed", "retry", "cancelled", "dead"}
Places == {"absent", "begin", "record"} \cup Working \cup Finished

Calling == {"none", "snapshot", "setup", "collect", "kill", "tell", "wait", "over"}
Supervising == {"none", "waiting", "told", "watching", "status", "gone", "dead"}
Outcomes == {"none", "passed", "refused", "interrupted"}
Intents == {"none", "error", "verdict", "interrupted", "withdrawn"}
Statuses == {"none", "zero", "nonzero"}

Attempt == [pc : Places, check : Nat \ {0}, bad : BOOLEAN,
            stop : {"no", "error", "cleanup", "cancelled"}, proof : Outcomes,
            passed : SUBSET Nat, lost : SUBSET Nat]

Boxes == {"none", "created", "running", "zero", "nonzero", "late"}

Gate == [pc : Calling, sup : Supervising, tree : BOOLEAN, status : Statuses, told : BOOLEAN,
         then : Intents, failed : BOOLEAN, result : Outcomes]

TypeOK ==
  /\ head \in Heads
  /\ at \in [Attempts -> Attempt]
  /\ box \in [Attempts -> Boxes]
  /\ late \subseteq Attempts
  /\ gate \in [Attempts -> Gate]
  /\ receipt \in [by : Attempts \cup {0}, passed : BOOLEAN]
  /\ run \in {"verifying", "awaiting", "inactive"}
  /\ server \in [waits : Attempts \cup {0}, verdict : {"none", "passed", "failed"}]
  /\ faults \in Nat

\* A gate that is over, or was never started, has no process.
GateOK(g) ==
  /\ g.pc \in {"none", "snapshot"} => g.sup = "none"
  /\ g.pc = "over" => g.sup \in {"none", "gone"}
  /\ g.sup \in {"none", "gone"} => ~g.tree

\* The container b of an attempt at k, which the daemon may still create if l.
BoxOK(k, b, l) ==
  /\ k.pc \in Untouched => k.stop = "no" /\ b = "none"
  /\ k.pc \in InContainer => k.stop = "no"
  /\ k.pc = "confirm" => b \in {"none", "late"}
  /\ k.pc = "proof" => ~l /\ b = "none"
  /\ l \/ b = "late" => k.stop # "no"
  /\ k.pc \in (Finished \ {"dead"}) \cup {"record"} /\ b # "none" => k.stop = "cleanup" \/ b = "late"
  /\ k.stop \in {"error", "cleanup"} => k.bad
  /\ k.stop = "cleanup" => k.pc \in Finished \cup {"record"}

\* What the checks so far came to.
Good(k) == k.passed \cup k.lost

CheckOK(k, b) ==
  /\ k.pc \in {"absent", "begin"} => k.check = 1
  /\ k.pc \in Working =>
       /\ Plan.error = "none"
       /\ ~k.bad => \A i \in Selected : i < k.check => i \in Good(k)
       /\ k.pc = "proof" => ~k.bad /\ k.check > Len(Plan.checks)
       /\ ~k.bad /\ (\/ k.pc = "export" \/ (k.pc = "inspect" /\ b # "nonzero")
                     \/ (k.pc \in {"rm", "confirm"} /\ k.stop = "no"))
          => k.check \in Good(k)

\* What a passed receipt rests on.
Evidence(k, b, l, g) ==
  /\ Plan.error = "none" /\ Plan.checks # <<>> /\ Selected \subseteq Good(k)
  /\ k.proof = "passed" /\ ~k.bad /\ b = "none" /\ ~l /\ g.pc = "over"

RecordOK(k, b, l, g) == k.pc = "record" /\ ~k.bad => Evidence(k, b, l, g)

\* How an attempt may end.
OutcomeOK(k) ==
  /\ k.pc \in {"mark", "passed"} => receipt.passed
  /\ k.pc = "passed" => run # "verifying"
  /\ k.pc = "failed" => receipt.by # 0 /\ ~receipt.passed

AttemptOK(k, b, l, g) ==
  BoxOK(k, b, l) /\ CheckOK(k, b) /\ RecordOK(k, b, l, g) /\ OutcomeOK(k) /\ GateOK(g)

ReceiptOK ==
  receipt.passed =>
    LET a == receipt.by IN
    a \in Attempts /\ at[a].pc \in Finished /\ Evidence(at[a], box[a], a \in late, gate[a])

VerdictOK ==
  /\ run = "awaiting" => receipt.passed
  /\ server.verdict = "passed" => receipt.passed /\ run # "verifying"

IInv ==
  /\ TypeOK /\ ReceiptOK /\ VerdictOK
  /\ \A a \in Attempts : AttemptOK(at[a], box[a], a \in late, gate[a])

-----------------------------------------------------------------------------
(* The plan *)

\* A refused plan has no checks, another one at least one.
LEMMA PlanShape ==
  ASSUME TypeOK
  PROVE  /\ Len(Plan.checks) \in Nat /\ DOMAIN Plan.checks = 1 .. Len(Plan.checks)
         /\ Plan.error = "none" => Plan.checks # <<>>
<1> DEFINE given == head.checks
           planned == [i \in DOMAIN given |-> Planned(given[i], head.changed)]
<1>1. given \in Seq(GivenCheck)
  BY SandboxAssumption DEF TypeOK, ReviewedHead
<1>2. Plan \in {Refused("missing"), Refused("invalid"), [error |-> "none", checks |-> planned]}
  BY DEF Plan, LoadPlan
<1>3. Plan.error = "none" => given # <<>> /\ Plan.checks = planned
  BY DEF Plan, LoadPlan, Refused
<1>4. Len(given) \in Nat /\ DOMAIN given = 1 .. Len(given)
  BY <1>1
<1>5. DOMAIN planned = 1 .. Len(given)
  BY <1>4
<1> HIDE DEF given
<1>6. Len(planned) = Len(given)
  BY <1>4, <1>5
<1>7. planned = <<>> => given = <<>>
  BY <1>1, <1>4, <1>5
<1>8. QED
  BY <1>2, <1>3, <1>4, <1>5, <1>6, <1>7 DEF Refused

\* The selected checks are among those of the plan.
LEMMA SelectedChecks ==
  ASSUME TypeOK
  PROVE  /\ Selected \subseteq Nat \ {0} /\ Len(Plan.checks) \in Nat
         /\ \A i \in Selected : i <= Len(Plan.checks)
         /\ \A i \in Nat \ {0} :
              i <= Len(Plan.checks) => (i \in Selected <=> Plan.checks[i].selected)
<1>1. Len(Plan.checks) \in Nat /\ DOMAIN Plan.checks = 1 .. Len(Plan.checks)
  BY PlanShape
<1>2. QED
  BY <1>1 DEF Selected

\* The plan is that of the head, which never changes.
LEMMA PlanKept == ASSUME head' = head PROVE Plan' = Plan /\ Selected' = Selected
  BY DEF Plan, Selected

-----------------------------------------------------------------------------
(* Where an attempt may be *)

\* The places an attempt may be at, and the outcomes of the gate.
LEMMA PlaceValues ==
  /\ {"absent", "begin", "next", "stage", "proof", "create", "start", "attach", "kill", "inspect",
      "export", "rm", "confirm", "record", "mark", "passed", "failed", "retry", "cancelled", "dead"}
       \subseteq Places
  /\ {"none", "passed", "refused", "interrupted"} \subseteq Outcomes
  BY DEF Places, Working, InDocker, Finished, Outcomes

-----------------------------------------------------------------------------
(* Steps of one attempt *)

\* A step of one attempt that keeps what a receipt rests on keeps the invariant.
LEMMA OneMoves ==
  ASSUME IInv, NEW a \in Attempts, NEW k \in Attempt, NEW b \in Boxes, NEW l \in BOOLEAN,
         NEW g \in Gate,
         at' = [at EXCEPT ![a] = k], box' = [box EXCEPT ![a] = b], gate' = [gate EXCEPT ![a] = g],
         late' \subseteq Attempts, l <=> a \in late',
         \A c \in Attempts \ {a} : c \in late' <=> c \in late,
         UNCHANGED <<head, receipt, run, server>>, faults' \in Nat,
         at[a].pc \in Finished /\ Evidence(at[a], box[a], a \in late, gate[a])
           => k.pc \in Finished /\ Evidence(k, b, l, g),
         BoxOK(k, b, l), CheckOK(k, b), RecordOK(k, b, l, g), OutcomeOK(k), GateOK(g)
  PROVE  IInv'
<1>1. Plan' = Plan /\ Selected' = Selected
  BY PlanKept
<1>2. TypeOK'
  BY DEF IInv, TypeOK
<1>3. at'[a] = k /\ box'[a] = b /\ gate'[a] = g
  BY DEF IInv, TypeOK
<1>4. ASSUME NEW c \in Attempts, c # a
      PROVE  /\ at'[c] = at[c] /\ box'[c] = box[c] /\ gate'[c] = gate[c]
             /\ (c \in late') = (c \in late)
  BY <1>4 DEF IInv, TypeOK
<1>5. ReceiptOK'
  <2> SUFFICES ASSUME receipt.passed
               PROVE  /\ receipt.by \in Attempts
                      /\ at'[receipt.by].pc \in Finished
                      /\ Evidence(at[receipt.by], box[receipt.by], receipt.by \in late,
                                  gate[receipt.by])'
    BY DEF ReceiptOK
  <2>1. /\ receipt.by \in Attempts /\ at[receipt.by].pc \in Finished
        /\ Evidence(at[receipt.by], box[receipt.by], receipt.by \in late, gate[receipt.by])
    BY DEF IInv, ReceiptOK
  <2>2. CASE receipt.by = a
    <3>1. k.pc \in Finished /\ Evidence(k, b, l, g)
      BY <2>1, <2>2
    <3>2. QED
      BY <1>1, <1>3, <2>2, <3>1 DEF Evidence, Good
  <2>3. CASE receipt.by # a
    BY <1>1, <1>4, <2>1, <2>3 DEF Evidence, Good
  <2>4. QED
    BY <2>2, <2>3
<1>6. VerdictOK'
  BY DEF IInv, VerdictOK
<1>7. AttemptOK(at[a], box[a], a \in late, gate[a])'
  <2>1. BoxOK(at[a], box[a], a \in late)'
    BY <1>3 DEF BoxOK
  <2>2. CheckOK(at[a], box[a])'
    BY <1>1, <1>3 DEF CheckOK, Good
  <2>3. RecordOK(at[a], box[a], a \in late, gate[a])'
    BY <1>1, <1>3 DEF RecordOK, Evidence, Good
  <2>4. OutcomeOK(at[a])' /\ GateOK(gate[a])'
    BY <1>3 DEF OutcomeOK, GateOK
  <2>5. QED
    BY <2>1, <2>2, <2>3, <2>4 DEF AttemptOK
<1>8. ASSUME NEW c \in Attempts, c # a PROVE AttemptOK(at[c], box[c], c \in late, gate[c])'
  <2>1. AttemptOK(at[c], box[c], c \in late, gate[c])
    BY DEF IInv
  <2>2. BoxOK(at[c], box[c], c \in late)'
    BY <1>4, <1>8, <2>1 DEF AttemptOK, BoxOK
  <2>3. CheckOK(at[c], box[c])'
    BY <1>1, <1>4, <1>8, <2>1 DEF AttemptOK, CheckOK, Good
  <2>4. RecordOK(at[c], box[c], c \in late, gate[c])'
    BY <1>1, <1>4, <1>8, <2>1 DEF AttemptOK, RecordOK, Evidence, Good
  <2>5. OutcomeOK(at[c])' /\ GateOK(gate[c])'
    BY <1>4, <1>8, <2>1 DEF AttemptOK, OutcomeOK, GateOK
  <2>6. QED
    BY <2>2, <2>3, <2>4, <2>5 DEF AttemptOK
<1>9. QED
  BY <1>2, <1>5, <1>6, <1>7, <1>8 DEF IInv

\* The same for a step that only moves the attempt: container and gate stay as they are.
LEMMA OneGoes ==
  ASSUME IInv, NEW a \in Attempts, NEW k \in Attempt, at' = [at EXCEPT ![a] = k],
         UNCHANGED <<head, box, late, gate, receipt, run, server>>, faults' \in Nat,
         at[a].pc \in Finished =>
           /\ k.pc \in Finished
           /\ <<k.bad, k.proof, k.passed, k.lost>> =
                <<at[a].bad, at[a].proof, at[a].passed, at[a].lost>>,
         AttemptOK(k, box[a], a \in late, gate[a])
  PROVE  IInv'
<1> PICK b \in Boxes : b = box[a]
  BY DEF IInv, TypeOK
<1> PICK g \in Gate : g = gate[a]
  BY DEF IInv, TypeOK
<1> PICK l \in BOOLEAN : l <=> a \in late
  <2>1. CASE a \in late
    BY <2>1
  <2>2. CASE a \notin late
    BY <2>2
  <2>3. QED
    BY <2>1, <2>2
<1>1. box' = [box EXCEPT ![a] = b] /\ gate' = [gate EXCEPT ![a] = g] /\ late' \subseteq Attempts
  BY DEF IInv, TypeOK
<1>2. BoxOK(k, b, l) /\ CheckOK(k, b) /\ RecordOK(k, b, l, g) /\ OutcomeOK(k) /\ GateOK(g)
  BY DEF AttemptOK, BoxOK, CheckOK, RecordOK, Evidence
<1>3. at[a].pc \in Finished /\ Evidence(at[a], box[a], a \in late, gate[a])
        => k.pc \in Finished /\ Evidence(k, b, l, g)
  BY DEF Evidence, Good
<1>4. QED
  BY <1>1, <1>2, <1>3, OneMoves

\* What the invariant says of one attempt.
LEMMA OfOne ==
  ASSUME IInv, NEW a \in Attempts
  PROVE  /\ at[a] \in Attempt /\ box[a] \in Boxes /\ gate[a] \in Gate /\ faults \in Nat
         /\ AttemptOK(at[a], box[a], a \in late, gate[a])
  BY DEF IInv, TypeOK

\* Nothing exists before the staged copy does.
LEMMA StageKeeps ==
  ASSUME IInv, NEW a \in Attempts, Stage(a)
  PROVE  IInv'
<1> PICK k \in Attempt : k = at[a]
  BY OfOne
<1> DEFINE n == [k EXCEPT !.pc = "create"]
<1>1. k.pc = "stage" /\ AttemptOK(k, box[a], a \in late, gate[a])
  BY OfOne DEF Stage, At
<1>2. n \in Attempt
  BY PlaceValues DEF Attempt
<1>3. at' = [at EXCEPT ![a] = n]
  BY DEF Stage, To
<1>4. UNCHANGED <<head, box, late, gate, receipt, run, server>> /\ faults' \in Nat
  BY OfOne DEF Stage, Quiet, Steady
<1>5. AttemptOK(n, box[a], a \in late, gate[a])
  BY <1>1 DEF Attempt, AttemptOK, BoxOK, CheckOK, Good, RecordOK, OutcomeOK, Untouched, InContainer,
     Working, Finished, InDocker
<1>6. k.pc \notin Finished
  BY <1>1 DEF Finished
<1>7. QED
  BY <1>2, <1>3, <1>4, <1>5, <1>6, OneGoes

\* The check that is left out is not selected; past the last one all of them are good.
LEMMA NextCheckKeeps ==
  ASSUME IInv, NEW a \in Attempts, NextCheck(a)
  PROVE  IInv'
<1> PICK k \in Attempt : k = at[a]
  BY OfOne
<1>1. k.pc = "next" /\ AttemptOK(k, box[a], a \in late, gate[a])
  BY OfOne DEF NextCheck, At
<1>2. UNCHANGED <<head, box, late, gate, receipt, run, server>> /\ faults' \in Nat
  BY OfOne DEF NextCheck, Quiet, Steady
<1>3. k.check \in Nat \ {0} /\ Plan.error = "none" /\ k.pc \notin Finished
  BY <1>1 DEF Attempt, AttemptOK, CheckOK, Working, Finished
<1>4. /\ Selected \subseteq Nat \ {0} /\ Len(Plan.checks) \in Nat
      /\ \A i \in Selected : i <= Len(Plan.checks)
      /\ \A i \in Nat \ {0} : i <= Len(Plan.checks) => (i \in Selected <=> Plan.checks[i].selected)
  BY SelectedChecks DEF IInv
<1>5. CASE k.check > Len(Plan.checks)
  <2> PICK pc \in {"record", "proof"} : pc = IF k.bad THEN "record" ELSE "proof"
    OBVIOUS
  <2> DEFINE n == [k EXCEPT !.pc = pc]
  <2>1. n \in Attempt
    BY PlaceValues DEF Attempt
  <2>2. at' = [at EXCEPT ![a] = n]
    BY <1>5 DEF NextCheck, To
  <2>3. AttemptOK(n, box[a], a \in late, gate[a])
    BY <1>1, <1>3, <1>5 DEF Attempt, AttemptOK, BoxOK, CheckOK, Good, RecordOK, OutcomeOK, Untouched,
       InContainer, Working, Finished, InDocker
  <2>4. QED
    BY <1>2, <1>3, <2>1, <2>2, <2>3, OneGoes
<1>6. CASE k.check <= Len(Plan.checks) /\ Check(a).selected
  <2> DEFINE n == [k EXCEPT !.pc = "stage"]
  <2>1. n \in Attempt
    BY PlaceValues DEF Attempt
  <2>2. at' = [at EXCEPT ![a] = n]
    BY <1>3, <1>4, <1>6 DEF NextCheck, To
  <2>3. AttemptOK(n, box[a], a \in late, gate[a])
    BY <1>1 DEF Attempt, AttemptOK, BoxOK, CheckOK, Good, RecordOK, OutcomeOK, Untouched,
       InContainer, Working, Finished, InDocker
  <2>4. QED
    BY <1>2, <1>3, <2>1, <2>2, <2>3, OneGoes
<1>7. CASE k.check <= Len(Plan.checks) /\ ~Check(a).selected
  <2> DEFINE n == [k EXCEPT !.check = k.check + 1]
  <2>1. n \in Attempt
    BY <1>3 DEF Attempt
  <2>2. at' = [at EXCEPT ![a] = n]
    BY <1>3, <1>4, <1>7 DEF NextCheck
  <2>3. \A i \in Selected : i < k.check + 1 => i < k.check
    BY <1>3, <1>4, <1>7 DEF Check
  <2>4. AttemptOK(n, box[a], a \in late, gate[a])
    BY <1>1, <2>3 DEF Attempt, AttemptOK, BoxOK, CheckOK, Good, RecordOK, OutcomeOK, Untouched,
       InContainer, Working, Finished, InDocker
  <2>5. QED
    BY <1>2, <1>3, <2>1, <2>2, <2>4, OneGoes
<1>8. QED
  BY <1>3, <1>4, <1>5, <1>6, <1>7

\* What is replayed is in the receipt, and a valid plan starts at its first check.
LEMMA PrepareKeeps ==
  ASSUME IInv, NEW a \in Attempts, Prepare(a)
  PROVE  IInv'
<1> PICK k \in Attempt : k = at[a]
  BY OfOne
<1>1. k.pc = "begin" /\ AttemptOK(k, box[a], a \in late, gate[a])
  BY OfOne DEF Prepare, At
<1>2. UNCHANGED <<head, box, late, gate, receipt, run, server>> /\ faults' \in Nat
  BY OfOne DEF Prepare, Quiet, Steady
<1>3. k.pc \notin Finished
  BY <1>1 DEF Finished
<1>4. ASSUME NEW pc \in {"retry", "mark", "failed", "next"}, To(a, pc),
             pc = "mark" => receipt.passed,
             pc = "failed" => receipt.by # 0 /\ ~receipt.passed,
             pc = "next" => Plan.error = "none"
      PROVE  IInv'
  <2> DEFINE n == [k EXCEPT !.pc = pc]
  <2>1. n \in Attempt
    BY PlaceValues DEF Attempt
  <2>2. at' = [at EXCEPT ![a] = n]
    BY <1>4 DEF To
  <2>3. \A i \in Selected : ~(i < 1)
    BY SelectedChecks DEF IInv
  <2>4. AttemptOK(n, box[a], a \in late, gate[a])
    BY <1>1, <1>4, <2>3 DEF Attempt, AttemptOK, BoxOK, CheckOK, Good, RecordOK, OutcomeOK, Untouched,
       InContainer, Working, Finished, InDocker
  <2>5. QED
    BY <1>2, <1>3, <2>1, <2>2, <2>4, OneGoes
<1>5. ASSUME Raise(a, "record", "error") PROVE IInv'
  <2> DEFINE n == [k EXCEPT !.pc = "record", !.stop = "error", !.bad = TRUE]
  <2>1. n \in Attempt
    BY PlaceValues DEF Attempt
  <2>2. at' = [at EXCEPT ![a] = n]
    BY <1>5 DEF Raise
  <2>3. AttemptOK(n, box[a], a \in late, gate[a])
    BY <1>1 DEF Attempt, AttemptOK, BoxOK, CheckOK, RecordOK, OutcomeOK, Untouched,
       InContainer, Working, Finished, InDocker
  <2>4. QED
    BY <1>2, <1>3, <2>1, <2>2, <2>3, OneGoes
<1>6. QED
  BY <1>4, <1>5 DEF Prepare

-----------------------------------------------------------------------------
(* DockerSandboxRunner.run *)

\* A call of the Docker CLI for an attempt that is not over.
LEMMA DockerMoves ==
  ASSUME IInv, NEW a \in Attempts, NEW k \in Attempt, NEW b \in Boxes, at[a].pc \notin Finished,
         at' = [at EXCEPT ![a] = k], box' = [box EXCEPT ![a] = b],
         late' = late \/ late' = late \cup {a},
         UNCHANGED <<head, gate, receipt, run, server>>, faults' \in Nat,
         BoxOK(k, b, a \in late'), CheckOK(k, b), k.pc = "record" => k.bad, OutcomeOK(k)
  PROVE  IInv'
<1> PICK g \in Gate : g = gate[a]
  BY OfOne
<1> PICK l \in BOOLEAN : l <=> a \in late'
  <2>1. CASE a \in late'
    BY <2>1
  <2>2. CASE a \notin late'
    BY <2>2
  <2>3. QED
    BY <2>1, <2>2
<1>1. gate' = [gate EXCEPT ![a] = g] /\ late' \subseteq Attempts
  BY DEF IInv, TypeOK
<1>2. BoxOK(k, b, l) /\ RecordOK(k, b, l, g) /\ GateOK(g)
  BY OfOne DEF AttemptOK, BoxOK, RecordOK
<1>3. \A c \in Attempts \ {a} : c \in late' <=> c \in late
  OBVIOUS
<1>4. QED
  BY <1>1, <1>2, <1>3, OneMoves

\* The first container of a check belongs to an attempt that nothing has stopped.
LEMMA CreateKeeps ==
  ASSUME IInv, NEW a \in Attempts, Create(a)
  PROVE  IInv'
<1> PICK k \in Attempt : k = at[a]
  BY OfOne
<1> PICK pc \in {"start", "attach"} : pc = IF Reports(a) THEN "start" ELSE "attach"
  OBVIOUS
<1> DEFINE n == [k EXCEPT !.pc = pc]
<1>1. k.pc = "create" /\ AttemptOK(k, box[a], a \in late, gate[a])
  BY OfOne DEF Create, At
<1>2. n \in Attempt
  BY PlaceValues DEF Attempt
<1>3. at' = [at EXCEPT ![a] = n] /\ box' = [box EXCEPT ![a] = "created"] /\ "created" \in Boxes
  BY DEF Create, To, Boxes
<1>4. UNCHANGED <<head, late, gate, receipt, run, server>> /\ faults' \in Nat
  BY OfOne DEF Create, Quiet, Steady
<1>5. BoxOK(n, "created", a \in late')
  BY <1>1, <1>4 DEF Attempt, AttemptOK, BoxOK, Untouched, InContainer, Finished
<1>6. CheckOK(n, "created") /\ OutcomeOK(n) /\ n.pc # "record" /\ k.pc \notin Finished
  BY <1>1 DEF Attempt, AttemptOK, CheckOK, OutcomeOK, Good, Working, Finished, InDocker
<1>7. QED
  BY <1>2, <1>3, <1>4, <1>5, <1>6, DockerMoves

\* A container that sleeps tells nothing yet.
LEMMA StartKeeps ==
  ASSUME IInv, NEW a \in Attempts, Start(a)
  PROVE  IInv'
<1> PICK k \in Attempt : k = at[a]
  BY OfOne
<1> DEFINE n == [k EXCEPT !.pc = "attach"]
<1>1. k.pc = "start" /\ AttemptOK(k, box[a], a \in late, gate[a])
  BY OfOne DEF Start, At
<1>2. n \in Attempt
  BY PlaceValues DEF Attempt
<1>3. at' = [at EXCEPT ![a] = n] /\ box' = [box EXCEPT ![a] = "running"] /\ "running" \in Boxes
  BY DEF Start, To, Boxes
<1>4. UNCHANGED <<head, late, gate, receipt, run, server>> /\ faults' \in Nat
  BY OfOne DEF Start, Quiet, Steady
<1>5. BoxOK(n, "running", a \in late')
  BY <1>1, <1>4 DEF Attempt, AttemptOK, BoxOK, Untouched, InContainer, Finished
<1>6. CheckOK(n, "running") /\ OutcomeOK(n) /\ n.pc # "record" /\ k.pc \notin Finished
  BY <1>1 DEF Attempt, AttemptOK, CheckOK, OutcomeOK, Good, Working, Finished, InDocker
<1>7. QED
  BY <1>2, <1>3, <1>4, <1>5, <1>6, DockerMoves

\* The command of the check ended with status: with report files its status is looked at now,
\* without it is what the container says.
LEMMA CommandEnds ==
  ASSUME IInv, NEW a \in Attempts, NEW k \in Attempt, k = at[a], k.pc = "attach",
         NEW status \in {"zero", "nonzero"}, NEW reports \in BOOLEAN,
         NEW n \in Attempt, at' = [at EXCEPT ![a] = n],
         n.pc = (IF reports THEN "export" ELSE "inspect"), n.check = k.check, n.stop = k.stop,
         n.bad <=> k.bad \/ (reports /\ status = "nonzero"), n.lost = k.lost,
         n.passed = IF status = "zero" THEN k.passed \cup {k.check} ELSE k.passed,
         NEW b \in Boxes, box' = [box EXCEPT ![a] = b], b = IF reports THEN "running" ELSE status,
         Quiet
  PROVE  IInv'
<1>1. AttemptOK(k, box[a], a \in late, gate[a])
  BY OfOne
<1>2. UNCHANGED <<head, late, gate, receipt, run, server>> /\ faults' \in Nat
  BY OfOne DEF Quiet, Steady
<1>3. k.passed \subseteq n.passed /\ (status = "zero" => k.check \in n.passed)
  OBVIOUS
<1>4. BoxOK(n, b, a \in late')
  BY <1>1, <1>2 DEF AttemptOK, BoxOK, Untouched, InContainer, Finished
<1>5. CheckOK(n, b)
  BY <1>1, <1>3 DEF AttemptOK, CheckOK, Good, Working, InDocker
<1>6. OutcomeOK(n) /\ n.pc # "record" /\ k.pc \notin Finished
  BY DEF OutcomeOK, Finished
<1>7. QED
  BY <1>2, <1>4, <1>5, <1>6, DockerMoves

\* A command that ends with status 0 makes its check good, a killed one makes it bad.
LEMMA AttachKeeps ==
  ASSUME IInv, NEW a \in Attempts, Attach(a)
  PROVE  IInv'
<1> PICK k \in Attempt : k = at[a]
  BY OfOne
<1>1. k.pc = "attach" /\ AttemptOK(k, box[a], a \in late, gate[a])
  BY OfOne DEF Attach, At
<1>2. UNCHANGED <<head, late, gate, receipt, run, server>> /\ faults' \in Nat
  BY OfOne DEF Attach, Quiet, Steady
<1>3. ASSUME box' = [box EXCEPT ![a] = "running"], To(a, "kill")
      PROVE  IInv'
  <2> DEFINE n == [k EXCEPT !.pc = "kill"]
  <2>1. n \in Attempt /\ "running" \in Boxes
    BY PlaceValues DEF Attempt, Boxes
  <2>2. at' = [at EXCEPT ![a] = n]
    BY <1>3 DEF To
  <2>3. BoxOK(n, "running", a \in late')
    BY <1>1, <1>2 DEF Attempt, AttemptOK, BoxOK, Untouched, InContainer, Finished
  <2>4. CheckOK(n, "running") /\ OutcomeOK(n) /\ n.pc # "record" /\ k.pc \notin Finished
    BY <1>1 DEF Attempt, AttemptOK, CheckOK, OutcomeOK, Good, Working, Finished, InDocker
  <2>5. QED
    BY <1>2, <1>3, <2>1, <2>2, <2>3, <2>4, DockerMoves
<1>4. ASSUME NEW status \in {"zero", "nonzero"},
             IF Reports(a)
             THEN at' = [at EXCEPT ![a].pc = "export", ![a].bad = @ \/ status # "zero",
                                   ![a].passed = IF status = "zero" THEN @ \cup {at[a].check} ELSE @]
             ELSE at' = [at EXCEPT ![a].pc = "inspect",
                                   ![a].passed = IF status = "zero" THEN @ \cup {at[a].check} ELSE @],
             box' = [box EXCEPT ![a] = IF Reports(a) THEN "running" ELSE status]
      PROVE  IInv'
  <2>1. Quiet
    BY DEF Attach
  <2> DEFINE bad == k.bad \/ status # "zero"
             passed == IF status = "zero" THEN k.passed \cup {k.check} ELSE k.passed
  <2>2. bad \in BOOLEAN /\ passed \in SUBSET Nat
    BY DEF Attempt
  <2> HIDE DEF bad, passed
  <2>3. CASE Reports(a)
    <3> DEFINE n == [k EXCEPT !.pc = "export", !.bad = bad, !.passed = passed]
    <3>1. n \in Attempt /\ "running" \in Boxes
      BY <2>2, PlaceValues DEF Attempt, Boxes
    <3>2. at' = [at EXCEPT ![a] = n] /\ box' = [box EXCEPT ![a] = "running"]
      BY <1>4, <2>3 DEF bad, passed
    <3>3. /\ n.pc = "export" /\ n.check = k.check /\ n.stop = k.stop /\ n.lost = k.lost
          /\ n.passed = passed /\ n.bad = bad /\ (bad <=> k.bad \/ status = "nonzero")
      BY DEF Attempt, bad
    <3> HIDE DEF n
    <3>4. QED
      BY <1>1, <2>1, <3>1, <3>2, <3>3, CommandEnds DEF passed
  <2>4. CASE ~Reports(a)
    <3> DEFINE n == [k EXCEPT !.pc = "inspect", !.passed = passed]
    <3>1. n \in Attempt /\ status \in Boxes
      BY <2>2, PlaceValues DEF Attempt, Boxes
    <3>2. at' = [at EXCEPT ![a] = n] /\ box' = [box EXCEPT ![a] = status]
      BY <1>4, <2>4 DEF bad, passed
    <3>3. /\ n.pc = "inspect" /\ n.check = k.check /\ n.stop = k.stop /\ n.lost = k.lost
          /\ n.passed = passed /\ n.bad = k.bad
      BY DEF Attempt
    <3> HIDE DEF n
    <3>4. QED
      BY <1>1, <2>1, <3>1, <3>2, <3>3, CommandEnds DEF passed
  <2>5. QED
    BY <2>3, <2>4
<1>5. QED
  BY <1>3, <1>4 DEF Attach

\* The attempt fails for good at a call: it goes on to the removal of its container, or to its
\* evidence when the removal is what failed.
LEMMA FailsAt ==
  ASSUME IInv, NEW a \in Attempts, NEW k \in Attempt, k = at[a], k.pc \in InDocker,
         NEW n \in Attempt, at' = [at EXCEPT ![a] = n],
         NEW b \in Boxes, box' = [box EXCEPT ![a] = b], late' = late \/ late' = late \cup {a},
         UNCHANGED <<head, gate, receipt, run, server>>, faults' \in Nat,
         n.bad, n.pc = "record" \/ (n.pc = "rm" /\ k.pc \notin {"rm", "confirm"}),
         n.pc = "record" => n.stop = "cleanup" /\ late' = late,
         n.pc = "rm" => n.stop \in {k.stop, "error"},
         b = box[a] \/ b \in {"none", "nonzero"}, late' # late => n.stop = "error"
  PROVE  IInv'
<1>1. AttemptOK(k, box[a], a \in late, gate[a])
  BY OfOne
<1>2. BoxOK(n, b, a \in late')
  BY <1>1 DEF Attempt, AttemptOK, BoxOK, Untouched, InContainer, Finished, InDocker
<1>3. CheckOK(n, b) /\ OutcomeOK(n) /\ k.pc \notin Finished
  BY <1>1 DEF AttemptOK, CheckOK, OutcomeOK, Working, Finished, InDocker
<1>4. QED
  BY <1>2, <1>3, DockerMoves

\* A check that had to be killed has failed.
LEMMA KillKeeps ==
  ASSUME IInv, NEW a \in Attempts, Kill(a)
  PROVE  IInv'
<1> PICK k \in Attempt : k = at[a]
  BY OfOne
<1> DEFINE n == [k EXCEPT !.pc = "rm", !.bad = TRUE]
<1>1. k.pc = "kill"
  BY DEF Kill, At
<1>2. n \in Attempt
  BY PlaceValues DEF Attempt
<1>3. at' = [at EXCEPT ![a] = n] /\ box' \in {box, [box EXCEPT ![a] = "nonzero"]}
  BY DEF Kill
<1>4. PICK b \in Boxes : box' = [box EXCEPT ![a] = b] /\ b \in {box[a], "nonzero"}
  BY <1>3, OfOne DEF IInv, TypeOK, Boxes
<1>5. UNCHANGED <<head, late, gate, receipt, run, server>> /\ faults' \in Nat
  BY OfOne DEF Kill, Quiet, Steady
<1>6. n.bad /\ n.pc = "rm" /\ n.stop = k.stop
  BY DEF Attempt
<1> HIDE DEF n
<1>7. QED
  BY <1>1, <1>2, <1>3, <1>4, <1>5, <1>6, FailsAt DEF InDocker

\* What the container and the reports say decides on the check.
LEMMA InspectKeeps ==
  ASSUME IInv, NEW a \in Attempts, Inspect(a)
  PROVE  IInv'
<1> PICK k \in Attempt : k = at[a]
  BY OfOne
<1> PICK b \in Boxes : b = box[a]
  BY OfOne
<1> DEFINE bad == k.bad \/ b = "nonzero"
           n == [k EXCEPT !.pc = "rm", !.bad = bad]
<1>1. k.pc = "inspect" /\ AttemptOK(k, b, a \in late, gate[a])
  BY OfOne DEF Inspect, At
<1>2. bad \in BOOLEAN
  BY DEF Attempt
<1> HIDE DEF bad
<1>3. n \in Attempt
  BY <1>2, PlaceValues DEF Attempt
<1>4. at' = [at EXCEPT ![a] = n] /\ box' = [box EXCEPT ![a] = b]
  BY DEF Inspect, IInv, TypeOK, bad
<1>5. UNCHANGED <<head, late, gate, receipt, run, server>> /\ faults' \in Nat
  BY OfOne DEF Inspect, Quiet, Steady
<1>6. /\ n.pc = "rm" /\ n.stop = k.stop /\ n.check = k.check /\ n.bad = bad
      /\ n.passed = k.passed /\ n.lost = k.lost
  BY DEF Attempt
<1> HIDE DEF n
<1>7. BoxOK(n, b, a \in late')
  BY <1>1, <1>5, <1>6 DEF AttemptOK, BoxOK, Untouched, InContainer, Finished
<1>8. CheckOK(n, b)
  BY <1>1, <1>6 DEF AttemptOK, CheckOK, Good, Working, InDocker, bad
<1>9. OutcomeOK(n) /\ n.pc # "record" /\ k.pc \notin Finished
  BY <1>1, <1>6 DEF OutcomeOK, Finished
<1>10. QED
  BY <1>3, <1>4, <1>5, <1>7, <1>8, <1>9, DockerMoves

\* A bad report fails the check, whatever its command said.
LEMMA ExportKeeps ==
  ASSUME IInv, NEW a \in Attempts, Export(a)
  PROVE  IInv'
<1> PICK k \in Attempt : k = at[a]
  BY OfOne
<1> PICK b \in Boxes : b = box[a]
  BY OfOne
<1>1. k.pc = "export" /\ AttemptOK(k, b, a \in late, gate[a])
  BY OfOne DEF Export, At
<1>2. box' = [box EXCEPT ![a] = b]
  BY DEF Export, IInv, TypeOK
<1>3. UNCHANGED <<head, late, gate, receipt, run, server>> /\ faults' \in Nat
  BY OfOne DEF Export, Quiet, Steady
<1>4. CASE To(a, "rm")
  <2> DEFINE n == [k EXCEPT !.pc = "rm"]
  <2>1. n \in Attempt
    BY PlaceValues DEF Attempt
  <2>2. at' = [at EXCEPT ![a] = n]
    BY <1>4 DEF To
  <2>3. BoxOK(n, b, a \in late')
    BY <1>1, <1>3 DEF Attempt, AttemptOK, BoxOK, Untouched, InContainer, Finished
  <2>4. CheckOK(n, b) /\ OutcomeOK(n) /\ n.pc # "record" /\ k.pc \notin Finished
    BY <1>1 DEF Attempt, AttemptOK, CheckOK, OutcomeOK, Good, Working, Finished, InDocker
  <2>5. QED
    BY <1>2, <1>3, <2>1, <2>2, <2>3, <2>4, DockerMoves
<1>5. CASE at' = [at EXCEPT ![a].pc = "rm", ![a].bad = TRUE, ![a].passed = @ \ {at[a].check}]
  <2> DEFINE n == [k EXCEPT !.pc = "rm", !.bad = TRUE, !.passed = k.passed \ {k.check}]
  <2>1. n \in Attempt
    BY PlaceValues DEF Attempt
  <2>2. at' = [at EXCEPT ![a] = n]
    BY <1>5
  <2>3. n.bad /\ n.pc = "rm" /\ n.stop = k.stop
    BY DEF Attempt
  <2> HIDE DEF n
  <2>4. QED
    BY <1>1, <1>2, <1>3, <2>1, <2>2, <2>3, FailsAt DEF InDocker
<1>6. QED
  BY <1>4, <1>5 DEF Export

-----------------------------------------------------------------------------
(* _remove_container *)

\* A cleanup that fails ends the verification of the attempt.
LEMMA CleanupRaises ==
  ASSUME IInv, NEW a \in Attempts, at[a].pc \in {"rm", "confirm"}, Raise(a, "record", "cleanup"),
         box' \in {box, [box EXCEPT ![a] = "none"]},
         UNCHANGED <<head, late, gate, receipt, run, server>>, faults' \in Nat
  PROVE  IInv'
<1> PICK k \in Attempt : k = at[a]
  BY OfOne
<1> DEFINE n == [k EXCEPT !.pc = "record", !.stop = "cleanup", !.bad = TRUE]
<1>1. n \in Attempt
  BY PlaceValues DEF Attempt
<1>2. at' = [at EXCEPT ![a] = n]
  BY DEF Raise
<1>3. PICK b \in Boxes : box' = [box EXCEPT ![a] = b] /\ b \in {box[a], "none"}
  BY OfOne DEF IInv, TypeOK, Boxes
<1>4. n.bad /\ n.pc = "record" /\ n.stop = "cleanup" /\ k.pc \in InDocker
  BY DEF Attempt, InDocker
<1> HIDE DEF n
<1>5. QED
  BY <1>1, <1>2, <1>3, <1>4, FailsAt

\* Past the removal no container is there, or the cleanup has failed.
LEMMA RemoveContainerKeeps ==
  ASSUME IInv, NEW a \in Attempts, RemoveContainer(a)
  PROVE  IInv'
<1> PICK k \in Attempt : k = at[a]
  BY OfOne
<1>1. k.pc = "rm" /\ AttemptOK(k, box[a], a \in late, gate[a])
  BY OfOne DEF RemoveContainer, At
<1>2. UNCHANGED <<head, late, gate, receipt, run, server>> /\ faults' \in Nat
  BY OfOne DEF RemoveContainer, Quiet, Steady
<1>3. box' = [box EXCEPT ![a] = "none"] /\ "none" \in Boxes
  BY DEF RemoveContainer, Boxes
<1>4. CASE To(a, "confirm")
  <2> DEFINE n == [k EXCEPT !.pc = "confirm"]
  <2>1. n \in Attempt
    BY PlaceValues DEF Attempt
  <2>2. at' = [at EXCEPT ![a] = n]
    BY <1>4 DEF To
  <2>3. BoxOK(n, "none", a \in late')
    BY <1>1, <1>2 DEF Attempt, AttemptOK, BoxOK, Untouched, InContainer, Finished
  <2>4. CheckOK(n, "none") /\ OutcomeOK(n) /\ n.pc # "record" /\ k.pc \notin Finished
    BY <1>1 DEF Attempt, AttemptOK, CheckOK, OutcomeOK, Good, Working, Finished, InDocker
  <2>5. QED
    BY <1>2, <1>3, <2>1, <2>2, <2>3, <2>4, DockerMoves
<1>5. CASE Raise(a, "record", "cleanup")
  BY <1>1, <1>2, <1>3, <1>5, CleanupRaises
<1>6. QED
  BY <1>4, <1>5 DEF RemoveContainer

\* Past the cleanup: on to the next check, or to what stopped the attempt.
LEMMA ConfirmKeeps ==
  ASSUME IInv, NEW a \in Attempts, Confirm(a)
  PROVE  IInv'
<1> PICK k \in Attempt : k = at[a]
  BY OfOne
<1> PICK b \in Boxes : b = box[a]
  BY OfOne
<1>1. k.pc = "confirm" /\ AttemptOK(k, b, a \in late, gate[a])
  BY OfOne DEF Confirm, At
<1>2. UNCHANGED <<head, late, gate, receipt, run, server>> /\ faults' \in Nat
  BY OfOne DEF Confirm, Quiet, Steady
<1>3. box' = [box EXCEPT ![a] = b] /\ box' = box
  BY DEF Confirm, IInv, TypeOK
<1>4. k.check \in Nat \ {0} /\ k.stop \in {"no", "error", "cancelled"} /\ k.pc \notin Finished
  BY <1>1 DEF Attempt, AttemptOK, BoxOK, Finished
<1>5. CASE b # "none"
  BY <1>1, <1>2, <1>3, <1>5, CleanupRaises DEF Confirm
<1>6. ASSUME b = "none", k.stop # "no" PROVE IInv'
  <2> PICK pc \in {"cancelled", "record"} : pc = IF k.stop = "cancelled" THEN "cancelled" ELSE "record"
    OBVIOUS
  <2> DEFINE n == [k EXCEPT !.pc = pc, !.check = k.check]
  <2>1. n \in Attempt
    BY <1>4, PlaceValues DEF Attempt
  <2>2. at' = [at EXCEPT ![a] = n]
    BY <1>4, <1>6 DEF Confirm, GoOn
  <2>3. n.pc = pc /\ n.stop = k.stop /\ n.bad = k.bad
    BY DEF Attempt
  <2> HIDE DEF n
  <2>4. BoxOK(n, b, a \in late')
    BY <1>1, <1>2, <1>4, <1>6, <2>3 DEF AttemptOK, BoxOK, Untouched, InContainer, Finished
  <2>5. CheckOK(n, b) /\ OutcomeOK(n) /\ (n.pc = "record" => n.bad)
    BY <1>1, <1>4, <1>6, <2>3 DEF AttemptOK, BoxOK, CheckOK, OutcomeOK, Working, InDocker
  <2>6. QED
    BY <1>2, <1>3, <1>4, <2>1, <2>2, <2>4, <2>5, DockerMoves
<1>7. ASSUME b = "none", k.stop = "no" PROVE IInv'
  <2> PICK i \in Nat \ {0} : i = k.check + 1
    BY <1>4
  <2> DEFINE n == [k EXCEPT !.pc = "next", !.check = i]
  <2>1. n \in Attempt
    BY PlaceValues DEF Attempt
  <2>2. at' = [at EXCEPT ![a] = n]
    BY <1>7 DEF Confirm, GoOn
  <2>3. /\ n.pc = "next" /\ n.check = k.check + 1 /\ n.stop = "no" /\ n.bad = k.bad
        /\ n.passed = k.passed /\ n.lost = k.lost
    BY <1>7 DEF Attempt
  <2> HIDE DEF n
  <2>4. \A j \in Selected : j < k.check + 1 => j < k.check \/ j = k.check
    BY <1>4, SelectedChecks DEF IInv
  <2>5. BoxOK(n, b, a \in late')
    BY <1>1, <1>2, <1>7, <2>3 DEF AttemptOK, BoxOK, Untouched, InContainer, Finished
  <2>6. CheckOK(n, b)
    BY <1>1, <1>7, <2>3, <2>4 DEF AttemptOK, CheckOK, Good, Working, InDocker
  <2>7. OutcomeOK(n) /\ n.pc # "record"
    BY <2>3 DEF OutcomeOK
  <2>8. QED
    BY <1>2, <1>3, <1>4, <2>1, <2>2, <2>5, <2>6, <2>7, DockerMoves
<1>8. QED
  BY <1>5, <1>6, <1>7

-----------------------------------------------------------------------------
(* The proof gate *)

\* A step of the gate alone.
GateMoves(a) ==
  \E g \in Gate : Now(a, g) /\ GateOK(g) /\ (gate[a].pc = "over" => g.pc = "over")

\* A step of the gate changes nothing that an attempt has seen, as a gate that is over stays so.
LEMMA GateMovesKeeps ==
  ASSUME IInv, NEW a \in Attempts, GateMoves(a),
         UNCHANGED <<head, at, box, late, receipt, run, server>>, faults' \in Nat
  PROVE  IInv'
<1> PICK k \in Attempt : k = at[a]
  BY OfOne
<1> PICK b \in Boxes : b = box[a]
  BY OfOne
<1> PICK l \in BOOLEAN : l <=> a \in late
  <2>1. CASE a \in late
    BY <2>1
  <2>2. CASE a \notin late
    BY <2>2
  <2>3. QED
    BY <2>1, <2>2
<1>1. PICK g \in Gate : Now(a, g) /\ GateOK(g) /\ (gate[a].pc = "over" => g.pc = "over")
  BY DEF GateMoves
<1>2. /\ at' = [at EXCEPT ![a] = k] /\ box' = [box EXCEPT ![a] = b] /\ late' \subseteq Attempts
      /\ gate' = [gate EXCEPT ![a] = g]
  BY <1>1 DEF IInv, TypeOK, Now
<1>3. AttemptOK(k, b, l, gate[a])
  BY OfOne DEF AttemptOK, BoxOK, RecordOK, Evidence
<1>4. BoxOK(k, b, l) /\ CheckOK(k, b) /\ RecordOK(k, b, l, g) /\ OutcomeOK(k)
  BY <1>1, <1>3 DEF AttemptOK, RecordOK, Evidence
<1>5. at[a].pc \in Finished /\ Evidence(at[a], box[a], a \in late, gate[a])
        => k.pc \in Finished /\ Evidence(k, b, l, g)
  BY <1>1 DEF Evidence
<1>6. QED
  BY <1>1, <1>2, <1>4, <1>5, OneMoves

\* The values the gate takes.
LEMMA GateValues ==
  /\ {"none", "snapshot", "setup", "collect", "kill", "tell", "wait", "over"} \subseteq Calling
  /\ {"none", "waiting", "told", "watching", "status", "gone", "dead"} \subseteq Supervising
  /\ {"none", "passed", "refused", "interrupted"} \subseteq Outcomes
  /\ {"none", "error", "verdict", "interrupted", "withdrawn"} \subseteq Intents
  /\ {"none", "zero", "nonzero"} \subseteq Statuses
  BY DEF Calling, Supervising, Outcomes, Intents, Statuses

\* The gate that is not there yet and the one that was given up have no process.
LEMMA Results ==
  /\ NoGate \in Gate /\ GateOK(NoGate) /\ Abandoned \in Gate /\ GateOK(Abandoned)
  /\ Abandoned.pc = "over" /\ NoGate.pc = "none"
  BY GateValues DEF NoGate, Abandoned, Gate, GateOK

\* A second interruption.
LEMMA CutOffMoves ==
  ASSUME NEW a \in Attempts, NEW result \in {"interrupted", "refused"}, CutOff(a, result)
  PROVE  GateMoves(a)
<1> DEFINE g == [Abandoned EXCEPT !.result = result]
<1>1. g \in Gate /\ GateOK(g) /\ g.pc = "over"
  BY GateValues DEF Abandoned, NoGate, Gate, GateOK
<1>2. QED
  BY <1>1 DEF CutOff, GateMoves

\* Snapshot, setup and collection of the status.
LEMMA CallerMoves ==
  ASSUME IInv, NEW a \in Attempts,
         EnterGate(a) \/ Launch(a) \/ Begin(a) \/ SetupFails(a) \/ Collect(a) \/ Exceed(a)
  PROVE  GateMoves(a)
<1> PICK h \in Gate : h = gate[a]
  BY OfOne
<1>1. GateOK(h)
  BY OfOne DEF AttemptOK
<1>2. CASE EnterGate(a)
  <2> DEFINE g == [NoGate EXCEPT !.pc = "snapshot"]
  <2>1. g \in Gate /\ GateOK(g)
    BY GateValues DEF NoGate, Gate, GateOK
  <2>2. QED
    BY <1>2, <2>1 DEF EnterGate, In, GateMoves
<1>3. ASSUME In(a, "snapshot"), NEW result \in {"refused", "interrupted"}, Now(a, Over(a, result))
      PROVE  GateMoves(a)
  <2> DEFINE g == [h EXCEPT !.pc = "over", !.result = result, !.status = "none", !.then = "none",
                            !.told = FALSE]
  <2>1. g \in Gate
    BY GateValues DEF Gate
  <2>2. GateOK(g) /\ g.pc = "over"
    BY <1>1, <1>3 DEF Gate, GateOK, In
  <2>3. QED
    BY <1>3, <2>1, <2>2 DEF Over, GateMoves
<1>4. ASSUME In(a, "snapshot"), Now(a, [gate[a] EXCEPT !.pc = "setup", !.sup = "waiting"])
      PROVE  GateMoves(a)
  <2> DEFINE g == [h EXCEPT !.pc = "setup", !.sup = "waiting"]
  <2>1. g \in Gate
    BY GateValues DEF Gate
  <2>2. GateOK(g)
    BY DEF Gate, GateOK
  <2>3. QED
    BY <1>4, <2>1, <2>2 DEF In, GateMoves
<1>5. CASE Begin(a)
  <2> DEFINE g == [h EXCEPT !.pc = "collect", !.sup = "told"]
  <2>1. g \in Gate
    BY GateValues DEF Gate
  <2>2. GateOK(g)
    BY DEF Gate, GateOK
  <2>3. QED
    BY <1>5, <2>1, <2>2 DEF Begin, In, GateMoves
<1>6. ASSUME gate[a].pc \in {"setup", "collect"}, NEW then \in {"error", "verdict", "interrupted"},
             Clean(a, then)
      PROVE  GateMoves(a)
  <2> DEFINE g == [h EXCEPT !.pc = "kill", !.then = then]
  <2>1. g \in Gate
    BY GateValues DEF Gate
  <2>2. GateOK(g)
    BY <1>1 DEF Gate, GateOK
  <2>3. QED
    BY <1>6, <2>1, <2>2 DEF Clean, GateMoves
<1>7. ASSUME gate[a].pc \in Cleaning, Now(a, [gate[a] EXCEPT !.then = "interrupted"])
      PROVE  GateMoves(a)
  <2> DEFINE g == [h EXCEPT !.then = "interrupted"]
  <2>1. g \in Gate
    BY GateValues DEF Gate
  <2>2. GateOK(g) /\ g.pc = h.pc
    BY <1>1 DEF Gate, GateOK
  <2>3. QED
    BY <1>7, <2>1, <2>2 DEF GateMoves
<1>8. CASE Launch(a)
  BY <1>3, <1>4, <1>8 DEF Launch
<1>9. CASE SetupFails(a)
  BY <1>6, <1>9 DEF SetupFails, In
<1>10. CASE Collect(a)
  BY <1>6, <1>10 DEF Collect, In
<1>11. CASE Exceed(a)
  BY <1>6, <1>7, <1>11, Results, CutOffMoves DEF Exceed, In
<1>12. QED
  BY <1>2, <1>5, <1>8, <1>9, <1>10, <1>11

\* _terminate_process_tree.
LEMMA CleanupMoves ==
  ASSUME IInv, NEW a \in Attempts, KillTree(a) \/ TellSupervisor(a) \/ AwaitSupervisor(a)
  PROVE  GateMoves(a)
<1> PICK h \in Gate : h = gate[a]
  BY OfOne
<1>1. GateOK(h)
  BY OfOne DEF AttemptOK
<1>2. CASE KillTree(a)
  <2> DEFINE tree == h.tree /\ h.sup = "dead"
             g == [h EXCEPT !.pc = "tell", !.tree = tree]
  <2>1. tree \in BOOLEAN
    BY DEF Gate
  <2>2. g \in Gate
    BY <2>1, GateValues DEF Gate
  <2>3. GateOK(g)
    BY <1>1 DEF Gate, GateOK
  <2>4. Now(a, g) \/ CleanupFailed(a)
    BY <1>2 DEF KillTree, Supervisor, Now
  <2>5. QED
    BY <1>2, <2>2, <2>3, <2>4, Results DEF KillTree, CleanupFailed, In, GateMoves
<1>3. CASE CleanupFailed(a)
  BY <1>3, Results DEF CleanupFailed, GateMoves
<1>4. ASSUME In(a, "tell"), Now(a, [gate[a] EXCEPT !.pc = "wait", !.told = TRUE])
      PROVE  GateMoves(a)
  <2> DEFINE g == [h EXCEPT !.pc = "wait", !.told = TRUE]
  <2>1. g \in Gate
    BY GateValues DEF Gate
  <2>2. GateOK(g)
    BY <1>1 DEF Gate, GateOK
  <2>3. QED
    BY <1>4, <2>1, <2>2 DEF In, GateMoves
<1>5. ASSUME Supervisor(a, {"gone"}), NEW result \in Verdicts(a), Now(a, Over(a, result))
      PROVE  GateMoves(a)
  <2> DEFINE g == [h EXCEPT !.pc = "over", !.result = result, !.status = "none", !.then = "none",
                            !.told = FALSE]
  <2>1. result \in {"passed", "refused", "interrupted"}
    BY DEF Verdicts
  <2>2. g \in Gate
    BY <2>1, GateValues DEF Gate
  <2>3. GateOK(g) /\ g.pc = "over"
    BY <1>1, <1>5 DEF Gate, GateOK, Supervisor
  <2>4. QED
    BY <1>5, <2>2, <2>3 DEF Over, GateMoves
<1>6. CASE TellSupervisor(a)
  BY <1>3, <1>4, <1>6 DEF TellSupervisor
<1>7. CASE AwaitSupervisor(a)
  BY <1>3, <1>5, <1>7 DEF AwaitSupervisor
<1>8. QED
  BY <1>2, <1>6, <1>7

\* The supervisor and its children.
LEMMA ProcessesMove ==
  ASSUME IInv, NEW a \in Attempts, ProcessStep(a) \/ SupervisorDies(a)
  PROVE  GateMoves(a)
<1> PICK h \in Gate : h = gate[a]
  BY OfOne
<1>1. GateOK(h)
  BY OfOne DEF AttemptOK
<1>2. ASSUME h.sup \in {"waiting", "told", "watching", "status"},
             NEW sup \in {"watching", "status", "dead", "gone"}, NEW tree \in BOOLEAN,
             NEW status \in {"none", "zero", "nonzero"}, sup = "gone" => ~tree,
             Now(a, [gate[a] EXCEPT !.sup = sup, !.tree = tree, !.status = status])
      PROVE  GateMoves(a)
  <2> DEFINE g == [h EXCEPT !.sup = sup, !.tree = tree, !.status = status]
  <2>1. g \in Gate
    BY <1>2, GateValues DEF Gate
  <2>2. GateOK(g) /\ g.pc = h.pc /\ h.pc # "over"
    BY <1>1, <1>2 DEF Gate, GateOK
  <2>3. QED
    BY <1>2, <2>1, <2>2 DEF GateMoves
<1>3. h.tree \in BOOLEAN /\ h.status \in {"none", "zero", "nonzero"}
  BY DEF Gate, Statuses
<1>4. CASE Fork(a)
  <2>1. [h EXCEPT !.sup = "watching", !.tree = TRUE] =
          [h EXCEPT !.sup = "watching", !.tree = TRUE, !.status = h.status]
    BY DEF Gate
  <2>2. QED
    BY <1>2, <1>3, <1>4, <2>1 DEF Fork, Supervisor
<1>5. CASE GateEnds(a)
  <2>1. [h EXCEPT !.sup = "status", !.status = "nonzero"] =
          [h EXCEPT !.sup = "status", !.tree = h.tree, !.status = "nonzero"]
    BY DEF Gate
  <2>2. ASSUME NEW status \in {"zero", "nonzero"}, NEW left \in BOOLEAN
        PROVE  [h EXCEPT !.sup = "status", !.status = status, !.tree = left] =
                 [h EXCEPT !.sup = "status", !.tree = left, !.status = status]
    BY DEF Gate
  <2>3. h.sup \in {"waiting", "told", "watching", "status"}
    BY <1>5 DEF GateEnds, Supervisor
  <2>4. CASE Now(a, [gate[a] EXCEPT !.sup = "status", !.status = "nonzero"])
    BY <1>2, <1>3, <2>1, <2>3, <2>4
  <2>5. ASSUME NEW status \in {"zero", "nonzero"}, NEW left \in BOOLEAN,
               Now(a, [gate[a] EXCEPT !.sup = "status", !.status = status, !.tree = left])
        PROVE  GateMoves(a)
    <3>1. Now(a, [gate[a] EXCEPT !.sup = "status", !.tree = left, !.status = status])
      BY <2>2, <2>5
    <3>2. QED
      BY <1>2, <2>3, <3>1
  <2>6. QED
    BY <1>5, <2>4, <2>5 DEF GateEnds
<1>6. ASSUME NEW sup \in {"dead", "gone"}
      PROVE  [h EXCEPT !.sup = sup] = [h EXCEPT !.sup = sup, !.tree = h.tree, !.status = h.status]
  BY DEF Gate
<1>7. CASE End(a)
  <2> PICK sup \in {"dead", "gone"} : sup = IF h.tree THEN "dead" ELSE "gone"
    OBVIOUS
  <2>1. Now(a, [gate[a] EXCEPT !.sup = sup, !.tree = h.tree, !.status = h.status])
    BY <1>6, <1>7 DEF End
  <2>2. QED
    BY <1>2, <1>3, <1>7, <2>1 DEF End, Supervisor
<1>8. CASE SupervisorDies(a)
  <2>1. Now(a, [gate[a] EXCEPT !.sup = "dead", !.tree = h.tree, !.status = h.status])
    BY <1>6, <1>8 DEF SupervisorDies
  <2>2. QED
    BY <1>2, <1>3, <1>8, <2>1 DEF SupervisorDies, Supervisor
<1>9. QED
  BY <1>4, <1>5, <1>7, <1>8 DEF ProcessStep

\* A cancellation of the gate, a second one included.
LEMMA CancelMoves ==
  ASSUME IInv, NEW a \in Attempts, CancelGate(a)
  PROVE  GateMoves(a)
<1> PICK h \in Gate : h = gate[a]
  BY OfOne
<1>1. GateOK(h)
  BY OfOne DEF AttemptOK
<1>2. ASSUME In(a, "snapshot"), NEW result \in {"refused", "interrupted"}, Now(a, Over(a, result))
      PROVE  GateMoves(a)
  <2> DEFINE g == [h EXCEPT !.pc = "over", !.result = result, !.status = "none", !.then = "none",
                            !.told = FALSE]
  <2>1. g \in Gate
    BY GateValues DEF Gate
  <2>2. GateOK(g) /\ g.pc = "over"
    BY <1>1, <1>2 DEF Gate, GateOK, In
  <2>3. QED
    BY <1>2, <2>1, <2>2 DEF Over, GateMoves
<1>3. CASE gate[a].pc \in {"setup", "collect"} /\ Clean(a, "interrupted")
  <2> DEFINE g == [h EXCEPT !.pc = "kill", !.then = "interrupted"]
  <2>1. g \in Gate
    BY GateValues DEF Gate
  <2>2. GateOK(g)
    BY <1>1 DEF Gate, GateOK
  <2>3. QED
    BY <1>3, <2>1, <2>2 DEF Clean, GateMoves
<1>4. CASE /\ gate[a].pc \in Cleaning /\ gate[a].then \in {"verdict", "error"}
           /\ Now(a, [gate[a] EXCEPT !.then = IF @ = "verdict" THEN "withdrawn" ELSE "interrupted"])
  <2> DEFINE then == IF h.then = "verdict" THEN "withdrawn" ELSE "interrupted"
             g == [h EXCEPT !.then = then]
  <2>1. then \in Intents
    BY GateValues
  <2>2. g \in Gate
    BY <2>1 DEF Gate
  <2>3. GateOK(g) /\ g.pc = h.pc
    BY <1>1 DEF Gate, GateOK
  <2>4. Now(a, g)
    BY <1>4 DEF Now, Gate
  <2>5. QED
    BY <1>4, <2>2, <2>3, <2>4 DEF GateMoves
<1>5. QED
  BY <1>2, <1>3, <1>4, CutOffMoves DEF CancelGate

\* The gate goes on beside the attempt.
LEMMA GateKeeps ==
  ASSUME IInv, NEW a \in Attempts, StartProof(a) \/ RunGate(a) \/ KillSupervisor(a)
  PROVE  IInv'
<1>1. GateMoves(a)
  BY CallerMoves, CleanupMoves, ProcessesMove
     DEF StartProof, RunGate, KillSupervisor, GateStep
<1>2. UNCHANGED <<head, at, box, late, receipt, run, server>> /\ faults' \in Nat
  BY OfOne DEF StartProof, RunGate, KillSupervisor, Aside, Fault
<1>3. QED
  BY <1>1, <1>2, GateMovesKeeps

\* The verdict of the gate is the last thing that the evidence needs.
LEMMA ProofKeeps ==
  ASSUME IInv, NEW a \in Attempts, Proof(a)
  PROVE  IInv'
<1> PICK k \in Attempt : k = at[a]
  BY OfOne
<1> PICK g \in Gate : g = gate[a]
  BY OfOne
<1>1. k.pc = "proof" /\ g.pc = "over" /\ AttemptOK(k, box[a], a \in late, g)
  BY OfOne DEF Proof, At, In
<1>2. UNCHANGED <<head, box, late, gate, receipt, run, server>> /\ faults' \in Nat
  BY OfOne DEF Proof, Quiet, Steady
<1>3. k.pc \notin Finished
  BY <1>1 DEF Finished
<1>4. CASE To(a, "cancelled")
  <2> DEFINE n == [k EXCEPT !.pc = "cancelled"]
  <2>1. n \in Attempt
    BY PlaceValues DEF Attempt
  <2>2. at' = [at EXCEPT ![a] = n]
    BY <1>4 DEF To
  <2>3. AttemptOK(n, box[a], a \in late, gate[a])
    BY <1>1 DEF Attempt, AttemptOK, BoxOK, CheckOK, RecordOK, OutcomeOK, Untouched, InContainer,
       Working, Finished, InDocker
  <2>4. QED
    BY <1>2, <1>3, <2>1, <2>2, <2>3, OneGoes
<1>5. CASE at' = [at EXCEPT ![a].pc = "record", ![a].proof = gate[a].result,
                            ![a].bad = gate[a].result # "passed"]
  <2> PICK bad \in BOOLEAN : bad <=> g.result # "passed"
    <3>1. CASE g.result = "passed"
      BY <3>1
    <3>2. CASE g.result # "passed"
      BY <3>2
    <3>3. QED
      BY <3>1, <3>2
  <2> DEFINE n == [k EXCEPT !.pc = "record", !.proof = g.result, !.bad = bad]
  <2>1. n \in Attempt
    BY PlaceValues DEF Attempt, Gate
  <2>2. at' = [at EXCEPT ![a] = n]
    BY <1>5
  <2>3. /\ n.pc = "record" /\ n.proof = g.result /\ n.bad = bad /\ n.stop = k.stop
        /\ n.passed = k.passed /\ n.lost = k.lost
    BY DEF Attempt
  <2> HIDE DEF n
  <2>4. Plan.error = "none" /\ ~k.bad /\ k.check > Len(Plan.checks)
    BY <1>1 DEF AttemptOK, CheckOK, Working
  <2>5. Plan.checks # <<>> /\ Selected \subseteq Good(k)
    <3>1. Plan.checks # <<>>
      BY <2>4, PlanShape DEF IInv
    <3>2. \A i \in Selected : i < k.check
      BY <2>4, SelectedChecks DEF IInv, Attempt
    <3>3. QED
      BY <1>1, <2>4, <3>1, <3>2 DEF AttemptOK, CheckOK, Working
  <2>6. box[a] = "none" /\ a \notin late
    BY <1>1 DEF AttemptOK, BoxOK
  <2>7. RecordOK(n, box[a], a \in late, g)
    BY <1>1, <2>3, <2>4, <2>5, <2>6 DEF RecordOK, Evidence, Good
  <2>8. BoxOK(n, box[a], a \in late)
    BY <1>1, <2>3, <2>4, <2>6 DEF AttemptOK, BoxOK, Untouched, InContainer, Finished
  <2>9. CheckOK(n, box[a]) /\ OutcomeOK(n)
    BY <2>3 DEF CheckOK, OutcomeOK, Working, InDocker
  <2>10. AttemptOK(n, box[a], a \in late, gate[a])
    BY <1>1, <2>7, <2>8, <2>9 DEF AttemptOK
  <2>11. QED
    BY <1>2, <1>3, <2>1, <2>2, <2>10, OneGoes
<1>6. QED
  BY <1>4, <1>5 DEF Proof

-----------------------------------------------------------------------------
(* What goes wrong with a call *)

\* A call that fails makes the attempt bad, and only a creation may be carried out later.
LEMMA CallFailsKeeps ==
  ASSUME IInv, NEW a \in Attempts, CallFails(a)
  PROVE  IInv'
<1> PICK k \in Attempt : k = at[a]
  BY OfOne
<1>1. AttemptOK(k, box[a], a \in late, gate[a])
  BY OfOne
<1>2. UNCHANGED <<head, gate, receipt, run, server>> /\ faults' \in Nat
  BY OfOne DEF CallFails, Fault, Steady
<1>3. ASSUME k.pc = "stage", Raise(a, "record", "error"), UNCHANGED <<box, late>>
      PROVE  IInv'
  <2> DEFINE n == [k EXCEPT !.pc = "record", !.stop = "error", !.bad = TRUE]
  <2>1. n \in Attempt
    BY PlaceValues DEF Attempt
  <2>2. at' = [at EXCEPT ![a] = n]
    BY <1>3 DEF Raise
  <2>3. AttemptOK(n, box[a], a \in late, gate[a])
    BY <1>1, <1>3 DEF Attempt, AttemptOK, BoxOK, CheckOK, RecordOK, OutcomeOK, Untouched,
       InContainer, Working, Finished, InDocker
  <2>4. k.pc \notin Finished
    BY <1>3 DEF Finished
  <2>5. QED
    BY <1>2, <1>3, <2>1, <2>2, <2>3, <2>4, OneGoes
<1>4. ASSUME k.pc \in {"create", "start", "attach", "kill", "inspect"}, Raise(a, "rm", "error"),
             late' = late \/ late' = late \cup {a}, box' = box
      PROVE  IInv'
  <2> DEFINE n == [k EXCEPT !.pc = "rm", !.stop = "error", !.bad = TRUE]
  <2> PICK b \in Boxes : b = box[a]
    BY OfOne
  <2>1. n \in Attempt /\ k.pc \in InDocker
    BY <1>4, PlaceValues DEF Attempt, InDocker
  <2>2. at' = [at EXCEPT ![a] = n] /\ box' = [box EXCEPT ![a] = b]
    BY <1>4 DEF Raise, IInv, TypeOK
  <2>3. n.bad /\ n.pc = "rm" /\ n.stop = "error"
    BY DEF Attempt
  <2> HIDE DEF n
  <2>4. /\ n.pc = "record" \/ (n.pc = "rm" /\ k.pc \notin {"rm", "confirm"})
        /\ n.pc = "record" => n.stop = "cleanup" /\ late' = late
        /\ n.pc = "rm" => n.stop \in {k.stop, "error"}
        /\ late' # late => n.stop = "error"
    BY <1>4, <2>3
  <2>5. b = box[a] \/ b \in {"none", "nonzero"}
    OBVIOUS
  <2>6. QED
    BY <1>2, <1>4, <2>1, <2>2, <2>3, <2>4, <2>5, FailsAt
<1>5. ASSUME k.pc \in {"rm", "confirm"}, Raise(a, "record", "cleanup"), late' = late,
             box' \in {box, [box EXCEPT ![a] = "none"]}
      PROVE  IInv'
  BY <1>2, <1>5, CleanupRaises
<1>6. QED
  BY <1>3, <1>4, <1>5 DEF CallFails, At

\* A lost call is counted as lost, or fails the check with reports.
LEMMA LoseAttachKeeps ==
  ASSUME IInv, NEW a \in Attempts, LoseAttach(a)
  PROVE  IInv'
<1> PICK k \in Attempt : k = at[a]
  BY OfOne
<1>1. k.pc = "attach" /\ AttemptOK(k, box[a], a \in late, gate[a]) /\ k.check \in Nat
  BY OfOne DEF LoseAttach, At, Attempt
<1>2. UNCHANGED <<head, late, gate, receipt, run, server>> /\ faults' \in Nat
  BY OfOne DEF LoseAttach, Fault, Steady
<1>3. PICK b \in Boxes : box' = [box EXCEPT ![a] = b] /\ b \in {box[a], "running"}
  BY OfOne DEF LoseAttach, IInv, TypeOK, Boxes
<1>4. CASE Reports(a)
  <2> DEFINE n == [k EXCEPT !.pc = "export", !.bad = TRUE]
  <2>1. n \in Attempt
    BY PlaceValues DEF Attempt
  <2>2. at' = [at EXCEPT ![a] = n]
    BY <1>4 DEF LoseAttach
  <2>3. BoxOK(n, b, a \in late')
    BY <1>1, <1>2, <1>3 DEF Attempt, AttemptOK, BoxOK, Untouched, InContainer, Finished
  <2>4. CheckOK(n, b) /\ OutcomeOK(n) /\ n.pc # "record" /\ k.pc \notin Finished
    BY <1>1 DEF Attempt, AttemptOK, CheckOK, OutcomeOK, Working, Finished, InDocker
  <2>5. QED
    BY <1>2, <1>3, <2>1, <2>2, <2>3, <2>4, DockerMoves
<1>5. CASE ~Reports(a)
  <2> DEFINE lost == k.lost \cup {k.check}
             n == [k EXCEPT !.pc = "inspect", !.lost = lost]
  <2>1. lost \in SUBSET Nat
    BY <1>1 DEF Attempt
  <2>2. n \in Attempt
    BY <2>1, PlaceValues DEF Attempt
  <2>3. at' = [at EXCEPT ![a] = n]
    BY <1>5 DEF LoseAttach
  <2>4. BoxOK(n, b, a \in late')
    BY <1>1, <1>2, <1>3 DEF Attempt, AttemptOK, BoxOK, Untouched, InContainer, Finished
  <2>5. CheckOK(n, b) /\ OutcomeOK(n) /\ n.pc # "record" /\ k.pc \notin Finished
    BY <1>1 DEF Attempt, AttemptOK, CheckOK, Good, OutcomeOK, Working, Finished, InDocker
  <2>6. QED
    BY <1>2, <1>3, <2>2, <2>3, <2>4, <2>5, DockerMoves
<1>6. QED
  BY <1>4, <1>5

\* A container that appears late is one of an attempt that stopped, so of none that passed.
LEMMA CreateLateKeeps ==
  ASSUME IInv, NEW a \in Attempts, CreateLate(a)
  PROVE  IInv'
<1> PICK k \in Attempt : k = at[a]
  BY OfOne
<1> PICK g \in Gate : g = gate[a]
  BY OfOne
<1> PICK l \in BOOLEAN : ~l
  OBVIOUS
<1>1. a \in late /\ late' = late \ {a} /\ "late" \in Boxes
  BY DEF CreateLate, Boxes
<1>2. AttemptOK(k, box[a], a \in late, g) /\ k.stop # "no"
  BY <1>1, OfOne DEF AttemptOK, BoxOK
<1>3. /\ at' = [at EXCEPT ![a] = k] /\ box' = [box EXCEPT ![a] = "late"]
      /\ gate' = [gate EXCEPT ![a] = g] /\ late' \subseteq Attempts
      /\ UNCHANGED <<head, receipt, run, server>> /\ faults' \in Nat
  BY <1>1 DEF CreateLate, IInv, TypeOK
<1>4. BoxOK(k, "late", l)
  BY <1>1, <1>2 DEF AttemptOK, BoxOK, Untouched, InContainer
<1>5. CheckOK(k, "late") /\ OutcomeOK(k) /\ GateOK(g)
  BY <1>2 DEF AttemptOK, BoxOK, CheckOK, InContainer
<1>6. ~Evidence(k, box[a], a \in late, g)
  BY <1>1 DEF Evidence
<1>7. RecordOK(k, "late", l, g)
  BY <1>2, <1>6 DEF AttemptOK, RecordOK
<1>8. (l <=> a \in late') /\ \A c \in Attempts \ {a} : c \in late' <=> c \in late
  BY <1>1
<1>9. QED
  BY <1>1, <1>3, <1>4, <1>5, <1>6, <1>7, <1>8, OneMoves

\* A failed preparation or transaction leaves the attempt to be repeated.
LEMMA ActivityFailsKeeps ==
  ASSUME IInv, NEW a \in Attempts, ActivityFails(a)
  PROVE  IInv'
<1> PICK k \in Attempt : k = at[a]
  BY OfOne
<1> DEFINE n == [k EXCEPT !.pc = "retry"]
<1>1. k.pc \in {"begin", "record", "mark"} /\ AttemptOK(k, box[a], a \in late, gate[a])
  BY OfOne DEF ActivityFails
<1>2. n \in Attempt
  BY PlaceValues DEF Attempt
<1>3. at' = [at EXCEPT ![a] = n]
  BY DEF ActivityFails, To
<1>4. UNCHANGED <<head, box, late, gate, receipt, run, server>> /\ faults' \in Nat
  BY OfOne DEF ActivityFails, Fault
<1>5. AttemptOK(n, box[a], a \in late, gate[a])
  BY <1>1 DEF Attempt, AttemptOK, BoxOK, CheckOK, RecordOK, OutcomeOK, Untouched, InContainer,
     Working, Finished, InDocker
<1>6. n.pc \in Finished /\ <<n.bad, n.proof, n.passed, n.lost>> = <<k.bad, k.proof, k.passed, k.lost>>
  BY DEF Attempt, Finished
<1>7. QED
  BY <1>2, <1>3, <1>4, <1>5, <1>6, OneGoes

\* A cancellation keeps the reason the cleanup had to be left in the state it found.
LEMMA CancelKeeps ==
  ASSUME IInv, NEW a \in Attempts, Cancel(a)
  PROVE  IInv'
<1> PICK k \in Attempt : k = at[a]
  BY OfOne
<1> PICK b \in Boxes : b = box[a]
  BY OfOne
<1>1. AttemptOK(k, b, a \in late, gate[a])
  BY OfOne
<1>2. /\ UNCHANGED <<head, box, receipt, run, server>> /\ faults' \in Nat
      /\ late' \in {late, late \cup {a}} /\ (k.pc # "create" => late' = late)
      /\ box' = [box EXCEPT ![a] = b]
  BY OfOne DEF Cancel, Fault, At, IInv, TypeOK
<1>3. ASSUME k.pc \in InDocker, UNCHANGED gate,
             at' = [at EXCEPT ![a].stop = "cancelled",
                              ![a].pc = IF @ \in {"rm", "confirm"} THEN @ ELSE "rm"]
      PROVE  IInv'
  <2> PICK pc \in {"rm", "confirm"} : pc = IF k.pc \in {"rm", "confirm"} THEN k.pc ELSE "rm"
    OBVIOUS
  <2> DEFINE n == [k EXCEPT !.stop = "cancelled", !.pc = pc]
  <2>1. n \in Attempt
    BY PlaceValues DEF Attempt
  <2>2. at' = [at EXCEPT ![a] = n]
    BY <1>3
  <2>3. /\ n.pc = pc /\ n.stop = "cancelled" /\ n.bad = k.bad /\ n.check = k.check
        /\ n.passed = k.passed /\ n.lost = k.lost
    BY DEF Attempt
  <2> HIDE DEF n
  <2>4. BoxOK(n, b, a \in late')
    BY <1>1, <2>3 DEF AttemptOK, BoxOK, Untouched, InContainer, Finished
  <2>5. CheckOK(n, b) /\ OutcomeOK(n) /\ n.pc # "record" /\ k.pc \notin Finished
    BY <1>1, <1>3, <2>3 DEF AttemptOK, CheckOK, Good, OutcomeOK, Working, Finished, InDocker
  <2>6. QED
    BY <1>2, <1>3, <2>1, <2>2, <2>4, <2>5, DockerMoves
<1>4. ASSUME k.pc = "proof", CancelGate(a), at' = [at EXCEPT ![a].stop = "cancelled"]
      PROVE  IInv'
  <2> DEFINE n == [k EXCEPT !.stop = "cancelled"]
  <2> PICK l \in BOOLEAN : ~l
    OBVIOUS
  <2>1. n \in Attempt
    BY DEF Attempt
  <2>2. at' = [at EXCEPT ![a] = n]
    BY <1>4
  <2>3. /\ n.pc = "proof" /\ n.stop = "cancelled" /\ n.bad = k.bad /\ n.check = k.check
        /\ n.passed = k.passed /\ n.lost = k.lost
    BY <1>4 DEF Attempt
  <2> HIDE DEF n
  <2>4. PICK g \in Gate : gate' = [gate EXCEPT ![a] = g] /\ GateOK(g)
    BY <1>4, CancelMoves DEF GateMoves, Now
  <2>5. a \notin late /\ late' = late /\ late' \subseteq Attempts
    BY <1>1, <1>2, <1>4 DEF AttemptOK, BoxOK, IInv, TypeOK
  <2>6. BoxOK(n, b, l)
    BY <1>1, <1>4, <2>3 DEF AttemptOK, BoxOK, Untouched, InContainer, Finished
  <2>7. CheckOK(n, b)
    BY <1>1, <1>4, <2>3 DEF AttemptOK, CheckOK, Good, Working
  <2>8. RecordOK(n, b, l, g) /\ OutcomeOK(n) /\ k.pc \notin Finished
    BY <1>4, <2>3 DEF RecordOK, OutcomeOK, Finished
  <2>9. QED
    BY <1>2, <2>1, <2>2, <2>4, <2>5, <2>6, <2>7, <2>8, OneMoves
<1>5. ASSUME k.pc \notin InDocker, Live(a), To(a, "cancelled"), UNCHANGED gate
      PROVE  IInv'
  <2> DEFINE n == [k EXCEPT !.pc = "cancelled"]
  <2>1. n \in Attempt
    BY PlaceValues DEF Attempt
  <2>2. at' = [at EXCEPT ![a] = n]
    BY <1>5 DEF To
  <2>3. late' = late
    BY <1>2, <1>5 DEF InDocker
  <2>4. AttemptOK(n, b, a \in late, gate[a])
    BY <1>1, <1>5 DEF Attempt, AttemptOK, BoxOK, CheckOK, RecordOK, OutcomeOK, Untouched, InContainer,
       Working, Finished, InDocker, Live, Ended, Places
  <2>5. n.pc \in Finished /\ <<n.bad, n.proof, n.passed, n.lost>> = <<k.bad, k.proof, k.passed, k.lost>>
    BY DEF Attempt, Finished
  <2>6. QED
    BY <1>2, <1>5, <2>1, <2>2, <2>3, <2>4, <2>5, OneGoes
<1>6. QED
  BY <1>3, <1>4, <1>5 DEF Cancel, At

-----------------------------------------------------------------------------
(* The receipt, the run and Temporal *)

\* A step that writes the receipt, the run or the verdict of the stage, and moves one attempt.
LEMMA OneConcludes ==
  ASSUME IInv, NEW a \in Attempts, NEW k \in Attempt, at' = [at EXCEPT ![a] = k],
         UNCHANGED <<head, box, late, gate>>, TypeOK', ReceiptOK', VerdictOK',
         BoxOK(k, box[a], a \in late), CheckOK(k, box[a]), k.pc # "record", OutcomeOK(k)',
         \A c \in Attempts \ {a} : OutcomeOK(at[c])'
  PROVE  IInv'
<1>1. Plan' = Plan /\ Selected' = Selected
  BY PlanKept
<1>2. at'[a] = k
  BY DEF IInv, TypeOK
<1>3. AttemptOK(at[a], box[a], a \in late, gate[a])'
  <2>1. GateOK(gate[a])
    BY OfOne DEF AttemptOK
  <2>2. BoxOK(at[a], box[a], a \in late)'
    BY <1>2 DEF BoxOK
  <2>3. CheckOK(at[a], box[a])'
    BY <1>1, <1>2 DEF CheckOK, Good
  <2>4. RecordOK(at[a], box[a], a \in late, gate[a])' /\ OutcomeOK(at[a])'
    BY <1>2 DEF RecordOK, OutcomeOK
  <2>5. GateOK(gate[a])'
    BY <2>1 DEF GateOK
  <2>6. QED
    BY <2>2, <2>3, <2>4, <2>5 DEF AttemptOK
<1>4. ASSUME NEW c \in Attempts, c # a PROVE AttemptOK(at[c], box[c], c \in late, gate[c])'
  <2>1. at'[c] = at[c] /\ AttemptOK(at[c], box[c], c \in late, gate[c])
    BY <1>4 DEF IInv, TypeOK
  <2>2. BoxOK(at[c], box[c], c \in late)'
    BY <2>1 DEF AttemptOK, BoxOK
  <2>3. CheckOK(at[c], box[c])'
    BY <1>1, <2>1 DEF AttemptOK, CheckOK, Good
  <2>4. RecordOK(at[c], box[c], c \in late, gate[c])'
    BY <1>1, <2>1 DEF AttemptOK, RecordOK, Evidence, Good
  <2>5. GateOK(gate[c])'
    BY <2>1 DEF AttemptOK, GateOK
  <2>6. OutcomeOK(at[c])'
    BY <1>4
  <2>7. QED
    BY <2>2, <2>3, <2>4, <2>5, <2>6 DEF AttemptOK
<1>5. QED
  BY <1>3, <1>4 DEF IInv

\* Only an attempt that is not bad, with its evidence, writes a receipt that passed.
LEMMA RecordKeeps ==
  ASSUME IInv, NEW a \in Attempts, Record(a)
  PROVE  IInv'
<1> PICK k \in Attempt : k = at[a]
  BY OfOne
<1>1. k.pc = "record" /\ AttemptOK(k, box[a], a \in late, gate[a])
  BY OfOne DEF Record, At
<1>2. UNCHANGED <<head, box, late, gate, run, server>> /\ faults' \in Nat
  BY OfOne DEF Record
<1>3. k.pc \notin Finished
  BY <1>1 DEF Finished
<1>4. ASSUME NEW pc \in {"retry", "failed"}, To(a, pc), UNCHANGED receipt,
             pc = "failed" => receipt.by # 0 /\ ~receipt.passed
      PROVE  IInv'
  <2> DEFINE n == [k EXCEPT !.pc = pc]
  <2>1. n \in Attempt
    BY PlaceValues DEF Attempt
  <2>2. at' = [at EXCEPT ![a] = n]
    BY <1>4 DEF To
  <2>3. AttemptOK(n, box[a], a \in late, gate[a])
    BY <1>1, <1>4 DEF Attempt, AttemptOK, BoxOK, CheckOK, RecordOK, OutcomeOK, Untouched, InContainer,
       Working, Finished, InDocker
  <2>4. QED
    BY <1>2, <1>3, <1>4, <2>1, <2>2, <2>3, OneGoes
<1>5. ASSUME receipt.by = 0, receipt' = [by |-> a, passed |-> Sound(a)],
             To(a, IF Sound(a) THEN "mark" ELSE "failed")
      PROVE  IInv'
  <2> PICK passed \in BOOLEAN : passed <=> ~k.bad /\ k.proof = "passed"
    <3>1. CASE ~k.bad /\ k.proof = "passed"
      BY <3>1
    <3>2. CASE ~(~k.bad /\ k.proof = "passed")
      BY <3>2
    <3>3. QED
      BY <3>1, <3>2
  <2> PICK pc \in {"mark", "failed"} : pc = IF passed THEN "mark" ELSE "failed"
    OBVIOUS
  <2> DEFINE n == [k EXCEPT !.pc = pc]
  <2>1. n \in Attempt
    BY PlaceValues DEF Attempt
  <2>2. Sound(a) <=> passed
    BY DEF Sound
  <2>3. at' = [at EXCEPT ![a] = n]
    BY <1>5, <2>2 DEF To
  <2>4. receipt' \in [by : Attempts \cup {0}, passed : BOOLEAN] /\ receipt'.by = a /\ (receipt'.passed <=> passed)
    BY <1>5, <2>2 DEF Sound
  <2>5. /\ n.pc = pc /\ n.stop = k.stop /\ n.bad = k.bad /\ n.check = k.check
        /\ n.passed = k.passed /\ n.lost = k.lost /\ n.proof = k.proof
    BY DEF Attempt
  <2> HIDE DEF n
  <2>6. ~receipt.passed
    BY <1>5 DEF IInv, ReceiptOK, Attempts
  <2>7. TypeOK'
    BY <1>2, <2>1, <2>3, <2>4 DEF IInv, TypeOK
  <2>8. VerdictOK'
    BY <1>2, <2>6 DEF IInv, VerdictOK
  <2>9. at'[a] = n
    BY <2>3 DEF IInv, TypeOK
  <2>10. passed => Evidence(k, box[a], a \in late, gate[a])
    BY <1>1 DEF AttemptOK, RecordOK
  <2>11. passed => Evidence(n, box[a], a \in late, gate[a]) /\ n.pc \in Finished
    BY <2>5, <2>10 DEF Evidence, Good, Finished
  <2>12. ReceiptOK'
    <3>1. Plan' = Plan /\ Selected' = Selected
      BY <1>2, PlanKept
    <3>2. passed => Evidence(at[a], box[a], a \in late, gate[a])'
      BY <1>2, <2>9, <2>11, <3>1 DEF Evidence, Good
    <3>3. QED
      BY <2>4, <2>9, <2>11, <3>2 DEF ReceiptOK
  <2>13. BoxOK(n, box[a], a \in late)
    BY <1>1, <2>5 DEF AttemptOK, BoxOK, Untouched, InContainer, Finished
  <2>14. CheckOK(n, box[a]) /\ n.pc # "record"
    BY <2>5 DEF CheckOK, Working, InDocker
  <2>15. OutcomeOK(n)'
    BY <2>4, <2>5 DEF OutcomeOK, Attempts
  <2>16. ASSUME NEW c \in Attempts \ {a} PROVE OutcomeOK(at[c])'
    <3>1. at'[c] = at[c] /\ OutcomeOK(at[c])
      BY <2>3, OfOne DEF IInv, TypeOK, AttemptOK
    <3>2. QED
      BY <1>5, <2>6, <3>1 DEF OutcomeOK
  <2>17. QED
    BY <1>2, <2>1, <2>3, <2>7, <2>8, <2>12, <2>13, <2>14, <2>15, <2>16, OneConcludes
<1>6. QED
  BY <1>4, <1>5 DEF Record

\* The run awaits approval under a receipt that passed.
LEMMA MarkKeeps ==
  ASSUME IInv, NEW a \in Attempts, Mark(a)
  PROVE  IInv'
<1> PICK k \in Attempt : k = at[a]
  BY OfOne
<1>1. k.pc = "mark" /\ AttemptOK(k, box[a], a \in late, gate[a])
  BY OfOne DEF Mark, At
<1>2. UNCHANGED <<head, box, late, gate, receipt, server>> /\ faults' \in Nat
  BY OfOne DEF Mark
<1>3. PICK pc \in {"retry", "passed"} :
        To(a, pc) /\ (pc = "retry" => run' = run) /\ (pc = "passed" => run' = "awaiting")
  BY DEF Mark
<1> DEFINE n == [k EXCEPT !.pc = pc]
<1>4. n \in Attempt
  BY PlaceValues DEF Attempt
<1>5. at' = [at EXCEPT ![a] = n]
  BY <1>3 DEF To
<1>6. /\ n.pc = pc /\ n.stop = k.stop /\ n.bad = k.bad /\ n.check = k.check
      /\ n.passed = k.passed /\ n.lost = k.lost /\ n.proof = k.proof
  BY DEF Attempt
<1> HIDE DEF n
<1>7. receipt.passed /\ n.pc \in Finished
  BY <1>1, <1>6 DEF AttemptOK, OutcomeOK, Finished
<1>8. TypeOK' /\ VerdictOK'
  BY <1>2, <1>3, <1>4, <1>5, <1>7 DEF IInv, TypeOK, VerdictOK
<1>9. ReceiptOK'
  <2>1. Plan' = Plan /\ Selected' = Selected
    BY <1>2, PlanKept
  <2>2. /\ receipt.by \in Attempts /\ at[receipt.by].pc \in Finished
        /\ Evidence(at[receipt.by], box[receipt.by], receipt.by \in late, gate[receipt.by])
    BY <1>7 DEF IInv, ReceiptOK
  <2>3. /\ at'[receipt.by].pc \in Finished
        /\ at'[receipt.by].bad = at[receipt.by].bad /\ at'[receipt.by].proof = at[receipt.by].proof
        /\ at'[receipt.by].passed = at[receipt.by].passed /\ at'[receipt.by].lost = at[receipt.by].lost
    BY <1>5, <1>6, <1>7, <2>2 DEF IInv, TypeOK
  <2>4. Evidence(at[receipt.by], box[receipt.by], receipt.by \in late, gate[receipt.by])'
    BY <1>2, <2>1, <2>2, <2>3 DEF Evidence, Good
  <2>5. QED
    BY <1>2, <2>2, <2>3, <2>4 DEF ReceiptOK
<1>10. BoxOK(n, box[a], a \in late)
  BY <1>1, <1>6 DEF AttemptOK, BoxOK, Untouched, InContainer, Finished
<1>11. CheckOK(n, box[a]) /\ n.pc # "record" /\ OutcomeOK(n)'
  BY <1>2, <1>3, <1>6, <1>7 DEF CheckOK, OutcomeOK, Working, InDocker
<1>12. ASSUME NEW c \in Attempts \ {a} PROVE OutcomeOK(at[c])'
  <2>1. at'[c] = at[c] /\ OutcomeOK(at[c])
    BY <1>5, OfOne DEF IInv, TypeOK, AttemptOK
  <2>2. QED
    BY <1>2, <1>3, <2>1 DEF OutcomeOK
<1>13. QED
  BY <1>2, <1>4, <1>5, <1>8, <1>9, <1>10, <1>11, <1>12, OneConcludes

\* A new attempt has seen nothing.
LEMMA StartAttemptKeeps == ASSUME IInv, StartAttempt PROVE IInv'
<1>1. PICK a \in Attempts : At(a, "absent") /\ To(a, "begin") /\ server' = [server EXCEPT !.waits = a]
  BY DEF StartAttempt
<1> PICK k \in Attempt : k = at[a]
  BY OfOne
<1> DEFINE n == [k EXCEPT !.pc = "begin"]
<1>2. UNCHANGED <<head, gate, box, late, receipt, run, faults>>
  BY DEF StartAttempt
<1>3. k.pc = "absent" /\ AttemptOK(k, box[a], a \in late, gate[a])
  BY <1>1, OfOne DEF At
<1>4. n \in Attempt
  BY PlaceValues DEF Attempt
<1>5. at' = [at EXCEPT ![a] = n]
  BY <1>1 DEF To
<1>6. n.pc = "begin" /\ n.stop = k.stop /\ n.bad = k.bad /\ n.check = k.check
  BY DEF Attempt
<1> HIDE DEF n
<1>7. TypeOK' /\ VerdictOK'
  BY <1>1, <1>2, <1>4, <1>5 DEF IInv, TypeOK, VerdictOK
<1>8. ReceiptOK'
  <2> SUFFICES ASSUME receipt.passed
               PROVE  /\ receipt.by \in Attempts /\ at'[receipt.by].pc \in Finished
                      /\ Evidence(at[receipt.by], box[receipt.by], receipt.by \in late,
                                  gate[receipt.by])'
    BY <1>2 DEF ReceiptOK
  <2>1. Plan' = Plan /\ Selected' = Selected
    BY <1>2, PlanKept
  <2>2. /\ receipt.by \in Attempts /\ at[receipt.by].pc \in Finished
        /\ Evidence(at[receipt.by], box[receipt.by], receipt.by \in late, gate[receipt.by])
    BY DEF IInv, ReceiptOK
  <2>3. at'[receipt.by] = at[receipt.by]
    BY <1>3, <1>5, <2>2 DEF IInv, TypeOK, Finished
  <2>4. QED
    BY <1>2, <2>1, <2>2, <2>3 DEF Evidence, Good
<1>9. BoxOK(n, box[a], a \in late)
  BY <1>3, <1>6 DEF AttemptOK, BoxOK, Untouched, InContainer, Finished
<1>10. CheckOK(n, box[a]) /\ n.pc # "record" /\ OutcomeOK(n)'
  BY <1>3, <1>6 DEF AttemptOK, CheckOK, OutcomeOK, Working, InDocker
<1>11. ASSUME NEW c \in Attempts \ {a} PROVE OutcomeOK(at[c])'
  <2>1. at'[c] = at[c] /\ OutcomeOK(at[c])
    BY <1>5, OfOne DEF IInv, TypeOK, AttemptOK
  <2>2. QED
    BY <1>2, <2>1 DEF OutcomeOK
<1>12. QED
  BY <1>2, <1>4, <1>5, <1>7, <1>8, <1>9, <1>10, <1>11, OneConcludes

\* Temporal and a push leave the attempts alone.
LEMMA OutsideKeeps ==
  ASSUME IInv, Answer \/ Abandon \/ Deactivate
  PROVE  IInv'
<1>1. UNCHANGED <<head, at, box, late, gate, receipt>> /\ faults' \in Nat
  BY DEF Answer, Abandon, Deactivate, Fault, IInv, TypeOK
<1>2. Plan' = Plan /\ Selected' = Selected
  BY <1>1, PlanKept
<1>3. /\ run' \in {run, "inactive"}
      /\ server' \in [waits : Attempts \cup {0}, verdict : {"none", "passed", "failed"}]
      /\ server'.verdict = "passed" => server.verdict = "passed" \/ (receipt.passed /\ run # "verifying")
  <2>1. CASE Answer
    <3>1. PICK a \in Attempts :
            /\ run' = run
            /\ \/ at[a].pc \in {"passed", "failed"} /\ server' = [waits |-> 0, verdict |-> at[a].pc]
               \/ Unanswered(a)
      BY <2>1 DEF Answer, IInv, TypeOK
    <3>2. at[a].pc = "passed" => receipt.passed /\ run # "verifying"
      BY OfOne DEF AttemptOK, OutcomeOK
    <3>3. QED
      BY <3>1, <3>2 DEF Unanswered
  <2>2. CASE Abandon
    BY <2>2 DEF Abandon, Unanswered
  <2>3. CASE Deactivate
    BY <2>3 DEF Deactivate, IInv, TypeOK
  <2>4. QED
    BY <2>1, <2>2, <2>3
<1>4. TypeOK'
  BY <1>1, <1>3 DEF IInv, TypeOK
<1>5. VerdictOK'
  BY <1>1, <1>3 DEF IInv, TypeOK, VerdictOK
<1>6. ReceiptOK'
  BY <1>1, <1>2 DEF IInv, ReceiptOK, Evidence, Good
<1>7. ASSUME NEW c \in Attempts PROVE AttemptOK(at[c], box[c], c \in late, gate[c])'
  <2>1. AttemptOK(at[c], box[c], c \in late, gate[c])
    BY OfOne
  <2>2. BoxOK(at[c], box[c], c \in late)' /\ GateOK(gate[c])'
    BY <1>1, <2>1 DEF AttemptOK, BoxOK, GateOK
  <2>3. CheckOK(at[c], box[c])' /\ RecordOK(at[c], box[c], c \in late, gate[c])'
    BY <1>1, <1>2, <2>1 DEF AttemptOK, CheckOK, RecordOK, Evidence, Good
  <2>4. OutcomeOK(at[c])'
    BY <1>1, <1>3, <2>1 DEF AttemptOK, OutcomeOK
  <2>5. QED
    BY <2>2, <2>3, <2>4 DEF AttemptOK
<1>8. QED
  BY <1>4, <1>5, <1>6, <1>7 DEF IInv

\* The attempts that were at work are dead, those that were over stay as they were.
LEMMA CrashKeeps == ASSUME IInv, Crash PROVE IInv'
<1>1. UNCHANGED <<head, box, late, receipt, run, server>> /\ faults' \in Nat
  BY DEF Crash, Fault, IInv, TypeOK
<1>2. Plan' = Plan /\ Selected' = Selected
  BY <1>1, PlanKept
<1>3. ASSUME NEW a \in Attempts
      PROVE  /\ at'[a] \in Attempt /\ gate'[a] \in Gate
             /\ (at'[a] = at[a] /\ ~Live(a)) \/ (Live(a) /\ at'[a] = [at[a] EXCEPT !.pc = "dead"])
             /\ GateOK(gate'[a]) /\ (gate[a].pc = "over" => gate'[a].pc = "over")
  <2> PICK k \in Attempt : k = at[a]
    BY OfOne
  <2>1. [k EXCEPT !.pc = "dead"] \in Attempt
    BY DEF Attempt, Places, Finished
  <2>2. at'[a] = IF Live(a) THEN [k EXCEPT !.pc = "dead"] ELSE k
    BY DEF Crash
  <2>3. gate'[a] = Orphaned(gate[a])
    BY DEF Crash
  <2>4. gate[a] \in Gate /\ GateOK(gate[a])
    BY OfOne DEF AttemptOK
  <2>5. QED
    BY <2>1, <2>2, <2>3, <2>4, Results DEF Orphaned
<1>4. at' \in [Attempts -> Attempt] /\ gate' \in [Attempts -> Gate]
  <2>1. DOMAIN at' = Attempts /\ at' = [a \in Attempts |-> at'[a]]
    BY DEF Crash
  <2>2. DOMAIN gate' = Attempts /\ gate' = [a \in Attempts |-> gate'[a]]
    BY DEF Crash
  <2>3. QED
    BY <1>3, <2>1, <2>2
<1>5. TypeOK' /\ VerdictOK'
  BY <1>1, <1>4 DEF IInv, TypeOK, VerdictOK
<1>6. ASSUME NEW a \in Attempts
      PROVE  /\ at'[a].pc \in {at[a].pc, "dead"} /\ (at[a].pc \in Finished => at'[a].pc \in Finished)
             /\ at'[a].bad = at[a].bad /\ at'[a].proof = at[a].proof /\ at'[a].stop = at[a].stop
             /\ at'[a].check = at[a].check /\ at'[a].passed = at[a].passed /\ at'[a].lost = at[a].lost
  <2> PICK k \in Attempt : k = at[a]
    BY OfOne
  <2> DEFINE n == [k EXCEPT !.pc = "dead"]
  <2>1. /\ n.pc = "dead" /\ n.pc \in Finished /\ n.bad = k.bad /\ n.proof = k.proof /\ n.stop = k.stop
        /\ n.check = k.check /\ n.passed = k.passed /\ n.lost = k.lost
    BY DEF Attempt, Finished
  <2>2. at'[a] = k \/ at'[a] = n
    BY <1>3
  <2> HIDE DEF n
  <2>3. QED
    BY <2>1, <2>2
<1>7. ReceiptOK'
  <2> SUFFICES ASSUME receipt.passed
               PROVE  /\ receipt.by \in Attempts /\ at'[receipt.by].pc \in Finished
                      /\ Evidence(at[receipt.by], box[receipt.by], receipt.by \in late,
                                  gate[receipt.by])'
    BY <1>1 DEF ReceiptOK
  <2>1. /\ receipt.by \in Attempts /\ at[receipt.by].pc \in Finished
        /\ Evidence(at[receipt.by], box[receipt.by], receipt.by \in late, gate[receipt.by])
    BY DEF IInv, ReceiptOK
  <2>2. QED
    BY <1>1, <1>2, <1>3, <1>6, <2>1 DEF Evidence, Good
<1>8. ASSUME NEW a \in Attempts PROVE AttemptOK(at[a], box[a], a \in late, gate[a])'
  <2>1. AttemptOK(at[a], box[a], a \in late, gate[a])
    BY OfOne
  <2>2. CASE at'[a] = at[a]
    <3>1. BoxOK(at[a], box[a], a \in late)' /\ GateOK(gate[a])'
      BY <1>1, <1>3, <2>1, <2>2 DEF AttemptOK, BoxOK, GateOK
    <3>2. CheckOK(at[a], box[a])'
      BY <1>1, <1>2, <2>1, <2>2 DEF AttemptOK, CheckOK, Good
    <3>3. RecordOK(at[a], box[a], a \in late, gate[a])'
      BY <1>1, <1>2, <1>3, <2>1, <2>2 DEF AttemptOK, RecordOK, Evidence, Good
    <3>4. OutcomeOK(at[a])'
      BY <1>1, <2>1, <2>2 DEF AttemptOK, OutcomeOK
    <3>5. QED
      BY <3>1, <3>2, <3>3, <3>4 DEF AttemptOK
  <2>3. CASE at'[a].pc = "dead" /\ Live(a)
    <3>1. BoxOK(at[a], box[a], a \in late)' /\ GateOK(gate[a])'
      BY <1>1, <1>3, <1>6, <2>1, <2>3 DEF AttemptOK, BoxOK, GateOK, Untouched, InContainer, Finished
    <3>2. CheckOK(at[a], box[a])' /\ RecordOK(at[a], box[a], a \in late, gate[a])' /\ OutcomeOK(at[a])'
      BY <2>3 DEF CheckOK, RecordOK, OutcomeOK, Working, InDocker
    <3>3. QED
      BY <3>1, <3>2 DEF AttemptOK
  <2>4. QED
    <3>1. at'[a] = [at[a] EXCEPT !.pc = "dead"] => at'[a].pc = "dead"
      BY OfOne DEF Attempt
    <3>2. QED
      BY <1>3, <2>2, <2>3, <3>1
<1>9. QED
  BY <1>5, <1>7, <1>8 DEF IInv

-----------------------------------------------------------------------------
(* Theorems *)

\* The invariant holds at first.
LEMMA Begins == Init => IInv
<1> SUFFICES ASSUME Init PROVE IInv
  OBVIOUS
<1>1. Absent \in Attempt
  BY PlaceValues DEF Absent, Attempt
<1>2. NoReceipt \in [by : Attempts \cup {0}, passed : BOOLEAN] /\ ~NoReceipt.passed
  BY DEF NoReceipt
<1>3. TypeOK
  <2>1. "none" \in Boxes /\ NoGate \in Gate
    BY Results DEF Boxes
  <2>2. QED
    BY <1>1, <1>2, <2>1 DEF Init, TypeOK
<1>4. ReceiptOK /\ VerdictOK
  BY <1>2 DEF Init, ReceiptOK, VerdictOK
<1>5. ASSUME NEW a \in Attempts PROVE AttemptOK(at[a], box[a], a \in late, gate[a])
  <2>1. at[a] = Absent /\ box[a] = "none" /\ a \notin late /\ gate[a] = NoGate
    BY DEF Init
  <2>2. QED
    BY <2>1, Results DEF Absent, AttemptOK, BoxOK, CheckOK, RecordOK, OutcomeOK, Untouched, InContainer,
       Working, Finished, InDocker
<1>6. QED
  BY <1>3, <1>4, <1>5 DEF IInv

\* Every step keeps the invariant.
LEMMA Goes == IInv /\ [Next]_vars => IInv'
<1> SUFFICES ASSUME IInv, [Next]_vars PROVE IInv'
  OBVIOUS
<1>1. ASSUME NEW a \in Attempts, Step(a) PROVE IInv'
  BY <1>1, PrepareKeeps, NextCheckKeeps, GateKeeps, ProofKeeps, RecordKeeps, MarkKeeps, StageKeeps,
     CreateKeeps, StartKeeps, AttachKeeps, KillKeeps, InspectKeeps, ExportKeeps,
     RemoveContainerKeeps, ConfirmKeeps DEF Step
<1>2. ASSUME NEW a \in Attempts,
             CallFails(a) \/ LoseAttach(a) \/ CreateLate(a) \/ KillSupervisor(a)
             \/ ActivityFails(a) \/ Cancel(a)
      PROVE  IInv'
  BY <1>2, CallFailsKeeps, LoseAttachKeeps, CreateLateKeeps, GateKeeps, ActivityFailsKeeps, CancelKeeps
<1>3. CASE StartAttempt \/ Answer \/ Abandon \/ Deactivate \/ Crash
  BY <1>3, StartAttemptKeeps, OutsideKeeps, CrashKeeps
<1>4. CASE UNCHANGED vars
  <2>1. UNCHANGED <<head, at, box, late, gate, receipt, run, server, faults>>
    BY <1>4 DEF vars
  <2>2. Plan' = Plan /\ Selected' = Selected
    BY <2>1, PlanKept
  <2>3. TypeOK' /\ VerdictOK'
    BY <2>1 DEF IInv, TypeOK, VerdictOK
  <2>4. ReceiptOK'
    BY <2>1, <2>2 DEF IInv, ReceiptOK, Evidence, Good
  <2>5. ASSUME NEW a \in Attempts PROVE AttemptOK(at[a], box[a], a \in late, gate[a])'
    <3>1. AttemptOK(at[a], box[a], a \in late, gate[a])
      BY OfOne
    <3>2. QED
      BY <2>1, <2>2, <3>1 DEF AttemptOK, BoxOK, CheckOK, RecordOK, Evidence, OutcomeOK, GateOK, Good
  <2>6. QED
    BY <2>3, <2>4, <2>5 DEF IInv
<1>5. QED
  BY <1>1, <1>2, <1>3, <1>4 DEF Next

\* The state is well typed, what an attempt knows matches its containers and its gate, and
\* what a receipt that passed rests on is there, whatever the configuration, the number of
\* attempts and what fails (sandbox/docker.py, activities/sandbox.py, adapter.py).
THEOREM InductiveInvariant == Spec => []IInv
<1>1. QED
  BY Begins, Goes, PTL DEF Spec

\* A verification passes only on one attempt's evidence of every selected check and of the
\* proof gate, and only then the run waits for approval and the workflow goes on
\* (record_verification and _mark_awaiting_approval, providers/operations.py).
THEOREM PassesOnEvidence == Spec => []VerdictSound
<1>1. IInv => VerdictSound
  <2> SUFFICES ASSUME IInv PROVE VerdictSound
    OBVIOUS
  <2>1. receipt.passed =>
          /\ Plan.error = "none" /\ Plan.checks # <<>> /\ at[receipt.by].proof = "passed"
          /\ Selected \subseteq at[receipt.by].passed \cup at[receipt.by].lost
    BY DEF IInv, ReceiptOK, Evidence, Good
  <2>2. \A a \in Attempts : At(a, "failed") => receipt.by # 0 /\ ~receipt.passed
    BY OfOne DEF AttemptOK, OutcomeOK, At
  <2>3. QED
    BY <2>1, <2>2 DEF VerdictSound, IInv, VerdictOK
<1>2. QED
  BY <1>1, InductiveInvariant, PTL

\* No container is left by an attempt that goes on or is over, nor a process of its gate, but
\* for a cleanup that failed and a creation carried out late; none at all is left by the one
\* that passed (_remove_container, docker.py; _terminate_process_tree, adapter.py).
THEOREM NothingStays == Spec => []NothingLeftRunning
<1>1. IInv => NothingLeftRunning
  <2> SUFFICES ASSUME IInv PROVE NothingLeftRunning
    OBVIOUS
  <2>1. ASSUME NEW a \in Attempts,
               at[a].pc \in {"next", "proof", "record", "mark", "passed", "failed", "retry", "cancelled"},
               box[a] # "none"
        PROVE  at[a].stop = "cleanup" \/ (box[a] = "late" /\ at[a].stop # "no")
    BY <2>1, OfOne DEF AttemptOK, BoxOK, Untouched, Finished
  <2>2. ASSUME NEW a \in Attempts, at[a].stop = "cleanup", receipt.passed, receipt.by = a
        PROVE  FALSE
    BY <2>2, OfOne DEF AttemptOK, BoxOK, IInv, ReceiptOK, Evidence
  <2>3. ASSUME NEW a \in Attempts, In(a, "over")
        PROVE  ~LeftRunning(a)
    BY <2>3, OfOne DEF AttemptOK, GateOK, In, LeftRunning, Supervisor
  <2>4. receipt.passed => box[receipt.by] = "none" /\ ~LeftRunning(receipt.by)
    BY <2>3 DEF IInv, ReceiptOK, Evidence, In
  <2>5. QED
    BY <2>1, <2>2, <2>3, <2>4 DEF NothingLeftRunning
<1>2. QED
  BY <1>1, InductiveInvariant, PTL

-----------------------------------------------------------------------------
(* The path filters *)

\* A set of numbers has a smallest element: the sets 1 .. k, ordered by inclusion,
\* are well-founded.
LEMMA SmallestOf ==
  ASSUME NEW T, T \subseteq Nat, T # {}
  PROVE  \E m \in T : \A k \in T : m <= k
<1> DEFINE R == StrictSubsetOrdering(Nat)
           F == {1 .. k : k \in T}
<1>1. F \subseteq FiniteSubsetsOf(Nat) /\ F # {}
  <2>1. ASSUME NEW k \in T PROVE 1 .. k \subseteq Nat /\ IsFiniteSet(1 .. k)
    BY FS_Interval
  <2>2. QED
    BY <2>1 DEF FiniteSubsetsOf
<1>2. IsWellFoundedOn(R, FiniteSubsetsOf(Nat))
  BY FS_StrictSubsetOrderingWellFounded
<1>3. \E x \in F : \A y \in F : ~(<<y, x>> \in R)
  <2> HIDE DEF R, F
  <2>1. QED
    BY <1>1, <1>2, WFMin
<1>4. PICK m \in T : \A y \in F : ~(<<y, 1 .. m>> \in R)
  BY <1>3
<1>5. ASSUME NEW k \in T, k < m PROVE FALSE
  <2>1. 1 .. k \in F /\ 1 .. k \subseteq 1 .. m /\ m \in 1 .. m /\ m \notin 1 .. k
    BY <1>5
  <2>2. 1 .. k \in SUBSET Nat /\ 1 .. m \in SUBSET Nat /\ 1 .. k # 1 .. m
    BY <2>1
  <2>3. <<1 .. k, 1 .. m>> \in R
    <3> HIDE DEF F
    <3>1. QED
      BY <2>1, <2>2 DEF StrictSubsetOrdering
  <2>4. QED
    BY <1>4, <2>1, <2>3
<1>6. QED
  BY <1>5

\* The row of ** holds where the row before it does, and from there on.
LEMMA AnySegmentsIs ==
  ASSUME NEW n \in Nat, NEW previous \in [0 .. n -> BOOLEAN]
  PROVE  AnySegments(previous) = [j \in 0 .. n |-> \E k \in 0 .. j : previous[k]]
<1> DEFINE row == AnySegments(previous)
           closed == [j \in 0 .. n |-> \E k \in 0 .. j : previous[k]]
           Step1(f) == [j \in 0 .. n |-> previous[j] \/ (j > 0 /\ f[j - 1])]
<1>1. closed = Step1(closed)
  <2> SUFFICES ASSUME NEW j \in 0 .. n
               PROVE  closed[j] = (previous[j] \/ (j > 0 /\ closed[j - 1]))
    OBVIOUS
  <2>1. CASE j = 0
    <3>1. 0 .. j = {0} /\ 0 \in 0 .. n /\ ~(0 > 0)
      BY <2>1
    <3>2. closed[0] = previous[0]
      BY <2>1, <3>1
    <3>3. QED
      BY <2>1, <3>1, <3>2
  <2>2. CASE j # 0
    <3>1. j > 0 /\ j - 1 \in 0 .. n /\ 0 .. j = (0 .. j - 1) \cup {j}
      BY <2>2
    <3>2. QED
      BY <3>1
  <2>3. QED
    BY <2>1, <2>2
<1>2. row = CHOOSE f : f = Step1(f)
  BY DEF AnySegments
<1>3. row = Step1(row)
  <2> HIDE DEF closed, row, Step1
  <2>1. QED
    BY <1>1, <1>2
<1>4. \A j \in 0 .. n : row[j] = (previous[j] \/ (j > 0 /\ row[j - 1]))
  <2> HIDE DEF row
  <2>1. QED
    BY <1>3
<1>5. \A j \in 0 .. n : closed[j] = (previous[j] \/ (j > 0 /\ closed[j - 1]))
  <2> HIDE DEF closed
  <2>1. QED
    BY <1>1
<1>6. DOMAIN row = 0 .. n /\ DOMAIN closed = 0 .. n /\ row = [j \in DOMAIN row |-> row[j]]
  <2> HIDE DEF row
  <2>1. QED
    BY <1>3
<1> HIDE DEF row, closed
<1>7. \A j \in 0 .. n : row[j] = closed[j]
  <2> DEFINE T == {j \in 0 .. n : row[j] # closed[j]}
  <2> SUFFICES ASSUME T # {} PROVE FALSE
    OBVIOUS
  <2>1. PICK m \in T : \A k \in T : m <= k
    <3>1. T \subseteq Nat
      OBVIOUS
    <3> HIDE DEF T
    <3>2. QED
      BY <3>1, SmallestOf
  <2>2. CASE m = 0
    BY <1>4, <1>5, <2>2
  <2>3. CASE m # 0
    <3>1. m - 1 \in 0 .. n /\ m > 0 /\ m - 1 < m
      BY <2>3
    <3>2. row[m - 1] = closed[m - 1]
      BY <2>1, <3>1
    <3>3. QED
      BY <1>4, <1>5, <3>1, <3>2
  <2>4. QED
    BY <2>2, <2>3
<1>8. QED
  BY <1>6, <1>7 DEF row, closed

\* The first i parts of the pattern stand for the first j segments of the path.
Piece(path, part, from, to) ==
  IF part = "**" THEN from <= to ELSE to = from + 1 /\ Fits(path[to], part)

Reaches(path, pattern, i, j) ==
  \E cut \in [0 .. i -> 0 .. Len(path)] :
    /\ cut[0] = 0 /\ cut[i] = j
    /\ \A k \in 1 .. i : Piece(path, pattern[k], cut[k - 1], cut[k])

\* A part more covers a piece more of the path.
LEMMA ReachesNext ==
  ASSUME NEW path, NEW pattern, Len(path) \in Nat, NEW i \in Nat \ {0}, NEW j \in 0 .. Len(path)
  PROVE  Reaches(path, pattern, i, j) <=>
           \E l \in 0 .. Len(path) :
             Reaches(path, pattern, i - 1, l) /\ Piece(path, pattern[i], l, j)
<1>1. ASSUME Reaches(path, pattern, i, j)
      PROVE  \E l \in 0 .. Len(path) :
               Reaches(path, pattern, i - 1, l) /\ Piece(path, pattern[i], l, j)
  <2>1. PICK cut \in [0 .. i -> 0 .. Len(path)] :
          /\ cut[0] = 0 /\ cut[i] = j
          /\ \A k \in 1 .. i : Piece(path, pattern[k], cut[k - 1], cut[k])
    BY <1>1 DEF Reaches
  <2> DEFINE c == [k \in 0 .. i - 1 |-> cut[k]]
  <2>2. i - 1 \in 0 .. i /\ 0 \in 0 .. i - 1 /\ i - 1 \in 0 .. i - 1 /\ i \in 1 .. i
    OBVIOUS
  <2>3. c \in [0 .. i - 1 -> 0 .. Len(path)] /\ c[0] = 0 /\ c[i - 1] = cut[i - 1]
    BY <2>1, <2>2
  <2>4. ASSUME NEW k \in 1 .. i - 1 PROVE Piece(path, pattern[k], c[k - 1], c[k])
    <3>1. k \in 1 .. i /\ k \in 0 .. i - 1 /\ k - 1 \in 0 .. i - 1
      OBVIOUS
    <3>2. c[k - 1] = cut[k - 1] /\ c[k] = cut[k]
      BY <3>1
    <3> HIDE DEF c
    <3>3. QED
      BY <2>1, <3>1, <3>2
  <2> HIDE DEF c
  <2>5. Reaches(path, pattern, i - 1, cut[i - 1])
    BY <2>3, <2>4 DEF Reaches
  <2>6. Piece(path, pattern[i], cut[i - 1], j) /\ cut[i - 1] \in 0 .. Len(path)
    BY <2>1, <2>2
  <2>7. QED
    BY <2>5, <2>6
<1>2. ASSUME NEW l \in 0 .. Len(path), Reaches(path, pattern, i - 1, l),
             Piece(path, pattern[i], l, j)
      PROVE  Reaches(path, pattern, i, j)
  <2>1. PICK cut \in [0 .. i - 1 -> 0 .. Len(path)] :
          /\ cut[0] = 0 /\ cut[i - 1] = l
          /\ \A k \in 1 .. i - 1 : Piece(path, pattern[k], cut[k - 1], cut[k])
    BY <1>2 DEF Reaches
  <2> DEFINE c == [k \in 0 .. i |-> IF k = i THEN j ELSE cut[k]]
  <2>2. \A k \in 0 .. i : k # i => k \in 0 .. i - 1
    OBVIOUS
  <2>3. c \in [0 .. i -> 0 .. Len(path)] /\ c[0] = 0 /\ c[i] = j /\ c[i - 1] = l
    BY <2>1, <2>2
  <2>4. ASSUME NEW k \in 1 .. i PROVE Piece(path, pattern[k], c[k - 1], c[k])
    <3>1. CASE k = i
      BY <1>2, <2>3, <3>1
    <3>2. CASE k # i
      <4>1. k \in 1 .. i - 1 /\ k \in 0 .. i /\ k - 1 \in 0 .. i /\ k - 1 # i
        BY <3>2
      <4>2. c[k - 1] = cut[k - 1] /\ c[k] = cut[k]
        BY <3>2, <4>1
      <4> HIDE DEF c
      <4>3. QED
        BY <2>1, <4>1, <4>2
    <3>3. QED
      BY <3>1, <3>2
  <2> HIDE DEF c
  <2>5. QED
    BY <2>3, <2>4 DEF Reaches
<1>3. QED
  BY <1>1, <1>2

\* The row of the first i parts, and that of no part.
Row(path, pattern, i) == [j \in 0 .. Len(path) |-> Reaches(path, pattern, i, j)]

\* Row i of _path_matches, computed from the row before it.
NextRow(path, pattern, i, row) ==
  IF pattern[i] = "**" THEN AnySegments(row)
  ELSE [j \in 0 .. Len(path) |-> j > 0 /\ row[j - 1] /\ Fits(path[j], pattern[i])]

LEMMA RowNext ==
  ASSUME NEW path, NEW pattern, Len(path) \in Nat, NEW i \in Nat \ {0}
  PROVE  Row(path, pattern, i) = NextRow(path, pattern, i, Row(path, pattern, i - 1))
<1> DEFINE n == Len(path)
           before == Row(path, pattern, i - 1)
<1>1. before \in [0 .. n -> BOOLEAN]
  BY DEF Row, Reaches
<1>2. \A j \in 0 .. n : before[j] <=> Reaches(path, pattern, i - 1, j)
  BY DEF Row
<1>3. CASE pattern[i] = "**"
  <2>1. NextRow(path, pattern, i, before) = [j \in 0 .. n |-> \E k \in 0 .. j : before[k]]
    <3> HIDE DEF before
    <3>1. QED
      BY <1>1, <1>3, AnySegmentsIs DEF NextRow
  <2>2. ASSUME NEW j \in 0 .. n
        PROVE  Reaches(path, pattern, i, j) <=> \E k \in 0 .. j : before[k]
    <3>1. \A l \in 0 .. n : Piece(path, pattern[i], l, j) <=> l \in 0 .. j
      BY <1>3 DEF Piece
    <3>2. 0 .. j \subseteq 0 .. n
      OBVIOUS
    <3>3. Reaches(path, pattern, i, j) <=>
            \E l \in 0 .. n : Reaches(path, pattern, i - 1, l) /\ Piece(path, pattern[i], l, j)
      BY ReachesNext
    <3> HIDE DEF before
    <3>4. QED
      BY <1>2, <3>1, <3>2, <3>3
  <2>3. \A j \in 0 .. n : Reaches(path, pattern, i, j) = (\E k \in 0 .. j : before[k])
    BY <2>2 DEF Reaches
  <2> HIDE DEF before
  <2>4. QED
    BY <2>1, <2>3 DEF Row
<1>4. CASE pattern[i] # "**"
  <2>1. ASSUME NEW j \in 0 .. n
        PROVE  Reaches(path, pattern, i, j) <=>
                 j > 0 /\ before[j - 1] /\ Fits(path[j], pattern[i])
    <3>1. \A l \in 0 .. n : Piece(path, pattern[i], l, j) <=>
                              j = l + 1 /\ Fits(path[j], pattern[i])
      BY <1>4 DEF Piece
    <3>2. Reaches(path, pattern, i, j) <=>
            \E l \in 0 .. n : Reaches(path, pattern, i - 1, l) /\ Piece(path, pattern[i], l, j)
      BY ReachesNext
    <3>3. \A l \in 0 .. n : j = l + 1 <=> j > 0 /\ l = j - 1
      OBVIOUS
    <3>4. j > 0 => j - 1 \in 0 .. n
      OBVIOUS
    <3> HIDE DEF before
    <3>5. QED
      BY <1>2, <3>1, <3>2, <3>3, <3>4
  <2>2. \A j \in 0 .. n : Reaches(path, pattern, i, j) =
                            (j > 0 /\ before[j - 1] /\ Fits(path[j], pattern[i]))
    BY <2>1 DEF Reaches
  <2> HIDE DEF before
  <2>3. NextRow(path, pattern, i, before) =
          [j \in 0 .. n |-> j > 0 /\ before[j - 1] /\ Fits(path[j], pattern[i])]
    BY <1>4 DEF NextRow
  <2>4. Row(path, pattern, i) =
          [j \in 0 .. n |-> j > 0 /\ before[j - 1] /\ Fits(path[j], pattern[i])]
    <3>1. Row(path, pattern, i) = [j \in 0 .. n |-> Reaches(path, pattern, i, j)]
      BY DEF Row
    <3>2. QED
      BY <2>2, <3>1, Zenon
  <2>5. QED
    BY <2>3, <2>4 DEF before
<1>5. QED
  BY <1>3, <1>4

\* _path_matches finds out whether the pattern covers the path.
LEMMA PathMatchesIsCovers ==
  ASSUME NEW path, NEW pattern, Len(path) \in Nat, Len(pattern) \in Nat
  PROVE  PathMatches(path, pattern) <=> Covers(path, pattern)
<1> DEFINE n == Len(path)
           m == Len(pattern)
           First == [j \in 0 .. n |-> j = 0]
           Step1(f) == [i \in 0 .. m |-> IF i = 0 THEN First
                                         ELSE IF pattern[i] = "**" THEN AnySegments(f[i - 1])
                                         ELSE [j \in 0 .. n |->
                                                 j > 0 /\ f[i - 1][j - 1] /\ Fits(path[j], pattern[i])]]
           rows == CHOOSE f : f = Step1(f)
           closed == [i \in 0 .. m |-> Row(path, pattern, i)]
<1>1. PathMatches(path, pattern) = rows[m][n]
  BY DEF PathMatches
<1>2. Row(path, pattern, 0) = First
  <2>1. ASSUME NEW j \in 0 .. n PROVE Reaches(path, pattern, 0, j) <=> j = 0
    <3>1. ASSUME j = 0 PROVE Reaches(path, pattern, 0, j)
      <4> DEFINE cut == [k \in 0 .. 0 |-> 0]
      <4>1. cut \in [0 .. 0 -> 0 .. n] /\ cut[0] = 0 /\ 1 .. 0 = {}
        OBVIOUS
      <4> HIDE DEF cut
      <4>2. QED
        BY <3>1, <4>1 DEF Reaches
    <3>2. ASSUME Reaches(path, pattern, 0, j) PROVE j = 0
      BY <3>2 DEF Reaches
    <3>3. QED
      BY <3>1, <3>2
  <2>2. \A j \in 0 .. n : Reaches(path, pattern, 0, j) = (j = 0)
    BY <2>1 DEF Reaches
  <2>3. QED
    BY <2>2 DEF Row
<1>3. \A i \in 0 .. m : Step1(closed)[i] =
        IF i = 0 THEN First ELSE NextRow(path, pattern, i, closed[i - 1])
  BY DEF NextRow
<1>4. closed = Step1(closed)
  <2>1. ASSUME NEW i \in 0 .. m
        PROVE  closed[i] = IF i = 0 THEN First ELSE NextRow(path, pattern, i, closed[i - 1])
    <3>1. CASE i = 0
      BY <1>2, <3>1
    <3>2. CASE i # 0
      <4>1. i \in Nat \ {0} /\ i - 1 \in 0 .. m
        BY <3>2
      <4>2. closed[i - 1] = Row(path, pattern, i - 1) /\ closed[i] = Row(path, pattern, i)
        BY <4>1
      <4> HIDE DEF closed
      <4>3. QED
        BY <3>2, <4>1, <4>2, RowNext
    <3>3. QED
      BY <3>1, <3>2
  <2>2. \A i \in 0 .. m : closed[i] = Step1(closed)[i]
    BY <1>3, <2>1
  <2>3. DOMAIN Step1(closed) = 0 .. m /\ closed = [i \in 0 .. m |-> closed[i]]
    OBVIOUS
  <2>4. Step1(closed) = [i \in 0 .. m |-> Step1(closed)[i]]
    OBVIOUS
  <2> HIDE DEF closed, Step1
  <2>5. QED
    BY <2>2, <2>3, <2>4
<1>5. rows = Step1(rows)
  <2> HIDE DEF closed, Step1
  <2>1. QED
    BY <1>4
<1> HIDE DEF rows
<1>6. \A i \in 0 .. m : rows[i] = IF i = 0 THEN First ELSE NextRow(path, pattern, i, rows[i - 1])
  <2>1. \A i \in 0 .. m : Step1(rows)[i] =
          IF i = 0 THEN First ELSE NextRow(path, pattern, i, rows[i - 1])
    BY DEF NextRow
  <2> HIDE DEF Step1, First
  <2>2. QED
    BY <1>5, <2>1
<1>7. \A i \in 0 .. m : rows[i] = Row(path, pattern, i)
  <2> DEFINE T == {i \in 0 .. m : rows[i] # Row(path, pattern, i)}
  <2> SUFFICES ASSUME T # {} PROVE FALSE
    OBVIOUS
  <2>1. PICK i \in T : \A k \in T : i <= k
    <3>1. T \subseteq Nat
      OBVIOUS
    <3> HIDE DEF T
    <3>2. QED
      BY <3>1, SmallestOf
  <2>2. CASE i = 0
    <3> HIDE DEF First
    <3>1. QED
      BY <1>2, <1>6, <2>2
  <2>3. CASE i # 0
    <3>1. i \in Nat \ {0} /\ i - 1 \in 0 .. m /\ i - 1 < i /\ i \in 0 .. m
      BY <2>3
    <3>2. rows[i - 1] = Row(path, pattern, i - 1)
      BY <2>1, <3>1
    <3>3. rows[i] = NextRow(path, pattern, i, rows[i - 1])
      BY <1>6, <2>3, <3>1
    <3>4. QED
      BY <3>1, <3>2, <3>3, RowNext
  <2>4. QED
    BY <2>2, <2>3
<1>8. PathMatches(path, pattern) = Reaches(path, pattern, m, n)
  <2>1. rows[m] = Row(path, pattern, m)
    BY <1>7
  <2>2. QED
    BY <1>1, <2>1 DEF Row
<1>9. Reaches(path, pattern, m, n) <=> Covers(path, pattern)
  BY DEF Reaches, Covers, Piece
<1>10. QED
  BY <1>8, <1>9

\* What the plan selects for one changed path.
LEMMA SelectedForPath ==
  ASSUME NEW h \in Heads, NEW path, Len(path) \in Nat,
         NEW i \in DOMAIN LoadPlan([h EXCEPT !.changed = {path}]).checks
  PROVE  LoadPlan([h EXCEPT !.changed = {path}]).checks[i].selected <=>
           path = ConfigFile \/ \E pattern \in h.checks[i].paths : Covers(path, pattern)
<1> DEFINE given == h.checks
           plan == LoadPlan([h EXCEPT !.changed = {path}])
           planned == [j \in DOMAIN given |-> Planned(given[j], {path})]
<1>1. h \in ReviewedHead /\ given \in Seq(GivenCheck)
  BY SandboxAssumption DEF ReviewedHead
<1>2. [h EXCEPT !.changed = {path}].checks = given /\ [h EXCEPT !.changed = {path}].changed = {path}
  BY <1>1 DEF ReviewedHead
<1>3. plan.checks \in {<<>>, planned}
  BY <1>2 DEF LoadPlan, Refused
<1>4. plan.checks = planned /\ i \in DOMAIN given
  BY <1>3
<1>5. given[i] \in GivenCheck
  BY <1>1, <1>4
<1>6. \A pattern \in given[i].paths : Len(pattern) \in Nat
  BY <1>5 DEF GivenCheck
<1>7. plan.checks[i].selected <=> Reason(given[i], {path}) # "no_matching_paths"
  <2>1. plan.checks[i] = Planned(given[i], {path})
    BY <1>4
  <2> HIDE DEF plan, given
  <2>2. Planned(given[i], {path}).selected = (Reason(given[i], {path}) # "no_matching_paths")
    BY DEF Planned
  <2>3. QED
    BY <2>1, <2>2
<1>8. Reason(given[i], {path}) # "no_matching_paths" <=>
        path = ConfigFile \/ \E pattern \in given[i].paths : PathMatches(path, pattern)
  BY DEF Reason
<1>9. \A pattern \in given[i].paths : PathMatches(path, pattern) <=> Covers(path, pattern)
  BY <1>6, PathMatchesIsCovers
<1>10. QED
  BY <1>7, <1>8, <1>9

\* The plan runs a check exactly when a changed path is covered by one of its filters or is
\* the configuration (load_verification_plan and _path_matches, sandbox/checks.py).
THEOREM PlanFollowsFilters == Spec => []SelectionFollowsFilters
<1>1. IInv => SelectionFollowsFilters
  <2> SUFFICES ASSUME IInv, NEW path \in Paths \cup {ConfigFile},
                      NEW i \in DOMAIN LoadPlan([head EXCEPT !.changed = {path}]).checks
               PROVE  LoadPlan([head EXCEPT !.changed = {path}]).checks[i].selected <=>
                        path = ConfigFile
                          \/ \E pattern \in head.checks[i].paths : Covers(path, pattern)
    BY DEF SelectionFollowsFilters
  <2>1. head \in Heads
    BY DEF IInv, TypeOK
  <2>2. path \in Seq(STRING)
    BY SandboxAssumption
  <2>3. Len(path) \in Nat
    BY <2>2
  <2>4. QED
    BY <2>1, <2>3, SelectedForPath
<1>2. QED
  BY <1>1, InductiveInvariant, PTL
=============================================================================
