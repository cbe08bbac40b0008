------------------------------- MODULE ProofGate -------------------------------
(***************************************************************************)
(* The Proof of Work gate of one verification (proof_adapter/adapter.py,   *)
(* _process_supervisor.py, _published_gate.py), on Linux: a clean snapshot *)
(* of the reviewed head, a supervisor process, the gate it forks with its  *)
(* descendants, the verdict, and the end of the whole process tree.        *)
(*                                                                         *)
(* The caller, the supervisor and the gate run side by side: they see each *)
(* other through a pipe that carries one command byte at a time, two files *)
(* and the signals of the kernel.                                          *)
(***************************************************************************)

VARIABLE gate   \* gate[a]: the gate of attempt a

-----------------------------------------------------------------------------
(* Values *)

\* sup: starting or waiting for its first byte, told to begin, watching the gate, at its
\* status (the gate has ended), gone (exit status 0) or dead.  tree: the gate or a descendant lives.
\* then: what follows the cleanup; withdrawn is a verdict whose attempt was cancelled within the
\* time of the proof.  failed: the cleanup did not confirm the end of the tree.
NoGate == [pc |-> "none", sup |-> "none", tree |-> FALSE, status |-> "none", told |-> FALSE,
           then |-> "none", failed |-> FALSE, result |-> "none"]

In(a, pc) == gate[a].pc = pc
Supervisor(a, states) == gate[a].sup \in states
LeftRunning(a) == gate[a].tree \/ Supervisor(a, {"waiting", "told", "watching", "status"})
Cleaning == {"kill", "tell", "wait"}

Now(a, new) == gate' = [gate EXCEPT ![a] = new]
Over(a, result) ==
  [gate[a] EXCEPT !.pc = "over", !.result = result, !.status = "none", !.then = "none", !.told = FALSE]

\* Nobody looks again for what is left after a cleanup that did not see the tree go.
Abandoned == [NoGate EXCEPT !.pc = "over", !.result = "refused", !.failed = TRUE]
CleanupFailed(a) == Now(a, Abandoned)

\* A second interruption ends the cleanup where it is, and nobody takes it up.
CutOff(a, result) == Now(a, [Abandoned EXCEPT !.result = result])

\* _ensure_process_tree_terminated, then a verdict, an error or a cancellation.
Clean(a, then) == Now(a, [gate[a] EXCEPT !.pc = "kill", !.then = then])

-----------------------------------------------------------------------------
(* PublishedProofGate.run *)

EnterGate(a) == In(a, "none") /\ Now(a, [NoGate EXCEPT !.pc = "snapshot"])

\* The checkout must be clean, at the head, and the base an ancestor; then it is cloned, and
\* the supervisor started.
Launch(a) ==
  /\ In(a, "snapshot")
  /\ Now(a, [gate[a] EXCEPT !.pc = "setup", !.sup = "waiting"]) \/ Now(a, Over(a, "refused"))

\* The ready file is there: the first byte starts the gate.
Begin(a) ==
  /\ In(a, "setup") /\ Supervisor(a, {"waiting"})
  /\ Now(a, [gate[a] EXCEPT !.pc = "collect", !.sup = "told"])

\* The supervisor is not ready in time, or dies.
SetupFails(a) ==
  In(a, "setup") /\ Supervisor(a, {"waiting", "dead"}) /\ Clean(a, "error")

\* The status file is there.
Collect(a) ==
  /\ In(a, "collect")
  /\ \/ Supervisor(a, {"status"}) /\ Clean(a, "verdict")
     \/ Supervisor(a, {"dead"}) /\ Clean(a, "error")

\* More output than allowed, or the time of the proof is over, be it during the cleanup that
\* follows the status, which it interrupts like a cancellation: a cleanup that was cancelled
\* before ends where it is.
Exceed(a) ==
  \/ In(a, "collect") /\ Supervisor(a, {"told", "watching", "status"}) /\ Clean(a, "error")
  \/ gate[a].pc \in Cleaning /\ gate[a].then = "verdict"
     /\ Now(a, [gate[a] EXCEPT !.then = "interrupted"])
  \/ gate[a].pc \in Cleaning /\ gate[a].then = "withdrawn" /\ CutOff(a, "interrupted")

-----------------------------------------------------------------------------
(* The supervisor and the gate *)

Fork(a) ==
  Supervisor(a, {"told"}) /\ Now(a, [gate[a] EXCEPT !.sup = "watching", !.tree = TRUE])

\* The gate ends with its status, and may leave descendants; or it was killed with them.
GateEnds(a) ==
  /\ Supervisor(a, {"watching"})
  /\ \/ /\ gate[a].tree
        /\ \E status \in {"zero", "nonzero"}, left \in BOOLEAN :
             Now(a, [gate[a] EXCEPT !.sup = "status", !.status = status, !.tree = left])
     \/ /\ ~gate[a].tree
        /\ Now(a, [gate[a] EXCEPT !.sup = "status", !.status = "nonzero"])

\* The second byte: _reap_children wants no living descendant.
End(a) ==
  /\ gate[a].told /\ Supervisor(a, {"waiting", "status"})
  /\ Now(a, [gate[a] EXCEPT !.sup = IF gate[a].tree THEN "dead" ELSE "gone"])

-----------------------------------------------------------------------------
(* _terminate_process_tree, once *)

\* Descendants are killed until none is found: none is, under a supervisor that died, or one
\* that has not forked yet.  Some may still be there after five seconds.
KillTree(a) ==
  /\ In(a, "kill")
  /\ \/ Now(a, [gate[a] EXCEPT !.pc = "tell", !.tree = @ /\ Supervisor(a, {"dead"})])
     \/ gate[a].tree /\ ~Supervisor(a, {"dead"}) /\ CleanupFailed(a)

\* Faulty variant: a supervisor that has ended already is as good as one that ends well.
TellIfThere(a) ==
  /\ In(a, "tell")
  /\ IF Supervisor(a, {"dead"}) THEN Now(a, Over(a, "refused"))
     ELSE Now(a, [gate[a] EXCEPT !.pc = "wait", !.told = TRUE])

TellSupervisor(a) ==
  /\ In(a, "tell")
  /\ IF Supervisor(a, {"dead"}) THEN CleanupFailed(a)
     ELSE Now(a, [gate[a] EXCEPT !.pc = "wait", !.told = TRUE])

\* The verdict counts after a clean end of a gate that ended with 0, if it is well formed.  A
\* cancellation goes on after the cleanup, unless it met the one of a supervisor not yet told.
Verdicts(a) ==
  IF gate[a].then \in {"interrupted", "withdrawn"} THEN {"interrupted", "refused"}
  ELSE IF gate[a].then = "verdict" /\ gate[a].status = "zero" THEN {"passed", "refused"}
  ELSE {"refused"}

\* Exit status 0 within five seconds; a gate forked too late keeps the supervisor longer.
AwaitSupervisor(a) ==
  /\ In(a, "wait")
  /\ \/ /\ Supervisor(a, {"dead"}) \/ (Supervisor(a, {"watching"}) /\ gate[a].tree)
        /\ CleanupFailed(a)
     \/ /\ Supervisor(a, {"gone"})
        /\ \E result \in Verdicts(a) : Now(a, Over(a, result))

GateStep(a) ==
  \/ Launch(a) \/ Begin(a) \/ SetupFails(a) \/ Collect(a) \/ Exceed(a)
  \/ KillTree(a) \/ TellSupervisor(a) \/ AwaitSupervisor(a)

ProcessStep(a) == Fork(a) \/ GateEnds(a) \/ End(a)

-----------------------------------------------------------------------------
(* What goes wrong *)

\* The supervisor is killed from outside; its descendants live on.
SupervisorDies(a) ==
  /\ Supervisor(a, {"waiting", "told", "watching", "status"})
  /\ Now(a, [gate[a] EXCEPT !.sup = "dead"])

\* The snapshot and the cleanup are waited for; a starting supervisor is killed.
CancelGate(a) ==
  \/ In(a, "snapshot") /\ \E result \in {"interrupted", "refused"} : Now(a, Over(a, result))
  \/ gate[a].pc \in {"setup", "collect"} /\ Clean(a, "interrupted")
  \/ gate[a].pc \in Cleaning /\ gate[a].then \in {"verdict", "error"}
     /\ Now(a, [gate[a] EXCEPT !.then = IF @ = "verdict" THEN "withdrawn" ELSE "interrupted"])
  \/ gate[a].pc \in Cleaning /\ gate[a].then \in {"interrupted", "withdrawn"}
     /\ \E result \in {"interrupted", "refused"} : CutOff(a, result)

\* The worker dies: the pipe breaks, and the supervisor goes; its descendants live on.
Orphaned(g) == IF g.pc \in {"none", "over"} THEN g ELSE Abandoned
=============================================================================
