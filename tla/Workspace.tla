------------------------------ MODULE Workspace ------------------------------
(***************************************************************************)
(* The files of one run on the host of the activity worker: the run        *)
(* directory with the pointer to the checkout and the rendered context     *)
(* (providers/operations.py), and the checkout with its lock and its       *)
(* temporary copies (providers/checkout.py).  All stages of a run use the  *)
(* same directory and the same checkout, and an attempt that Temporal has  *)
(* given up on may still work on them beside its successor.                *)
(*                                                                         *)
(* A removal of a directory tree is not atomic; every other step here is   *)
(* one system call or one git command.                                     *)
(***************************************************************************)
EXTENDS Integers, FiniteSets

CONSTANTS
  MaxAttempts,   \* bound: attempts of all stages before the terminal record
  MaxFailures      \* bound: failures, abandoned or cancelled attempts, restarts

ASSUME WorkspaceAssumption == MaxAttempts \in Nat \ {0} /\ MaxFailures \in Nat

Attempts == 1 .. MaxAttempts + MaxFailures + 1

VARIABLES
  dir,        \* the run directory: present, with the pointer, with the context
  target,     \* the checkout: none, whole, or partial while it is removed
  temps,      \* attempts whose temporary checkout exists
  lock,       \* the attempt that created the lock file (0: there is none)
  stale,      \* the lock file is older than the timeout and five seconds
  attempt,    \* attempt[a]: its stage, where it is, what it has and what it saw
  server,     \* the stage Temporal is at and the attempt it waits for
  inactive,   \* the run is in a terminal state, or its head is no longer the current one
  receipts,   \* stages with a receipt
  three,      \* history: three attempts were at work at once
  failures

files == <<dir, target, temps, lock, stale>>
fileVars == <<dir, target, temps, lock, stale, attempt, server, inactive, receipts, three, failures>>

-----------------------------------------------------------------------------
(* Values *)

Stages == {"select", "analyze", "verify", "terminal"}
After == [select |-> "analyze", analyze |-> "verify", verify |-> "terminal"]

\* context: 0 when there is no file, else the attempt that created it.
NoDirectory == [present |-> FALSE, pointer |-> FALSE, context |-> 0, whole |-> FALSE]
EmptyDirectory == [NoDirectory EXCEPT !.present = TRUE]

Ended == {"done", "error", "cut"}   \* cut: cancelled within its own cleanup

\* A cancelled attempt of which a thread still removes a tree: the one that
\* _materialize_context clears, cleans up after a failure, or record_terminal removes.
Threads == {"severed", "cutting", "outlived"}
NotStarted == [stage |-> "select", pc |-> "absent", holds |-> FALSE, alone |-> TRUE,
               well |-> TRUE, saw |-> "nothing"]
Live(a) == attempt[a].pc \notin Ended \cup {"absent"}
AtWork(a) == Live(a) /\ attempt[a].pc \notin Threads
NobodyWorks == \A a \in Attempts : ~Live(a)
Started == {a \in Attempts : attempt[a].pc # "absent"}

GoTo(a, pc) == attempt' = [attempt EXCEPT ![a].pc = pc]
Obtain(a) == attempt' = [attempt EXCEPT ![a].pc = "point", ![a].holds = TRUE]
AtStep(a, pc) == attempt[a].pc = pc

\* A fault of attempt a: it is not expected to succeed any more.
Failure == failures < MaxFailures /\ failures' = failures + 1
Spoil(a, pc) == attempt' = [attempt EXCEPT ![a].pc = pc, ![a].well = FALSE]

-----------------------------------------------------------------------------
(* What an attempt does first *)

\* The pointer leads to a checkout, and _checkout_ready resolves its HEAD; in a
\* tree that is being removed that succeeds or fails.
CheckoutReady == dir.pointer /\ target # "none"
ArtifactsReady == CheckoutReady /\ dir.context # 0

Ready(s) == IF s = "verify" THEN CheckoutReady ELSE ArtifactsReady
Unready(s) == ~Ready(s) \/ target = "partial"

\* select_context, analyze and prepare_verification up to the materialization.
\* Only select_context asks for the files too before it replays its receipt.
Begin(a) ==
  LET s == attempt[a].stage IN
  /\ AtStep(a, "begin") /\ s # "terminal"
  /\ \/ inactive /\ GoTo(a, "error")
     \/ /\ ~inactive /\ s \in receipts /\ (s = "select" => ArtifactsReady)
        /\ GoTo(a, "done")
     \/ /\ ~inactive /\ s \notin receipts /\ s # "select" /\ Ready(s)
        /\ GoTo(a, "use")
     \/ /\ ~inactive /\ IF s = "select" THEN s \notin receipts \/ Unready(s)
                                        ELSE s \notin receipts /\ Unready(s)
        /\ GoTo(a, "clear")
  /\ UNCHANGED <<files, server, inactive, receipts, three, failures>>

-----------------------------------------------------------------------------
(* _materialize_context *)

\* Faulty variant: what an earlier attempt left is kept.
ClearNothing(a) ==
  /\ AtStep(a, "clear") /\ GoTo(a, "mkdir")
  /\ UNCHANGED <<files, server, inactive, receipts, three, failures>>

\* _remove_checkout finds the checkout by the pointer and begins to remove it;
\* then the run directory is removed.
Clear(a) ==
  /\ AtStep(a, "clear")
  /\ \/ ~dir.present /\ GoTo(a, "mkdir") /\ UNCHANGED files
     \/ /\ dir.present /\ CheckoutReady
        /\ target' = "partial" /\ GoTo(a, "clearing")
        /\ UNCHANGED <<dir, temps, lock, stale>>
     \/ /\ dir.present /\ ~CheckoutReady
        /\ dir' = NoDirectory /\ GoTo(a, "mkdir")
        /\ UNCHANGED <<target, temps, lock, stale>>
  /\ UNCHANGED <<server, inactive, receipts, three, failures>>

\* rmtree raises when somebody else removed the tree, or the directory, before it.
Clearing(a) ==
  /\ AtStep(a, "clearing")
  /\ IF target = "none" \/ ~dir.present
     THEN target' = "none" /\ GoTo(a, "error") /\ UNCHANGED dir
     ELSE target' = "none" /\ dir' = NoDirectory /\ GoTo(a, "mkdir")
  /\ UNCHANGED <<temps, lock, stale, server, inactive, receipts, three, failures>>

\* Not within the try block: an existing directory is left alone.
MakeDirectory(a) ==
  /\ AtStep(a, "mkdir")
  /\ IF dir.present THEN GoTo(a, "error") /\ UNCHANGED dir
                    ELSE dir' = EmptyDirectory /\ GoTo(a, "lock")
  /\ UNCHANGED <<target, temps, lock, stale, server, inactive, receipts, three, failures>>

-----------------------------------------------------------------------------
(* checkout *)

\* _acquire_lock: create the file, break an old one, or give up at the deadline.
AcquireLock(a) ==
  /\ AtStep(a, "lock")
  /\ \/ lock = 0 /\ lock' = a /\ stale' = FALSE /\ GoTo(a, "inspect")
     \/ lock # 0 /\ stale /\ lock' = 0 /\ stale' = FALSE /\ UNCHANGED attempt
     \/ lock # 0 /\ ~stale /\ GoTo(a, "failed") /\ UNCHANGED <<lock, stale>>
  /\ UNCHANGED <<dir, target, temps, server, inactive, receipts, three, failures>>

\* finally: the file is removed, whoever created it.
Unlock == lock' = 0 /\ stale' = FALSE

\* _is_valid: the head, the origin, the ancestry, a clean tree and its size.
Exact == target = "whole"

\* _remove_confined, of the temporary checkout.
Drop(a) == temps' = temps \ {a}

\* A complete checkout is used again, anything else is removed.
Inspect(a) ==
  /\ AtStep(a, "inspect")
  /\ \/ /\ Exact /\ Unlock
        /\ Obtain(a)
        /\ UNCHANGED <<target, temps>>
     \/ /\ ~Exact
        /\ target' = "none" /\ temps' = temps \cup {a} /\ GoTo(a, "fetch")
        /\ UNCHANGED <<lock, stale>>
  /\ UNCHANGED <<dir, server, inactive, receipts, three, failures>>

\* The verified copy is renamed; a rename onto a directory fails.
Rename(a) ==
  /\ AtStep(a, "fetch") /\ Unlock
  /\ Drop(a)
  /\ IF target = "none"
     THEN /\ target' = "whole"
          /\ Obtain(a)
     ELSE GoTo(a, "failed") /\ UNCHANGED target
  /\ UNCHANGED <<dir, server, inactive, receipts, three, failures>>

-----------------------------------------------------------------------------
(* The rest of _materialize_context *)

\* Git reads the checkout; then the pointer is created (O_EXCL).
WritePointer(a) ==
  /\ AtStep(a, "point")
  /\ IF target # "none" /\ dir.present /\ ~dir.pointer
     THEN dir' = [dir EXCEPT !.pointer = TRUE] /\ GoTo(a, "open")
     ELSE GoTo(a, "failed") /\ UNCHANGED dir
  /\ UNCHANGED <<target, temps, lock, stale, server, inactive, receipts, three, failures>>

\* The context is created (O_EXCL), then written, and may be read in between.
OpenContext(a) ==
  /\ AtStep(a, "open")
  /\ IF dir.present /\ dir.context = 0
     THEN dir' = [dir EXCEPT !.context = a, !.whole = FALSE] /\ GoTo(a, "fill")
     ELSE GoTo(a, "failed") /\ UNCHANGED dir
  /\ UNCHANGED <<target, temps, lock, stale, server, inactive, receipts, three, failures>>

FillContext(a) ==
  /\ AtStep(a, "fill") /\ GoTo(a, "revalidate")
  /\ dir' = IF dir.context = a THEN [dir EXCEPT !.whole = TRUE] ELSE dir
  /\ UNCHANGED <<target, temps, lock, stale, server, inactive, receipts, three, failures>>

Revalidate(a) ==
  /\ AtStep(a, "revalidate")
  /\ GoTo(a, IF inactive THEN "failed" ELSE IF attempt[a].stage = "select" THEN "record" ELSE "use")
  /\ UNCHANGED <<files, server, inactive, receipts, three, failures>>

\* Faulty variant: nothing is removed after a failure.
CleanupNothing(a) ==
  /\ AtStep(a, "failed") /\ GoTo(a, "error")
  /\ UNCHANGED <<files, server, inactive, receipts, three, failures>>

\* except BaseException: the checkout, if the attempt got one, and the directory.
\* _safe_remove_workspace raises when the checkout is gone, and the directory stays.
Cleanup(a) ==
  /\ AtStep(a, "failed")
  /\ \/ ~attempt[a].holds /\ dir' = NoDirectory /\ GoTo(a, "error") /\ UNCHANGED target
     \/ attempt[a].holds /\ target = "none" /\ GoTo(a, "error") /\ UNCHANGED <<dir, target>>
     \/ attempt[a].holds /\ target # "none" /\ target' = "partial" /\ GoTo(a, "failing")
        /\ UNCHANGED dir
  /\ UNCHANGED <<temps, lock, stale, server, inactive, receipts, three, failures>>

FinishCleanup(a) ==
  /\ AtStep(a, "failing") /\ GoTo(a, "error")
  /\ target' = "none"
  /\ dir' = IF target = "none" THEN dir ELSE NoDirectory
  /\ UNCHANGED <<temps, lock, stale, server, inactive, receipts, three, failures>>

-----------------------------------------------------------------------------
(* What the stages do with the files *)

\* analyze reads the context for the model; prepare_verification follows the
\* pointer again and reads the checkout for its plan and its copies.
Use(a) ==
  /\ AtStep(a, "use")
  /\ LET there == IF attempt[a].stage = "analyze" THEN dir.context # 0 ELSE CheckoutReady
         whole == IF attempt[a].stage = "analyze" THEN dir.whole ELSE target = "whole"
     IN attempt' = [attempt EXCEPT ![a].pc = IF there THEN "record" ELSE "error",
                                   ![a].saw = IF whole THEN "whole" ELSE "part"]
  /\ UNCHANGED <<files, server, inactive, receipts, three, failures>>

\* The receipt is written under the row lock of an active run.
Record(a) ==
  /\ AtStep(a, "record")
  /\ IF inactive THEN GoTo(a, "error") /\ UNCHANGED receipts
                 ELSE GoTo(a, "done") /\ receipts' = receipts \cup {attempt[a].stage}
  /\ UNCHANGED <<files, server, inactive, three, failures>>

\* record_terminal: the transaction, then _remove_artifacts.
RecordTerminal(a) ==
  /\ AtStep(a, "begin") /\ attempt[a].stage = "terminal"
  /\ inactive' = TRUE /\ GoTo(a, "remove")
  /\ UNCHANGED <<files, server, receipts, three, failures>>

\* Faulty variant: the checkout is left to the directory that points to it.
RemoveDirectoryOnly(a) ==
  /\ AtStep(a, "remove") /\ dir' = NoDirectory /\ GoTo(a, "done")
  /\ UNCHANGED <<target, temps, lock, stale, server, inactive, receipts, three, failures>>

RemoveArtifacts(a) ==
  /\ AtStep(a, "remove")
  /\ IF CheckoutReady THEN target' = "partial" /\ GoTo(a, "removing") /\ UNCHANGED dir
                      ELSE dir' = NoDirectory /\ GoTo(a, "done") /\ UNCHANGED target
  /\ UNCHANGED <<temps, lock, stale, server, inactive, receipts, three, failures>>

FinishRemoval(a) ==
  /\ AtStep(a, "removing")
  /\ target' = "none"
  /\ IF target = "none" THEN GoTo(a, "error") /\ UNCHANGED dir
                        ELSE GoTo(a, "done") /\ dir' = NoDirectory
  /\ UNCHANGED <<temps, lock, stale, server, inactive, receipts, three, failures>>

\* A thread goes on to its end.  The directory goes with the checkout when one
\* thread removes both, or when the cancellation came while it was removed.
FinishThread(a) ==
  /\ attempt[a].pc \in Threads
  /\ target' = "none"
  /\ dir' \in IF target = "none" THEN {dir}
             ELSE IF AtStep(a, "outlived") THEN {NoDirectory} ELSE {dir, NoDirectory}
  /\ GoTo(a, IF AtStep(a, "cutting") THEN "cut" ELSE "error")
  /\ UNCHANGED <<temps, lock, stale, server, inactive, receipts, three, failures>>

Step(a) ==
  \/ Begin(a) \/ Clear(a) \/ Clearing(a) \/ MakeDirectory(a)
  \/ AcquireLock(a) \/ Inspect(a) \/ Rename(a)
  \/ WritePointer(a) \/ OpenContext(a) \/ FillContext(a) \/ Revalidate(a)
  \/ Cleanup(a) \/ FinishCleanup(a) \/ Use(a) \/ Record(a)
  \/ RecordTerminal(a) \/ RemoveArtifacts(a) \/ FinishRemoval(a) \/ FinishThread(a)

-----------------------------------------------------------------------------
(* Temporal, and what goes wrong *)

New == [NotStarted EXCEPT !.stage = server.stage, !.pc = "begin", !.alone = NobodyWorks]
Joined(a) == [attempt[a] EXCEPT !.alone = FALSE]

\* Attempts start in order; whoever is still at work is no longer alone.
StartAttempt ==
  /\ server.waits = 0 /\ server.stage # "ended"
  /\ \E a \in Attempts :
       /\ Started = 1 .. a - 1
       /\ attempt' = [b \in Attempts |->
            IF b = a THEN New ELSE IF Live(b) THEN Joined(b) ELSE attempt[b]]
       /\ server' = [server EXCEPT !.waits = a]
  /\ three' = (three \/ \E b, c \in Attempts : b # c /\ Live(b) /\ Live(c))
  /\ UNCHANGED <<files, inactive, receipts, failures>>

\* A stage is repeated while attempts are left, or the workflow ends the run.
Proceed ==
  server' \in {[stage |-> s, waits |-> 0] : s \in
    IF Cardinality(Started) < MaxAttempts THEN {server.stage, "terminal"} ELSE {"terminal"}}

Answer ==
  /\ server.waits # 0
  /\ \/ /\ AtStep(server.waits, "done")
        /\ server' = [stage |-> IF server.stage = "terminal" THEN "ended"
                                ELSE IF Cardinality(Started) < MaxAttempts
                                THEN After[server.stage] ELSE "terminal", waits |-> 0]
     \/ attempt[server.waits].pc \in {"error", "cut"} \cup Threads /\ Proceed
  /\ UNCHANGED <<files, attempt, inactive, receipts, three, failures>>

\* A token or a git command fails, or the deadline passes, which also fails a
\* complete checkout: the temporary copy is removed.
CheckoutFails(a) ==
  /\ attempt[a].pc \in {"inspect", "fetch"} /\ Failure /\ Unlock
  /\ target' = IF AtStep(a, "inspect") THEN "none" ELSE target
  /\ Drop(a) /\ Spoil(a, "failed")
  /\ UNCHANGED <<dir, server, inactive, receipts, three>>

\* A git command that inspects the checkout fails or takes too long.
InspectionFails(a) ==
  /\ AtStep(a, "point") /\ Failure /\ Spoil(a, "failed")
  /\ UNCHANGED <<files, server, inactive, receipts, three>>

\* No heartbeat arrives: Temporal goes on without the attempt, which does not know.
Abandon(a) ==
  /\ server.waits = a /\ AtWork(a) /\ Failure
  /\ Spoil(a, attempt[a].pc) /\ Proceed
  /\ UNCHANGED <<files, inactive, receipts, three>>

\* Where a cancellation leads: the checkout removes its temporary copy and its
\* lock, _materialize_context cleans up, and a cleanup itself is cut short.
CancelledAt(pc) ==
  CASE pc \in {"lock", "inspect", "fetch", "point", "open", "fill", "revalidate"} -> "failed"
    [] pc = "failed" -> "cut"
    [] pc = "clearing" -> "severed"
    [] pc = "failing" -> "cutting"
    [] pc = "removing" -> "outlived"
    [] OTHER -> "error"

Cancel(a) ==
  /\ AtWork(a) /\ Failure
  /\ Spoil(a, CancelledAt(attempt[a].pc))
  /\ IF attempt[a].pc \in {"inspect", "fetch"} THEN Unlock /\ Drop(a)
                                              ELSE UNCHANGED <<lock, stale, temps>>
  /\ UNCHANGED <<dir, target, server, inactive, receipts, three>>

\* The holder of the lock is slower than the timeout and five seconds.
LockAges ==
  /\ lock # 0 /\ ~stale /\ Failure
  /\ stale' = TRUE
  /\ UNCHANGED <<dir, target, temps, lock, attempt, server, inactive, receipts, three>>

\* A push replaces the head.
HeadMoves ==
  /\ ~inactive /\ Failure /\ inactive' = TRUE
  /\ UNCHANGED <<files, attempt, server, receipts, three>>

Killed(a) == [attempt[a] EXCEPT !.pc = "error", !.well = FALSE]

\* The worker dies; activity-entrypoint.sh clears the staging directory.
Restart ==
  /\ Failure
  /\ dir' = NoDirectory /\ target' = "none" /\ temps' = {} /\ lock' = 0 /\ stale' = FALSE
  /\ attempt' = [a \in Attempts |-> IF Live(a) THEN Killed(a) ELSE attempt[a]]
  /\ UNCHANGED <<server, inactive, receipts, three>>

-----------------------------------------------------------------------------
(* Specification *)

FilesInit ==
  /\ dir = NoDirectory /\ target = "none" /\ temps = {} /\ lock = 0 /\ stale = FALSE
  /\ attempt = [a \in Attempts |-> NotStarted]
  /\ server = [stage |-> "select", waits |-> 0]
  /\ inactive = FALSE /\ receipts = {} /\ three = FALSE /\ failures = 0

Disturbance ==
  \/ LockAges \/ HeadMoves \/ Restart
  \/ \E a \in Attempts : CheckoutFails(a) \/ InspectionFails(a) \/ Abandon(a) \/ Cancel(a)

FilesNext == StartAttempt \/ Answer \/ Disturbance \/ \E a \in Attempts : Step(a)

FilesSpec == FilesInit /\ [][FilesNext]_fileVars

-----------------------------------------------------------------------------
(* Properties *)

NoCleanupCut == \A a \in Attempts : ~AtStep(a, "cut")
OneAtATime == \A a \in Started : attempt[a].alone

\* Nothing of a run stays on the host once it is recorded as terminal and the
\* attempts that were still at work are through: no lock and no temporary copy; no
\* directory, not even one that an abandoned attempt made after the removal, unless
\* three attempts were at work at once; and no checkout, unless two were.
TerminalLeavesNothing ==
  server.stage = "ended" /\ NobodyWorks /\ NoCleanupCut =>
    /\ temps = {} /\ lock = 0
    /\ ~three => dir = NoDirectory
    /\ OneAtATime => target = "none"

\* Whatever earlier attempts left behind, an attempt that has the files to itself
\* and meets no failure of its own succeeds: a leftover directory, checkout or
\* lock never costs a stage its retries.
LeftoversNeverBlock ==
  \A a \in Attempts : attempt[a].alone /\ attempt[a].well /\ AtStep(a, "error")
    => inactive /\ attempt[a].stage # "terminal"

\* Nor does it work on what an earlier attempt left half written or half removed.
LeftoversNeverRead ==
  NoCleanupCut => \A a \in Attempts : attempt[a].alone /\ attempt[a].well => attempt[a].saw # "part"
=============================================================================
