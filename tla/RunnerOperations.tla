--------------------------- MODULE RunnerOperations ---------------------------
(***************************************************************************)
(* One runner identity and the worker processes that take it in turn:      *)
(* registration, heartbeats, drain and retirement (operations/store.py and *)
(* the worker's operations.py), around the polling of activities.          *)
(*                                                                         *)
(* The row of the runner is the only thing the processes share.  A newer   *)
(* process takes the row over at any time, an operator asks for a drain at *)
(* any time, and a heartbeat is written by a thread that nothing stops.    *)
(***************************************************************************)
EXTENDS Integers, FiniteSets

CONSTANTS
  Tasks,          \* review activities waiting on the task queue
  MaxProcesses,   \* bound: processes started under this identity
  Capacity,       \* RUNNER_CAPACITY
  MaxDrains,      \* bound: requests of an operator
  MaxFaults       \* bound: failed database calls, killed processes, outages

ASSUME RunnerAssumption ==
  {MaxProcesses, Capacity} \subseteq Nat \ {0} /\ {MaxDrains, MaxFaults} \subseteq Nat

Processes == 1 .. MaxProcesses

VARIABLES
  row,       \* the row of operation_runners; session is the process that wrote it last
  proc,      \* proc[p]: what the process does, its monitor and its watch
  beat,      \* beat[p]: what its heartbeat thread is about to write
  task,      \* task[t]: waiting, done, or the process and how far it is
  work,      \* tasks whose first start is recorded in operation_work
  drains,
  faults

vars == <<row, proc, beat, task, work, drains, faults>>

-----------------------------------------------------------------------------
(* Values *)

NoRow == [session |-> 0, state |-> "offline", drain |-> FALSE, fresh |-> FALSE]
NoBeat == "none"

\* owed: a drain was pending when the process registered.  late: its last heartbeat was
\* written after its retirement.
Absent == [pc |-> "absent", draining |-> FALSE, watched |-> FALSE, owed |-> FALSE, late |-> FALSE]
Waiting == [at |-> "queue", by |-> 0]

At(p, pc) == proc[p].pc = pc
To(p, pc) == proc' = [proc EXCEPT ![p].pc = pc]
Active(p) == {t \in Tasks : task[t].by = p}
Current(p) == row.session = p
Polls(p) == At(p, "polling")

Fault == faults < MaxFaults /\ faults' = faults + 1

\* Faulty variant: the heartbeat of a replaced process counts.
AnyHeartbeat(p, state) == row' = [row EXCEPT !.state = state, !.fresh = TRUE]

\* heartbeat: fenced by the session.
Heartbeat(p, state) ==
  row' = IF Current(p) THEN [row EXCEPT !.state = state, !.fresh = TRUE] ELSE row

-----------------------------------------------------------------------------
(* run_monitored: start *)

\* Faulty variant: the row of a new process starts clean.
RegisterClean(p) ==
  /\ At(p, "absent") /\ \A q \in 1 .. p - 1 : ~At(q, "absent")
  /\ row' = [session |-> p, state |-> "online", drain |-> FALSE, fresh |-> TRUE]
  /\ proc' = [proc EXCEPT ![p].pc = "registered", ![p].owed = row.drain]
  /\ UNCHANGED <<beat, task, work, drains, faults>>

\* register takes the row over and leaves a request for a drain as it is.
Register(p) ==
  /\ At(p, "absent") /\ \A q \in 1 .. p - 1 : ~At(q, "absent")
  /\ row' = [row EXCEPT !.session = p, !.state = "online", !.fresh = TRUE]
  /\ proc' = [proc EXCEPT ![p].pc = "registered", ![p].owed = row.drain]
  /\ UNCHANGED <<beat, task, work, drains, faults>>

\* The first pulse comes before any polling; a process replaced by now raises and exits.
FirstPulse(p) ==
  /\ At(p, "registered") /\ Heartbeat(p, "online")
  /\ proc' = [proc EXCEPT
       ![p].pc = IF ~Current(p) THEN "gone" ELSE IF row.drain THEN "retiring" ELSE "polling",
       ![p].draining = Current(p) /\ row.drain,
       ![p].watched = Current(p) /\ ~row.drain]
  /\ UNCHANGED <<beat, task, work, drains, faults>>

-----------------------------------------------------------------------------
(* RunnerMonitor.watch *)

\* pulse reads its state, and a thread writes it whenever the database lets it.
Pulse(p) ==
  /\ proc[p].watched /\ beat[p] = NoBeat
  /\ beat' = [beat EXCEPT ![p] = IF proc[p].draining THEN "draining"
                                 ELSE IF Active(p) # {} THEN "busy" ELSE "online"]
  /\ UNCHANGED <<row, proc, task, work, drains, faults>>

\* Without a healthy Temporal the runner says so.
UnhealthyPulse(p) ==
  /\ proc[p].watched /\ beat[p] = NoBeat /\ Fault
  /\ beat' = [beat EXCEPT ![p] = "offline"]
  /\ UNCHANGED <<row, proc, task, work, drains>>

\* Faulty variant: a replaced process only stops its heartbeats.
WriteBeatAndForget(p) ==
  /\ beat[p] # NoBeat
  /\ Heartbeat(p, beat[p])
  /\ beat' = [beat EXCEPT ![p] = NoBeat]
  /\ proc' = [proc EXCEPT ![p].watched = @ /\ Current(p),
                          ![p].draining = @ \/ (proc[p].watched /\ Current(p) /\ row.drain),
                          ![p].late = At(p, "retired")]
  /\ UNCHANGED <<task, work, drains, faults>>

\* The heartbeat is written; a pending drain, or a newer session, stops the process while
\* somebody waits for the answer.
WriteBeat(p) ==
  /\ beat[p] # NoBeat
  /\ Heartbeat(p, beat[p])
  /\ beat' = [beat EXCEPT ![p] = NoBeat]
  /\ proc' = [proc EXCEPT ![p].watched = @ /\ Current(p),
                          ![p].draining = @ \/ (proc[p].watched /\ (row.drain \/ ~Current(p))),
                          ![p].late = At(p, "retired")]
  /\ UNCHANGED <<task, work, drains, faults>>

\* An error of the database is logged, and the next pulse follows.
BeatFails(p) ==
  /\ beat[p] # NoBeat /\ Fault
  /\ beat' = [beat EXCEPT ![p] = NoBeat]
  /\ UNCHANGED <<row, proc, task, work, drains>>

-----------------------------------------------------------------------------
(* Activities: the task queue and _ObservedActivity *)

Poll(p) ==
  /\ Polls(p) /\ Cardinality(Active(p)) < Capacity
  /\ \E t \in Tasks : task[t].at = "queue" /\ task' = [task EXCEPT ![t] = [at |-> "observing", by |-> p]]
  /\ UNCHANGED <<row, proc, beat, work, drains, faults>>

\* observe_start, before the side effect: a replaced process fails the attempt instead.
ObserveStart(p) ==
  /\ \E t \in Active(p) :
       /\ task[t].at = "observing"
       /\ task' = [task EXCEPT ![t] = IF Current(p) THEN [at |-> "body", by |-> p] ELSE Waiting]
       /\ work' = IF Current(p) THEN work \cup {t} ELSE work
  /\ UNCHANGED <<row, proc, beat, drains, faults>>

Finish(p) ==
  /\ \E t \in Active(p) : task[t].at = "body" /\ task' = [task EXCEPT ![t] = [at |-> "done", by |-> 0]]
  /\ UNCHANGED <<row, proc, beat, work, drains, faults>>

\* Temporal repeats what a process lost or interrupted.
Released(p) == [t \in Tasks |-> IF task[t].by = p THEN Waiting ELSE task[t]]

-----------------------------------------------------------------------------
(* run_monitored: stop *)

\* SIGTERM or SIGINT.
Signal(p) ==
  /\ Polls(p) /\ ~proc[p].draining /\ Fault
  /\ proc' = [proc EXCEPT ![p].draining = TRUE]
  /\ UNCHANGED <<row, beat, task, work, drains>>

\* One more heartbeat, whose errors and answer do not matter, then worker.shutdown.
StopPolling(p) ==
  /\ Polls(p) /\ proc[p].draining
  /\ Heartbeat(p, "draining") /\ To(p, "shutdown")
  /\ UNCHANGED <<beat, task, work, drains, faults>>

\* The activities end, or are interrupted after the grace; then the watch is cancelled.
Shutdown(p) ==
  /\ At(p, "shutdown")
  /\ task' = Released(p)
  /\ proc' = [proc EXCEPT ![p].pc = "retiring", ![p].watched = FALSE]
  /\ UNCHANGED <<row, beat, work, drains, faults>>

\* Faulty variant: whoever retires clears the row.
RetireAnySession(p) ==
  /\ At(p, "retiring") /\ To(p, "retired")
  /\ row' = [row EXCEPT !.state = "offline", !.drain = FALSE, !.fresh = TRUE]
  /\ UNCHANGED <<beat, task, work, drains, faults>>

\* retire: fenced by the session too.
Retire(p) ==
  /\ At(p, "retiring") /\ To(p, "retired")
  /\ row' = IF Current(p) THEN [row EXCEPT !.state = "offline", !.drain = FALSE, !.fresh = TRUE]
                          ELSE row
  /\ UNCHANGED <<beat, task, work, drains, faults>>

-----------------------------------------------------------------------------
(* Operators, time and failures *)

\* request_drain, of a runner that has a row; it may be offline.
RequestDrain ==
  /\ row.session # 0 /\ drains < MaxDrains /\ drains' = drains + 1
  /\ row' = [row EXCEPT !.drain = TRUE]
  /\ UNCHANGED <<proc, beat, task, work, faults>>

\* 45 seconds without a heartbeat, four intervals of a watch: nobody watches, or an outage.
Age ==
  /\ row.fresh
  /\ \/ row.session # 0 /\ ~proc[row.session].watched /\ UNCHANGED faults
     \/ Fault
  /\ row' = [row EXCEPT !.fresh = FALSE]
  /\ UNCHANGED <<proc, beat, task, work, drains>>

\* The process is killed; or a database call outside the watch fails, which ends a process
\* that starts, fails the attempt of an activity, and leaves a retirement undone.
Crash(p) ==
  /\ proc[p].pc \in {"registered", "polling", "shutdown", "retiring"} /\ Fault
  /\ proc' = [proc EXCEPT ![p].pc = "gone", ![p].watched = FALSE]
  /\ beat' = [beat EXCEPT ![p] = NoBeat]
  /\ task' = Released(p)
  /\ UNCHANGED <<row, work, drains>>

ObserveFails(p) ==
  /\ Fault
  /\ \E t \in Active(p) : task[t].at = "observing" /\ task' = [task EXCEPT ![t] = Waiting]
  /\ UNCHANGED <<row, proc, beat, work, drains>>

-----------------------------------------------------------------------------
(* Specification *)

Init ==
  /\ row = NoRow /\ proc = [p \in Processes |-> Absent] /\ beat = [p \in Processes |-> NoBeat]
  /\ task = [t \in Tasks |-> Waiting] /\ work = {} /\ drains = 0 /\ faults = 0

Main(p) == FirstPulse(p) \/ StopPolling(p) \/ Shutdown(p) \/ Retire(p)

Next ==
  \/ RequestDrain \/ Age
  \/ \E p \in Processes :
       \/ Register(p) \/ Main(p) \/ Pulse(p) \/ UnhealthyPulse(p) \/ WriteBeat(p) \/ BeatFails(p)
       \/ Poll(p) \/ ObserveStart(p) \/ Finish(p) \/ Signal(p) \/ Crash(p) \/ ObserveFails(p)

Spec == Init /\ [][Next]_vars

\* The event loop and the heartbeat thread of a process go on, and time passes.
Fairness ==
  WF_vars(Age) /\ \A p \in Processes : WF_vars(Main(p)) /\ WF_vars(Pulse(p)) /\ WF_vars(WriteBeat(p))
FairSpec == Spec /\ Fairness

-----------------------------------------------------------------------------
(* Properties *)

\* What snapshot counts as capacity.
Available == row.fresh /\ ~row.drain /\ row.state \in {"online", "busy"}

\* A drain that was pending when a process registered, because the process before it
\* crashed or was replaced first, is heeded: the process never polls, even when its
\* predecessor retires in between.
OwedDrainIsHeeded == \A p \in Processes : Polls(p) => ~proc[p].owed

\* A request for a drain is never dropped: it goes away only when the process that has the
\* runner by then retires.
DrainLeavesWithItsProcess == [][row.drain /\ ~row'.drain => proc'[row'.session].pc = "retired"]_vars

\* Capacity is shown only for a process that runs, or one that was killed and has not been
\* missed yet; a process that was replaced does not show up as its successor.  One heartbeat
\* may be written after the retirement of its own process and shows it until it ages.
AvailableMeansRunning ==
  Available => ~At(row.session, "retired") \/ proc[row.session].late

\* A process that is to drain, or whose runner was taken over, stops polling, and what it
\* leaves behind is not shown as capacity for ever.
ToldToStopStops ==
  /\ \A p \in Processes : Polls(p) /\ (row.drain \/ ~Current(p)) ~> ~Polls(p)
  /\ Available /\ proc[row.session].pc \in {"gone", "retired"}
       ~> ~Available \/ proc[row.session].pc \notin {"gone", "retired"}
=============================================================================
