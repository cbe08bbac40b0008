------------------------ MODULE RunnerOperationsProofs ------------------------
(***************************************************************************)
(* The safety properties of RunnerOperations for any number of processes,  *)
(* activities, requests for a drain and failures.                          *)
(*                                                                         *)
(* The row remembers who wrote it last, and every write but registration   *)
(* is fenced by that.  So a pending drain waits for the process that took  *)
(* the row over, and what a retired process leaves in the row is "offline" *)
(* or the one heartbeat that was on its way.                               *)
(*                                                                         *)
(* The second half is about the files the runner keeps for one run: the    *)
(* safety properties of Workspace, for any number of attempts and          *)
(* failures.                                                               *)
(***************************************************************************)
EXTENDS RunnerOperations, Workspace, TLAPS

-----------------------------------------------------------------------------
(* The inductive invariant *)

Places == {"absent", "registered", "polling", "shutdown", "retiring", "retired", "gone"}
States == {"online", "busy", "draining", "offline"}

Row == [session : 0 .. MaxProcesses, state : States, drain : BOOLEAN, fresh : BOOLEAN]
Process == [pc : Places, draining : BOOLEAN, watched : BOOLEAN, owed : BOOLEAN, late : BOOLEAN]

TypeOK ==
  /\ row \in Row
  /\ proc \in [Processes -> Process]
  /\ beat \in [Processes -> States \cup {NoBeat}]
  /\ task \in [Tasks -> [at : {"queue", "observing", "body", "done"}, by : 0 .. MaxProcesses]]
  /\ work \subseteq Tasks /\ {drains, faults} \subseteq Nat

\* The processes registered in order, and the row is the last one's.
SessionOK ==
  /\ \A p \in Processes : ~At(p, "absent") <=> p <= row.session
  /\ row.session = 0 => row.state = "offline" /\ ~row.drain

\* A process that registered under a pending drain finds it when it looks, and never polls.
OwedOK ==
  \A p \in Processes : proc[p].owed =>
    ~Polls(p) /\ (At(p, "registered") /\ Current(p) => row.drain)

\* What a retired process has in the row was written by its retirement or is late.
RetiredOK ==
  \A p \in Processes : Current(p) /\ At(p, "retired") => row.state = "offline" \/ proc[p].late

IInv == TypeOK /\ SessionOK /\ OwedOK /\ RetiredOK

-----------------------------------------------------------------------------
(* Lemmas *)

\* A process has a number, and so has one that is being counted.
LEMMA Bounds ==
  /\ MaxProcesses \in Nat \ {0} /\ {Capacity, MaxDrains, MaxFaults} \subseteq Nat
  /\ \A p \in Processes : p \in Nat \ {0} /\ p <= MaxProcesses /\ p \in 0 .. MaxProcesses
BY RunnerAssumption DEF Processes

\* A fenced heartbeat changes at most the state and the age of the row.
LEMMA HeartbeatKeeps ==
  ASSUME TypeOK, NEW p \in Processes, NEW state \in States, Heartbeat(p, state)
  PROVE  /\ row' \in Row /\ row'.session = row.session /\ row'.drain = row.drain
         /\ ~Current(p) => row' = row
BY DEF TypeOK, Heartbeat, Row

\* What one step may do to the processes: the one that moves is never absent again, and what
\* it owed stays.
LEMMA MoveKeeps ==
  ASSUME IInv, NEW p \in Processes, NEW k \in Process, proc' = [proc EXCEPT ![p] = k],
         TypeOK', k.pc = "absent" <=> At(p, "absent"), k.owed = proc[p].owed,
         row'.session = row.session, row.session = 0 => UNCHANGED row,
         k.owed => k.pc # "polling" /\ (k.pc = "registered" => At(p, "registered")),
         row'.drain = row.drain \/ (Current(p) /\ k.pc # "registered"),
         Current(p) /\ k.pc = "retired" => row'.state = "offline" \/ k.late,
         ~Current(p) => row' = row
  PROVE  IInv'
<1>1. /\ proc'[p] = k /\ \A q \in Processes \ {p} : proc'[q] = proc[q]
  BY DEF IInv, TypeOK
<1>2. SessionOK'
  BY <1>1 DEF IInv, SessionOK, At
<1>3. ASSUME NEW q \in Processes, proc'[q].owed
      PROVE  proc'[q].pc # "polling" /\ (proc'[q].pc = "registered" /\ row'.session = q => row'.drain)
  <2>1. CASE q = p
    BY <1>1, <1>3, <2>1 DEF IInv, OwedOK, At, Current
  <2>2. CASE q # p
    BY <1>1, <1>3, <2>2 DEF IInv, OwedOK, At, Current, Polls
  <2> QED BY <2>1, <2>2
<1>4. OwedOK'
  BY <1>3 DEF OwedOK, At, Current, Polls
<1>5. RetiredOK'
  BY <1>1 DEF IInv, RetiredOK, At, Current
<1> QED BY <1>2, <1>4, <1>5 DEF IInv

\* A step that leaves the processes and the sense of the row alone.
LEMMA RowKeeps ==
  ASSUME IInv, TypeOK', UNCHANGED proc, row'.session = row.session, row'.state = row.state,
         row.drain => row'.drain, row.session = 0 => ~row'.drain
  PROVE  IInv'
BY DEF IInv, SessionOK, OwedOK, RetiredOK, At, Current, Polls

-----------------------------------------------------------------------------
(* One lemma per action *)

\* A new process takes the row over with the drain that is pending.
LEMMA RegisterIInv ==
  ASSUME IInv, NEW p \in Processes, Register(p)
  PROVE  IInv'
<1>1. /\ TypeOK /\ SessionOK /\ OwedOK /\ RetiredOK /\ At(p, "absent")
      /\ \A q \in 1 .. p - 1 : ~At(q, "absent")
      /\ UNCHANGED <<beat, task, work, drains, faults>> /\ row \in Row /\ proc[p] \in Process
  BY DEF IInv, TypeOK, Register
<1>2. row' = [row EXCEPT !.session = p, !.state = "online", !.fresh = TRUE]
  BY DEF Register
<1>3. PICK k : k = [proc[p] EXCEPT !.pc = "registered", !.owed = row.drain]
  OBVIOUS
<1>4. k \in Process /\ k.pc = "registered" /\ k.owed = row.drain
  BY <1>1, <1>3 DEF Process, Row, Places
<1>5. proc' = [proc EXCEPT ![p] = k]
  BY <1>1, <1>3 DEF TypeOK, Register
<1>6. /\ row' \in Row /\ row'.session = p /\ row'.drain = row.drain
  BY <1>1, <1>2, Bounds DEF Row, States
<1>7. proc'[p] = k /\ \A q \in Processes \ {p} : proc'[q] = proc[q]
  BY <1>1, <1>5 DEF TypeOK
<1>8. TypeOK'
  BY <1>1, <1>4, <1>5, <1>6 DEF TypeOK
<1>9. \A q \in Processes : q < p => q <= row.session
  BY <1>1, Bounds DEF SessionOK, Processes
<1>10. row.session \in Nat /\ row.session < p
  BY <1>1, Bounds DEF SessionOK, Row
<1>11. SessionOK'
  <2>1. ASSUME NEW q \in Processes PROVE proc'[q].pc # "absent" <=> q <= p
    <3>1. CASE q = p
      BY <1>4, <1>7, <3>1, Bounds
    <3>2. CASE q # p
      BY <1>1, <1>7, <1>9, <1>10, <3>2, Bounds DEF SessionOK, At
    <3> QED BY <3>1, <3>2
  <2> QED BY <1>6, <2>1, Bounds DEF SessionOK, At
<1>12. OwedOK'
  BY <1>1, <1>4, <1>6, <1>7 DEF OwedOK, Polls, At, Current
<1>13. RetiredOK'
  BY <1>4, <1>6, <1>7 DEF RetiredOK, At, Current
<1> QED BY <1>8, <1>11, <1>12, <1>13 DEF IInv

\* A process that finds a drain goes to retire without polling.
LEMMA FirstPulseIInv ==
  ASSUME IInv, NEW p \in Processes, FirstPulse(p)
  PROVE  IInv'
<1>1. /\ TypeOK /\ SessionOK /\ OwedOK /\ At(p, "registered") /\ Heartbeat(p, "online")
      /\ UNCHANGED <<beat, task, work, drains, faults>> /\ row \in Row /\ proc[p] \in Process
  BY DEF IInv, TypeOK, FirstPulse
<1>2. row' \in Row /\ row'.session = row.session /\ row'.drain = row.drain /\ (~Current(p) => row' = row)
  BY <1>1, HeartbeatKeeps DEF States
<1>3. PICK pc \in {"gone", "retiring", "polling"} :
        pc = IF ~Current(p) THEN "gone" ELSE IF row.drain THEN "retiring" ELSE "polling"
  OBVIOUS
<1> DEFINE draining == Current(p) /\ row.drain
           watched == Current(p) /\ ~row.drain
<1>4. draining \in BOOLEAN /\ watched \in BOOLEAN
  OBVIOUS
<1>5. PICK k : k = [proc[p] EXCEPT !.pc = pc, !.draining = draining, !.watched = watched]
  OBVIOUS
<1>6. proc' = [proc EXCEPT ![p] = k]
  BY <1>1, <1>3, <1>5 DEF FirstPulse, TypeOK
<1>7. k \in Process /\ k.pc = pc /\ k.owed = proc[p].owed /\ k.late = proc[p].late
  <2> HIDE DEF draining, watched
  <2> QED BY <1>1, <1>3, <1>4, <1>5 DEF Process, Places
<1>8. k.owed => k.pc # "polling"
  BY <1>1, <1>3, <1>7 DEF OwedOK
<1>9. TypeOK'
  BY <1>1, <1>2, <1>6, <1>7 DEF TypeOK
<1>10. row.session = 0 => row' = row
  BY <1>2, Bounds DEF Current
<1> QED BY <1>1, <1>2, <1>3, <1>6, <1>7, <1>8, <1>9, <1>10, MoveKeeps DEF At

\* Writing a heartbeat: after a retirement it is late.
LEMMA WriteBeatIInv ==
  ASSUME IInv, NEW p \in Processes, WriteBeat(p)
  PROVE  IInv'
<1>1. /\ TypeOK /\ OwedOK /\ beat[p] \in States /\ Heartbeat(p, beat[p])
      /\ UNCHANGED <<task, work, drains, faults>> /\ row \in Row /\ proc[p] \in Process
      /\ beat' = [beat EXCEPT ![p] = NoBeat]
  BY DEF IInv, TypeOK, WriteBeat
<1>2. row' \in Row /\ row'.session = row.session /\ row'.drain = row.drain /\ (~Current(p) => row' = row)
  BY <1>1, HeartbeatKeeps
<1> DEFINE draining == proc[p].draining \/ (proc[p].watched /\ (row.drain \/ ~Current(p)))
           watched == proc[p].watched /\ Current(p)
           late == At(p, "retired")
<1>3. draining \in BOOLEAN /\ watched \in BOOLEAN /\ late \in BOOLEAN
  <2>1. draining \in BOOLEAN
    OBVIOUS
  <2>2. watched \in BOOLEAN
    OBVIOUS
  <2>3. late \in BOOLEAN
    BY DEF At
  <2> QED BY <2>1, <2>2, <2>3
<1>4. PICK k : k = [proc[p] EXCEPT !.watched = watched, !.draining = draining, !.late = late]
  OBVIOUS
<1>5. proc' = [proc EXCEPT ![p] = k]
  BY <1>1, <1>4 DEF WriteBeat, TypeOK
<1>6. k \in Process /\ k.pc = proc[p].pc /\ k.owed = proc[p].owed /\ k.late = late
  <2> HIDE DEF draining, watched, late
  <2> QED BY <1>1, <1>3, <1>4 DEF Process
<1>7. TypeOK'
  BY <1>1, <1>2, <1>5, <1>6 DEF TypeOK
<1>8. row.session = 0 => row' = row
  BY <1>2, Bounds DEF Current
<1>9. k.owed => k.pc # "polling" /\ (k.pc = "registered" => At(p, "registered"))
  BY <1>1, <1>6 DEF OwedOK, Polls, At
<1> QED BY <1>1, <1>2, <1>5, <1>6, <1>7, <1>8, <1>9, MoveKeeps DEF At

\* The last heartbeat before the shutdown of the polling.
LEMMA StopPollingIInv ==
  ASSUME IInv, NEW p \in Processes, StopPolling(p)
  PROVE  IInv'
<1>1. /\ TypeOK /\ At(p, "polling") /\ Heartbeat(p, "draining")
      /\ UNCHANGED <<beat, task, work, drains, faults>> /\ row \in Row /\ proc[p] \in Process
  BY DEF IInv, TypeOK, StopPolling, Polls
<1>2. row' \in Row /\ row'.session = row.session /\ row'.drain = row.drain /\ (~Current(p) => row' = row)
  BY <1>1, HeartbeatKeeps DEF States
<1>3. PICK k : k = [proc[p] EXCEPT !.pc = "shutdown"]
  OBVIOUS
<1>4. proc' = [proc EXCEPT ![p] = k]
  BY <1>1, <1>3 DEF StopPolling, To, TypeOK
<1>5. k \in Process /\ k.pc = "shutdown" /\ k.owed = proc[p].owed
  BY <1>1, <1>3 DEF Process, Places
<1>6. TypeOK'
  BY <1>1, <1>2, <1>4, <1>5 DEF TypeOK
<1>7. row.session = 0 => row' = row
  BY <1>2, Bounds DEF Current
<1> QED BY <1>1, <1>2, <1>4, <1>5, <1>6, <1>7, MoveKeeps DEF At

\* The retirement of the process that has the row says offline and answers the drain.
LEMMA RetireIInv ==
  ASSUME IInv, NEW p \in Processes, Retire(p)
  PROVE  IInv'
<1>1. /\ TypeOK /\ At(p, "retiring")
      /\ UNCHANGED <<beat, task, work, drains, faults>> /\ row \in Row /\ proc[p] \in Process
      /\ row' = IF Current(p) THEN [row EXCEPT !.state = "offline", !.drain = FALSE, !.fresh = TRUE]
                              ELSE row
  BY DEF IInv, TypeOK, Retire
<1>2. row' \in Row /\ row'.session = row.session /\ (~Current(p) => row' = row)
      /\ (Current(p) => row'.state = "offline")
  BY <1>1 DEF Row, States
<1>3. PICK k : k = [proc[p] EXCEPT !.pc = "retired"]
  OBVIOUS
<1>4. proc' = [proc EXCEPT ![p] = k]
  BY <1>1, <1>3 DEF Retire, To, TypeOK
<1>5. k \in Process /\ k.pc = "retired" /\ k.owed = proc[p].owed
  BY <1>1, <1>3 DEF Process, Places
<1>6. TypeOK'
  BY <1>1, <1>2, <1>4, <1>5 DEF TypeOK
<1>7. row.session = 0 => row' = row
  BY <1>2, Bounds DEF Current
<1> QED BY <1>1, <1>2, <1>4, <1>5, <1>6, <1>7, MoveKeeps DEF At

\* The end of the activities of a process gives them back to the queue.
LEMMA ReleasedTasks ==
  ASSUME TypeOK, NEW p
  PROVE  Released(p) \in [Tasks -> [at : {"queue", "observing", "body", "done"},
                                   by : 0 .. MaxProcesses]]
BY Bounds DEF TypeOK, Released, Waiting

\* A shutdown, a signal or a crash leaves the row to others.
LEMMA StopIInv ==
  ASSUME IInv, NEW p \in Processes, Shutdown(p) \/ Signal(p) \/ Crash(p)
  PROVE  IInv'
<1>1. /\ TypeOK /\ OwedOK /\ proc[p] \in Process /\ UNCHANGED <<row, work, drains>>
      /\ proc[p].pc \in {"registered", "polling", "shutdown", "retiring"}
  BY DEF IInv, TypeOK, Shutdown, Signal, Crash, At, Polls
<1>2. /\ beat' \in [Processes -> States \cup {NoBeat}] /\ faults' \in Nat
      /\ task' \in [Tasks -> [at : {"queue", "observing", "body", "done"}, by : 0 .. MaxProcesses]]
  <2>1. CASE Shutdown(p)
    BY <1>1, <2>1, ReleasedTasks DEF Shutdown, TypeOK
  <2>2. CASE Signal(p)
    BY <1>1, <2>2 DEF Signal, Fault, TypeOK
  <2>3. CASE Crash(p)
    BY <1>1, <2>3, ReleasedTasks DEF Crash, Fault, TypeOK
  <2> QED BY <2>1, <2>2, <2>3
<1>3. PICK k \in Process :
        /\ proc' = [proc EXCEPT ![p] = k] /\ k.owed = proc[p].owed
        /\ k.pc \in {"retiring", "gone"} \/ (k.pc = "polling" /\ Polls(p))
  <2>1. CASE Shutdown(p)
    <3>1. PICK k : k = [proc[p] EXCEPT !.pc = "retiring", !.watched = FALSE]
      OBVIOUS
    <3>2. k \in Process /\ k.pc = "retiring" /\ k.owed = proc[p].owed
      BY <1>1, <3>1 DEF Process, Places
    <3>3. proc' = [proc EXCEPT ![p] = k]
      BY <1>1, <2>1, <3>1 DEF Shutdown, TypeOK
    <3> QED BY <3>2, <3>3
  <2>2. CASE Signal(p)
    <3>1. PICK k : k = [proc[p] EXCEPT !.draining = TRUE]
      OBVIOUS
    <3>2. k \in Process /\ k.pc = "polling" /\ k.owed = proc[p].owed /\ Polls(p)
      BY <1>1, <2>2, <3>1 DEF Process, Signal, Polls, At
    <3>3. proc' = [proc EXCEPT ![p] = k]
      BY <1>1, <2>2, <3>1 DEF Signal, TypeOK
    <3> QED BY <3>2, <3>3
  <2>3. CASE Crash(p)
    <3>1. PICK k : k = [proc[p] EXCEPT !.pc = "gone", !.watched = FALSE]
      OBVIOUS
    <3>2. k \in Process /\ k.pc = "gone" /\ k.owed = proc[p].owed
      BY <1>1, <3>1 DEF Process, Places
    <3>3. proc' = [proc EXCEPT ![p] = k]
      BY <1>1, <2>3, <3>1 DEF Crash, TypeOK
    <3> QED BY <3>2, <3>3
  <2> QED BY <2>1, <2>2, <2>3
<1>4. TypeOK'
  BY <1>1, <1>2, <1>3 DEF TypeOK
<1>5. k.owed => k.pc # "polling"
  BY <1>1, <1>3 DEF OwedOK
<1>6. k.pc # "absent" /\ k.pc # "registered" /\ k.pc # "retired" /\ ~At(p, "absent")
  BY <1>1, <1>3 DEF At
<1>7. row' = row
  BY <1>1
<1> QED BY <1>3, <1>4, <1>5, <1>6, <1>7, MoveKeeps

\* Heartbeats that are begun or lost, and activities, touch neither row nor processes.
LEMMA WorkIInv ==
  ASSUME IInv, NEW p \in Processes,
         \/ Pulse(p) \/ UnhealthyPulse(p) \/ BeatFails(p)
         \/ Poll(p) \/ ObserveStart(p) \/ Finish(p) \/ ObserveFails(p)
  PROVE  IInv'
<1>1. TypeOK /\ UNCHANGED <<row, proc, drains>>
  BY DEF IInv, Pulse, UnhealthyPulse, BeatFails, Poll, ObserveStart, Finish, ObserveFails
<1>2. faults' \in Nat
  BY <1>1 DEF TypeOK, Fault, Pulse, UnhealthyPulse, BeatFails, Poll, ObserveStart, Finish,
              ObserveFails
<1>3. beat' \in [Processes -> States \cup {NoBeat}]
  <2>1. \A b \in States \cup {NoBeat} : [beat EXCEPT ![p] = b] \in [Processes -> States \cup {NoBeat}]
    BY <1>1 DEF TypeOK
  <2>2. \E b \in States \cup {NoBeat} : beat' = [beat EXCEPT ![p] = b] \/ beat' = beat
    <3>1. CASE Pulse(p)
      BY <3>1 DEF Pulse, States
    <3>2. CASE UnhealthyPulse(p)
      BY <3>2 DEF UnhealthyPulse, States
    <3>3. CASE BeatFails(p)
      BY <3>3 DEF BeatFails
    <3>4. CASE UNCHANGED beat
      BY <3>4
    <3> QED BY <3>1, <3>2, <3>3, <3>4 DEF Poll, ObserveStart, Finish, ObserveFails
  <2> QED BY <1>1, <2>1, <2>2 DEF TypeOK
<1>4. /\ task' \in [Tasks -> [at : {"queue", "observing", "body", "done"}, by : 0 .. MaxProcesses]]
      /\ work' \subseteq Tasks
  <2>1. CASE UNCHANGED <<task, work>>
    BY <1>1, <2>1 DEF TypeOK
  <2>2. ASSUME NEW t \in Tasks,
               NEW v \in [at : {"queue", "observing", "body", "done"}, by : 0 .. MaxProcesses],
               task' = [task EXCEPT ![t] = v], work' \in {work, work \cup {t}}
        PROVE  /\ task' \in [Tasks -> [at : {"queue", "observing", "body", "done"},
                                       by : 0 .. MaxProcesses]]
               /\ work' \subseteq Tasks
    BY <1>1, <2>2 DEF TypeOK
  <2>3. /\ Waiting \in [at : {"queue", "observing", "body", "done"}, by : 0 .. MaxProcesses]
        /\ \A a \in {"queue", "observing", "body", "done"} :
             /\ [at |-> a, by |-> p] \in [at : {"queue", "observing", "body", "done"}, by : 0 .. MaxProcesses]
             /\ [at |-> a, by |-> 0] \in [at : {"queue", "observing", "body", "done"}, by : 0 .. MaxProcesses]
    BY Bounds DEF Waiting
  <2>4. CASE Poll(p)
    BY <2>2, <2>3, <2>4 DEF Poll
  <2>5. CASE ObserveStart(p)
    <3>1. PICK t \in Tasks :
            /\ task' = [task EXCEPT ![t] = IF Current(p) THEN [at |-> "body", by |-> p] ELSE Waiting]
            /\ work' = IF Current(p) THEN work \cup {t} ELSE work
      BY <2>5 DEF ObserveStart, Active
    <3> QED BY <2>2, <2>3, <3>1
  <2>6. CASE Finish(p)
    BY <2>2, <2>3, <2>6 DEF Finish, Active
  <2>7. CASE ObserveFails(p)
    BY <2>2, <2>3, <2>7 DEF ObserveFails, Active
  <2> QED BY <2>1, <2>4, <2>5, <2>6, <2>7 DEF Pulse, UnhealthyPulse, BeatFails
<1>5. TypeOK'
  BY <1>1, <1>2, <1>3, <1>4 DEF TypeOK
<1> QED BY <1>1, <1>5, RowKeeps DEF IInv, SessionOK

\* An operator asks for a drain, or time passes.
LEMMA OutsideIInv ==
  ASSUME IInv, RequestDrain \/ Age
  PROVE  IInv'
<1>1. TypeOK /\ row \in Row /\ UNCHANGED <<proc, beat, task, work>>
  BY DEF IInv, TypeOK, RequestDrain, Age
<1>2. CASE RequestDrain
  <2>1. /\ row' \in Row /\ row'.session = row.session /\ row'.state = row.state
        /\ row'.drain /\ row.session # 0
    BY <1>1, <1>2 DEF RequestDrain, Row
  <2>2. drains \in Nat /\ drains' = drains + 1 /\ UNCHANGED faults
    BY <1>1, <1>2 DEF RequestDrain, TypeOK
  <2>3. drains' \in Nat
    BY <2>2
  <2>4. TypeOK'
    BY <1>1, <2>1, <2>2, <2>3 DEF TypeOK
  <2> QED BY <1>1, <2>1, <2>4, RowKeeps
<1>3. CASE Age
  <2>1. /\ row' \in Row /\ row'.session = row.session /\ row'.state = row.state
        /\ row'.drain = row.drain
    BY <1>1, <1>3 DEF Age, Row
  <2>2. faults \in Nat /\ faults' \in {faults, faults + 1} /\ UNCHANGED drains
    BY <1>1, <1>3 DEF Age, Fault, TypeOK
  <2>3. faults' \in Nat
    BY <2>2
  <2>4. TypeOK'
    BY <1>1, <2>1, <2>2, <2>3 DEF TypeOK
  <2> QED BY <1>1, <2>1, <2>4, RowKeeps DEF IInv, SessionOK
<1> QED BY <1>2, <1>3

-----------------------------------------------------------------------------
(* Theorems *)

\* Nothing has registered.
LEMMA InitIInv == Init => IInv
<1> SUFFICES ASSUME Init PROVE IInv
  OBVIOUS
<1>1. /\ row = NoRow /\ proc = [p \in Processes |-> Absent] /\ beat = [p \in Processes |-> NoBeat]
      /\ task = [t \in Tasks |-> Waiting] /\ work = {} /\ drains = 0 /\ faults = 0
  BY DEF Init
<1>2. TypeOK
  <2>1. NoRow \in Row /\ Waiting \in [at : {"queue", "observing", "body", "done"}, by : 0 .. MaxProcesses]
    BY Bounds DEF NoRow, Row, States, Waiting
  <2>2. Absent \in Process
    BY DEF Absent, Process, Places
  <2> QED BY <1>1, <2>1, <2>2 DEF TypeOK
<1>3. \A p \in Processes : proc[p].pc = "absent" /\ ~proc[p].owed
  BY <1>1 DEF Absent
<1>4. row.session = 0 /\ row.state = "offline" /\ ~row.drain
  BY <1>1 DEF NoRow
<1> QED BY <1>2, <1>3, <1>4, Bounds DEF IInv, SessionOK, OwedOK, RetiredOK, At, Current, Polls

\* What the row says of its process stays true in every step.
LEMMA NextIInv == IInv /\ [Next]_vars => IInv'
<1> SUFFICES ASSUME IInv, [Next]_vars PROVE IInv'
  OBVIOUS
<1>1. CASE UNCHANGED vars
  BY <1>1 DEF vars, IInv, TypeOK, SessionOK, OwedOK, RetiredOK, At, Current, Polls
<1>2. CASE RequestDrain \/ Age
  BY <1>2, OutsideIInv
<1>3. ASSUME NEW p \in Processes,
             \/ Register(p) \/ Main(p) \/ Pulse(p) \/ UnhealthyPulse(p) \/ WriteBeat(p) \/ BeatFails(p)
             \/ Poll(p) \/ ObserveStart(p) \/ Finish(p) \/ Signal(p) \/ Crash(p) \/ ObserveFails(p)
      PROVE  IInv'
  BY <1>3, RegisterIInv, FirstPulseIInv, StopPollingIInv, StopIInv, RetireIInv, WriteBeatIInv,
     WorkIInv DEF Main
<1> QED BY <1>1, <1>2, <1>3 DEF Next

\* IInv holds in every state the processes of a runner reach.
THEOREM InductiveInvariant == Spec => []IInv
<1>1. Init => IInv
  BY InitIInv
<1>2. IInv /\ [Next]_vars => IInv'
  BY NextIInv
<1> QED BY <1>1, <1>2, PTL DEF Spec

\* A process that registered under a pending drain never polls, whoever retires, registers,
\* crashes or asks for a drain meanwhile.
THEOREM OwedDrainNeverPolled == Spec => []OwedDrainIsHeeded
<1>1. IInv => OwedDrainIsHeeded
  BY DEF IInv, OwedOK, OwedDrainIsHeeded
<1> QED BY <1>1, InductiveInvariant, PTL

\* The row shows capacity only for a process that has not retired, or by the one heartbeat of
\* it that was written after its retirement.
THEOREM AvailableOnlyRunning == Spec => []AvailableMeansRunning
<1>1. IInv => AvailableMeansRunning
  <2> SUFFICES ASSUME IInv, Available
               PROVE  ~At(row.session, "retired") \/ proc[row.session].late
    BY DEF AvailableMeansRunning
  <2>1. row.state # "offline"
    BY DEF Available
  <2>2. row.session \in Processes
    BY <2>1, Bounds DEF IInv, TypeOK, Row, SessionOK, Processes
  <2> QED BY <2>1, <2>2 DEF IInv, RetiredOK, Current
<1> QED BY <1>1, InductiveInvariant, PTL

\* No step but the retirement of the process that has the row takes a request for a drain away.
THEOREM DrainNeverDropped == Spec => DrainLeavesWithItsProcess
<1>1. ASSUME IInv, [Next]_vars, row.drain, ~row'.drain
      PROVE  proc'[row'.session].pc = "retired"
  <2>1. row \in Row /\ TypeOK /\ TypeOK'
    BY <1>1, NextIInv DEF IInv, TypeOK
  <2>2. CASE \E p \in Processes : Retire(p)
    <3>1. PICK p \in Processes : Retire(p)
      BY <2>2
    <3>2. Current(p) /\ row'.session = p
      BY <1>1, <2>1, <3>1 DEF Retire, Row, Current
    <3>3. proc'[p].pc = "retired"
      BY <2>1, <3>1 DEF Retire, To, TypeOK, Process
    <3> QED BY <3>2, <3>3
  <2>3. ASSUME NEW p \in Processes, NEW state \in States, Heartbeat(p, state)
        PROVE  FALSE
    BY <1>1, <2>1, <2>3, HeartbeatKeeps
  <2>4. ASSUME NEW p \in Processes, FirstPulse(p) \/ StopPolling(p) \/ WriteBeat(p)
        PROVE  FALSE
    BY <1>1, <2>1, <2>3, <2>4 DEF FirstPulse, StopPolling, WriteBeat, States, TypeOK
  <2>5. ASSUME NEW p \in Processes, Register(p) PROVE FALSE
    BY <1>1, <2>1, <2>5 DEF Register, Row
  <2>6. ~(RequestDrain \/ Age)
    BY <1>1, <2>1 DEF RequestDrain, Age, Row
  <2>7. ~UNCHANGED row
    BY <1>1
  <2>8. \E p \in Processes :
          \/ Register(p) \/ Main(p) \/ Pulse(p) \/ UnhealthyPulse(p) \/ WriteBeat(p) \/ BeatFails(p)
          \/ Poll(p) \/ ObserveStart(p) \/ Finish(p) \/ Signal(p) \/ Crash(p) \/ ObserveFails(p)
    BY <1>1, <2>6, <2>7 DEF Next, vars
  <2>9. PICK p \in Processes : FirstPulse(p) \/ StopPolling(p) \/ WriteBeat(p) \/ Register(p) \/ Retire(p)
    BY <2>7, <2>8 DEF Main, Shutdown, Pulse, UnhealthyPulse, BeatFails, Poll, ObserveStart, Finish,
                      Signal, Crash, ObserveFails
  <2> QED BY <2>2, <2>4, <2>5, <2>9
<1>2. IInv /\ [Next]_vars => [row.drain /\ ~row'.drain => proc'[row'.session].pc = "retired"]_vars
  BY <1>1
<1> QED BY <1>2, InductiveInvariant, PTL DEF Spec, DrainLeavesWithItsProcess

-----------------------------------------------------------------------------
(* Workspace: the inductive invariant.  An attempt that is alone finds the   *)
(* files as it left them; what several of them do to each other is bounded   *)
(* by who still answers for the lock, for a tree that is being removed, for  *)
(* a context that is not written yet, and for a directory that was made      *)
(* after the terminal record.                                                *)

Materializing == {"clear", "clearing", "mkdir", "lock", "inspect", "fetch", "point", "open",
                  "fill", "revalidate", "failed", "failing", "use", "record"}
Pcs == Materializing \cup Ended \cup Threads \cup {"absent", "begin", "remove", "removing"}

Directory == [present : BOOLEAN, pointer : BOOLEAN, context : Nat, whole : BOOLEAN]
Attempt == [stage : Stages, pc : Pcs, holds : BOOLEAN, alone : BOOLEAN, well : BOOLEAN,
            saw : {"nothing", "whole", "part"}]

FilesTypeOK ==
  /\ dir \in Directory /\ target \in {"none", "whole", "partial"}
  /\ temps \subseteq Attempts /\ lock \in Nat /\ stale \in BOOLEAN
  /\ attempt \in [Attempts -> Attempt]
  /\ server \in [stage : Stages \cup {"ended"}, waits : Attempts \cup {0}]
  /\ {inactive, three} \subseteq BOOLEAN /\ receipts \subseteq Stages /\ failures \in Nat

\* Where an attempt can be, by its stage and by whether it got the checkout.
PlaceOK(a) ==
  /\ attempt[a].pc \in {"begin", "clear", "clearing", "mkdir", "lock", "inspect", "fetch"}
       => ~attempt[a].holds
  /\ attempt[a].pc \in {"point", "open", "fill", "revalidate", "failing"} => attempt[a].holds
  /\ attempt[a].pc \in Materializing => attempt[a].stage # "terminal"
  /\ attempt[a].pc \in {"remove", "removing"} => attempt[a].stage = "terminal" /\ inactive
  /\ AtStep(a, "done") /\ attempt[a].stage = "terminal" => inactive
  /\ attempt[a].pc \in {"severed", "cutting", "outlived"} => ~attempt[a].well

\* The lock, a temporary copy and a tree under removal have somebody who works on them.
Locks(a) == attempt[a].pc \in {"inspect", "fetch"}
Removes(a) == attempt[a].pc \in {"clearing", "failing", "removing", "severed", "cutting", "outlived"}

DirectoryOK == ~dir.present => dir = NoDirectory
LockOK == lock # 0 => lock \in Attempts /\ Locks(lock)
TempsOK == \A a \in temps : AtStep(a, "fetch")
PartialOK == target = "partial" => \E a \in Attempts : Removes(a)

WaitsOK == server.waits # 0 =>
  attempt[server.waits].stage = server.stage /\ ~AtStep(server.waits, "absent")
AloneOK == \A a, b \in Attempts : attempt[a].alone /\ Live(a) /\ Live(b) => a = b
ThreeOK == ~three =>
  \A a, b, c \in Attempts : Live(a) /\ Live(b) /\ Live(c) => a = b \/ a = c \/ b = c

\* What an attempt that is alone finds where it is, even if it fails.
FoundOK(a) == attempt[a].alone =>
  /\ AtStep(a, "clearing") => target = "partial" /\ dir.present
  /\ AtStep(a, "mkdir") => ~dir.present
  /\ attempt[a].pc \in {"lock", "inspect", "fetch"} => dir = EmptyDirectory
  /\ AtStep(a, "fetch") => target = "none"
  /\ AtStep(a, "failed") /\ ~attempt[a].holds => ~dir.pointer
  /\ AtStep(a, "removing") => target = "partial"

\* What it finds, and what it has seen, if nothing has failed it.
WellPlaced(a) ==
  /\ AtStep(a, "point") => dir = EmptyDirectory /\ target = "whole"
  /\ AtStep(a, "open") => dir.present /\ dir.pointer /\ dir.context = 0 /\ target = "whole"
  /\ AtStep(a, "fill") => dir.pointer /\ dir.context = a /\ target = "whole"
  /\ AtStep(a, "revalidate") => dir.pointer /\ dir.context = a /\ dir.whole /\ target = "whole"
  /\ AtStep(a, "failed") => inactive /\ attempt[a].holds /\ target = "whole"
  /\ AtStep(a, "failing") => inactive /\ target = "partial"
  /\ AtStep(a, "use") => attempt[a].stage \in {"analyze", "verify"}
  /\ AtStep(a, "use") /\ attempt[a].stage = "analyze" =>
       dir.context # 0 /\ (NoCleanupCut => dir.whole)
  /\ AtStep(a, "use") /\ attempt[a].stage = "verify" => dir.pointer /\ target = "whole"
  /\ AtStep(a, "error") => inactive /\ attempt[a].stage # "terminal"
  /\ NoCleanupCut => attempt[a].saw # "part"
WellOK(a) == attempt[a].alone /\ attempt[a].well => WellPlaced(a)

\* A context beside a whole checkout is whole, or somebody still answers for it.
Torn == target = "whole" /\ dir.pointer /\ dir.context # 0 /\ ~dir.whole
AnswersForContext(a) == \/ attempt[a].holds /\ attempt[a].pc \in {"point", "open", "failed"}
                        \/ AtStep(a, "fill") /\ dir.context = a
ContextOK == NoCleanupCut /\ Torn => \E a \in Attempts : AnswersForContext(a)

\* While every attempt has been alone, a whole checkout has its pointer, or its owner.
Owns(a) == attempt[a].holds /\ attempt[a].pc \in {"point", "failed"}
Pointed(a) == target = "whole" => dir.pointer \/ Owns(a)
PointerOK == NoCleanupCut /\ OneAtATime /\ target = "whole" =>
  dir.pointer \/ \E a \in Attempts : Owns(a)

\* The terminal record is through; a directory that is made later is removed by its maker.
Over == \/ server.stage = "ended"
        \/ server.waits # 0 /\ server.stage = "terminal" /\ AtStep(server.waits, "done")
AnswersForDirectory(a) ==
  \/ attempt[a].pc \in {"lock", "inspect", "fetch"}
  \/ attempt[a].pc \in {"point", "open", "fill", "revalidate"} /\ target = "whole"
  \/ AtStep(a, "failed") /\ (attempt[a].holds => target = "whole")
  \/ AtStep(a, "failing") /\ target = "partial"
  \/ AtStep(a, "cutting")

OverOK == Over =>
  /\ inactive
  /\ ~three => \A a, b \in Attempts : Live(a) /\ Live(b) => a = b
  /\ NoCleanupCut /\ OneAtATime => target = "none" /\ NobodyWorks
  /\ ~three /\ NoCleanupCut /\ dir.present => \E a \in Attempts : AnswersForDirectory(a)

FilesInv ==
  /\ FilesTypeOK /\ DirectoryOK /\ LockOK /\ TempsOK /\ PartialOK
  /\ WaitsOK /\ AloneOK /\ ThreeOK
  /\ \A a \in Attempts : PlaceOK(a) /\ FoundOK(a) /\ WellOK(a)
  /\ ContextOK /\ PointerOK /\ OverOK

-----------------------------------------------------------------------------
(* One attempt moves *)

\* Nobody but attempt a changes, and a goes on from where it was.
Moves(a) ==
  /\ attempt' \in [Attempts -> Attempt]
  /\ \A b \in Attempts : b # a => attempt'[b] = attempt[b]
  /\ attempt'[a].stage = attempt[a].stage /\ attempt'[a].alone = attempt[a].alone
  /\ attempt'[a].well => attempt[a].well
  /\ attempt'[a].pc # "absent"

Keeps(a) == attempt'[a].holds = attempt[a].holds /\ attempt'[a].well = attempt[a].well
            /\ attempt'[a].saw = attempt[a].saw

LEMMA AttemptsAreNumbers == \A a \in Attempts : a \in Nat /\ a # 0
  BY WorkspaceAssumption DEF Attempts

LEMMA GoToMoves ==
  ASSUME FilesTypeOK, NEW a \in Attempts, NEW p \in Pcs, p # "absent", GoTo(a, p)
  PROVE  Moves(a) /\ Keeps(a) /\ attempt'[a].pc = p
<1>1. attempt[a] \in Attempt
  BY DEF FilesTypeOK
<1>2. [attempt[a] EXCEPT !.pc = p] \in Attempt
  BY <1>1 DEF Attempt
<1>3. attempt' = [attempt EXCEPT ![a] = [attempt[a] EXCEPT !.pc = p]]
  BY DEF GoTo
<1>4. attempt'[a] = [attempt[a] EXCEPT !.pc = p]
  BY <1>3 DEF FilesTypeOK
<1>5. attempt' \in [Attempts -> Attempt] /\ \A b \in Attempts : b # a => attempt'[b] = attempt[b]
  BY <1>2, <1>3 DEF FilesTypeOK
<1> QED
  BY <1>1, <1>4, <1>5 DEF Moves, Keeps, Attempt

LEMMA SpoilMoves ==
  ASSUME FilesTypeOK, NEW a \in Attempts, NEW p \in Pcs, p # "absent", Spoil(a, p)
  PROVE  /\ Moves(a) /\ attempt'[a].pc = p /\ ~attempt'[a].well
         /\ attempt'[a].holds = attempt[a].holds /\ attempt'[a].saw = attempt[a].saw
<1>1. attempt[a] \in Attempt
  BY DEF FilesTypeOK
<1> DEFINE new == [attempt[a] EXCEPT !.pc = p, !.well = FALSE]
<1>2. new \in Attempt
  BY <1>1 DEF Attempt
<1>3. attempt' = [attempt EXCEPT ![a] = new]
  BY <1>1 DEF Spoil, FilesTypeOK, Attempt
<1>4. attempt'[a] = new
  BY <1>3 DEF FilesTypeOK
<1>5. attempt' \in [Attempts -> Attempt] /\ \A b \in Attempts : b # a => attempt'[b] = attempt[b]
  BY <1>2, <1>3 DEF FilesTypeOK
<1> QED
  BY <1>1, <1>4, <1>5 DEF Moves, Attempt

LEMMA ObtainMoves ==
  ASSUME FilesTypeOK, NEW a \in Attempts, Obtain(a)
  PROVE  /\ Moves(a) /\ attempt'[a].pc = "point" /\ attempt'[a].holds
         /\ attempt'[a].well = attempt[a].well /\ attempt'[a].saw = attempt[a].saw
<1>1. attempt[a] \in Attempt
  BY DEF FilesTypeOK
<1> DEFINE new == [attempt[a] EXCEPT !.pc = "point", !.holds = TRUE]
<1>2. new \in Attempt
  BY <1>1 DEF Attempt, Pcs, Materializing
<1>3. attempt' = [attempt EXCEPT ![a] = new]
  BY <1>1 DEF Obtain, FilesTypeOK, Attempt
<1>4. attempt'[a] = new
  BY <1>3 DEF FilesTypeOK
<1>5. attempt' \in [Attempts -> Attempt] /\ \A b \in Attempts : b # a => attempt'[b] = attempt[b]
  BY <1>2, <1>3 DEF FilesTypeOK
<1> QED
  BY <1>1, <1>4, <1>5 DEF Moves, Attempt

LEMMA UseMoves ==
  ASSUME FilesTypeOK, NEW a \in Attempts, NEW p \in Pcs, p # "absent",
         NEW v \in {"nothing", "whole", "part"},
         attempt' = [attempt EXCEPT ![a].pc = p, ![a].saw = v]
  PROVE  /\ Moves(a) /\ attempt'[a].pc = p /\ attempt'[a].saw = v
         /\ attempt'[a].well = attempt[a].well /\ attempt'[a].holds = attempt[a].holds
<1>1. attempt[a] \in Attempt
  BY DEF FilesTypeOK
<1> DEFINE new == [attempt[a] EXCEPT !.pc = p, !.saw = v]
<1>2. new \in Attempt
  BY <1>1 DEF Attempt
<1>3. attempt' = [attempt EXCEPT ![a] = new]
  BY <1>1 DEF FilesTypeOK, Attempt
<1>4. attempt'[a] = new
  BY <1>3 DEF FilesTypeOK
<1>5. attempt' \in [Attempts -> Attempt] /\ \A b \in Attempts : b # a => attempt'[b] = attempt[b]
  BY <1>2, <1>3 DEF FilesTypeOK
<1> QED
  BY <1>1, <1>4, <1>5 DEF Moves, Attempt

LEMMA StayMoves ==
  ASSUME FilesTypeOK, NEW a \in Attempts, Live(a), attempt' = attempt
  PROVE  Moves(a) /\ Keeps(a)
  BY DEF Moves, Keeps, FilesTypeOK, Live

\* A turn of attempt a: what it may do to the files, and how it leaves its own place.
Turn(a) ==
  /\ Live(a) /\ Moves(a) /\ FilesTypeOK' /\ DirectoryOK'
  /\ server' = server /\ three' = three /\ (inactive => inactive')
  /\ PlaceOK(a)' /\ FoundOK(a)' /\ WellOK(a)'
  /\ lock' # 0 => (lock' = a /\ Locks(a)') \/ (lock' = lock /\ ~Locks(a))
                   \/ (lock' = lock /\ Locks(a)')
  /\ temps' \subseteq temps \cup {a} /\ (a \in temps' => AtStep(a, "fetch")')
  /\ target' = "partial" => Removes(a)' \/ (target = "partial" /\ ~Removes(a))
  /\ NoCleanupCut' /\ Torn' => \/ AnswersForContext(a)'
                               \/ /\ Torn /\ dir'.context = dir.context
                                  /\ ~AnswersForContext(a)
  /\ attempt[a].alone /\ NoCleanupCut' /\ Pointed(a) => Pointed(a)'
  /\ AtStep(a, "done")' /\ attempt[a].stage = "terminal" =>
       /\ ~dir'.present
       /\ attempt[a].alone /\ NoCleanupCut' /\ Pointed(a) => target' = "none"
  /\ inactive /\ NoCleanupCut' /\ (dir.present => AnswersForDirectory(a))
       => (dir'.present => AnswersForDirectory(a)')

LEMMA CutStays == ASSUME NEW a \in Attempts, Live(a), Moves(a) PROVE NoCleanupCut' => NoCleanupCut
  BY DEF NoCleanupCut, Moves, AtStep, Live, Ended

\* Attempts that have always been alone were so before, and whoever is live is alone.
LEMMA AloneStays ==
  ASSUME FilesTypeOK, NEW a \in Attempts, Live(a), Moves(a), OneAtATime'
  PROVE  OneAtATime /\ attempt[a].alone
<1>1. \A b \in Started : b \in Started' /\ attempt'[b].alone = attempt[b].alone
  BY DEF Started, Moves
<1>2. OneAtATime
  BY <1>1 DEF OneAtATime
<1>3. a \in Started
  BY DEF Started, Live
<1> QED
  BY <1>2, <1>3 DEF OneAtATime

LEMMA OthersKeepTheirPlace ==
  ASSUME FilesInv, NEW a \in Attempts, Turn(a), NEW b \in Attempts, b # a
  PROVE  PlaceOK(b)' /\ FoundOK(b)' /\ WellOK(b)'
<1>1. attempt'[b] = attempt[b] /\ (inactive => inactive')
  BY DEF Turn, Moves
<1>2. PlaceOK(b)'
  BY <1>1 DEF FilesInv, PlaceOK, AtStep
<1>3. attempt[b].alone => ~Live(b)
  BY DEF FilesInv, AloneOK, Turn
<1>4. NoCleanupCut' => NoCleanupCut
  BY CutStays DEF Turn
<1>5. FoundOK(b)'
  BY <1>1, <1>3 DEF FoundOK, Live, AtStep, Ended
<1>6. WellOK(b)
  BY DEF FilesInv
<1>7. WellOK(b)'
  BY <1>1, <1>3, <1>4, <1>6 DEF WellOK, WellPlaced, Live, AtStep, Ended
<1> QED
  BY <1>2, <1>5, <1>7

LEMMA TurnKeepsOwners ==
  ASSUME FilesInv, NEW a \in Attempts, Turn(a)
  PROVE  LockOK' /\ TempsOK' /\ PartialOK' /\ WaitsOK' /\ AloneOK' /\ ThreeOK'
<1>1. \A b \in Attempts : b # a => attempt'[b] = attempt[b]
  BY DEF Turn, Moves
<1>2. LockOK'
  BY <1>1 DEF FilesInv, LockOK, Turn, Locks
<1>3. TempsOK'
  BY <1>1 DEF FilesInv, FilesTypeOK, TempsOK, Turn, AtStep
<1>4. PartialOK'
  <2>1. CASE Removes(a)'
    BY <2>1 DEF PartialOK
  <2>2. CASE target = "partial" /\ ~Removes(a)
    <3>1. PICK b \in Attempts : Removes(b)
      BY <2>2 DEF FilesInv, PartialOK
    <3>2. Removes(b)'
      BY <1>1, <2>2, <3>1 DEF Removes
    <3> QED
      BY <3>2 DEF PartialOK
  <2> QED
    BY <2>1, <2>2 DEF Turn, PartialOK
<1>5. WaitsOK'
  <2>1. server.waits \in Attempts \cup {0} /\ server' = server
    BY DEF FilesInv, FilesTypeOK, Turn
  <2>2. attempt'[a].stage = attempt[a].stage /\ attempt'[a].pc # "absent"
    BY DEF Turn, Moves
  <2> QED
    BY <1>1, <2>1, <2>2 DEF FilesInv, WaitsOK, AtStep
<1>6. \A b \in Attempts : Live(b)' => Live(b)
  BY <1>1 DEF Turn, Live
<1>7. \A b \in Attempts : attempt'[b].alone = attempt[b].alone
  BY <1>1 DEF Turn, Moves
<1>8. AloneOK'
  BY <1>6, <1>7 DEF FilesInv, AloneOK
<1>9. ThreeOK'
  BY <1>6 DEF FilesInv, ThreeOK, Turn
<1> QED
  BY <1>2, <1>3, <1>4, <1>5, <1>8, <1>9

LEMMA TurnKeepsContext ==
  ASSUME FilesInv, NEW a \in Attempts, Turn(a)
  PROVE  ContextOK'
<1> SUFFICES ASSUME NoCleanupCut', Torn' PROVE \E b \in Attempts : AnswersForContext(b)'
  BY DEF ContextOK
<1>1. NoCleanupCut
  BY CutStays DEF Turn
<1>2. CASE Torn /\ dir'.context = dir.context /\ ~AnswersForContext(a)
  <2>1. PICK b \in Attempts : AnswersForContext(b)
    BY <1>1, <1>2 DEF FilesInv, ContextOK
  <2>2. attempt'[b] = attempt[b]
    BY <1>2, <2>1 DEF Turn, Moves
  <2>3. AnswersForContext(b)'
    BY <1>2, <2>1, <2>2 DEF AnswersForContext, AtStep
  <2> QED
    BY <2>3
<1> QED
  BY <1>2 DEF Turn

LEMMA TurnKeepsPointer ==
  ASSUME FilesInv, NEW a \in Attempts, Turn(a)
  PROVE  PointerOK'
<1> SUFFICES ASSUME NoCleanupCut', OneAtATime', target' = "whole"
             PROVE  dir'.pointer \/ \E b \in Attempts : Owns(b)'
  BY DEF PointerOK
<1>1. NoCleanupCut
  BY CutStays DEF Turn
<1>2. OneAtATime /\ attempt[a].alone
  BY AloneStays DEF FilesInv, Turn
<1>3. \A b \in Attempts : Owns(b) => b = a
  BY <1>2 DEF FilesInv, AloneOK, Turn, Owns, Live, Ended
<1>4. Pointed(a)
  BY <1>1, <1>2, <1>3 DEF FilesInv, PointerOK, Pointed
<1>5. Pointed(a)'
  BY <1>2, <1>4 DEF Turn
<1> QED
  BY <1>5 DEF Pointed

LEMMA TurnKeepsOver ==
  ASSUME FilesInv, NEW a \in Attempts, Turn(a)
  PROVE  OverOK'
<1> SUFFICES ASSUME Over' PROVE OverOK'
  BY DEF OverOK
<1>1. \A b \in Attempts : b # a => attempt'[b] = attempt[b]
  BY DEF Turn, Moves
<1>2. Live(a) /\ server' = server /\ three' = three /\ (inactive => inactive')
  BY DEF Turn
<1>3. \A b \in Attempts : Live(b)' => Live(b)
  BY <1>1, <1>2 DEF Live
<1>4. NoCleanupCut' => NoCleanupCut
  BY CutStays DEF Turn
<1>5. server.waits \in Attempts \cup {0} /\ WaitsOK
  BY DEF FilesInv, FilesTypeOK
<1>6. CASE Over
  <2>1. OverOK
    BY DEF FilesInv
  <2>2. inactive'
    BY <1>2, <1>6, <2>1 DEF OverOK
  <2>3. ~three' => \A b, c \in Attempts : Live(b)' /\ Live(c)' => b = c
    BY <1>2, <1>3, <1>6, <2>1 DEF OverOK
  <2>4. NoCleanupCut' /\ OneAtATime' => FALSE
    BY <1>2, <1>4, <1>6, <2>1, AloneStays DEF OverOK, NobodyWorks, FilesInv, Turn
  <2>5. ASSUME ~three', NoCleanupCut', dir'.present
        PROVE  \E b \in Attempts : AnswersForDirectory(b)'
    <3>1. \A b \in Attempts : AnswersForDirectory(b) => b = a
      BY <1>2, <1>6, <2>1, <2>5 DEF OverOK, AnswersForDirectory, Live, Ended, AtStep
    <3>2. dir.present => AnswersForDirectory(a)
      BY <1>2, <1>4, <1>6, <2>1, <2>5, <3>1 DEF OverOK
    <3>3. inactive
      BY <1>6, <2>1 DEF OverOK
    <3>4. AnswersForDirectory(a)'
      BY <2>5, <3>2, <3>3 DEF Turn
    <3> QED
      BY <3>4
  <2> QED
    BY <2>2, <2>3, <2>4, <2>5 DEF OverOK
<1>7. CASE ~Over
  <2>1. server.waits = a /\ AtStep(a, "done")' /\ attempt[a].stage = "terminal"
    BY <1>1, <1>2, <1>5, <1>7 DEF Over, AtStep, WaitsOK
  <2>2. /\ inactive' /\ ~dir'.present
        /\ attempt[a].alone /\ NoCleanupCut' /\ Pointed(a) => target' = "none"
    <3>1. PlaceOK(a)' /\ attempt'[a].stage = attempt[a].stage
      BY DEF Turn, Moves
    <3> QED
      BY <2>1, <3>1 DEF Turn, PlaceOK, AtStep
  <2>3. ~Live(a)'
    BY <2>1 DEF Live, AtStep, Ended
  <2>4. ~three' => \A b, c \in Attempts : Live(b)' /\ Live(c)' => b = c
    BY <1>2, <1>3, <2>3 DEF FilesInv, ThreeOK
  <2>5. ASSUME NoCleanupCut', OneAtATime' PROVE target' = "none" /\ NobodyWorks'
    <3>1. OneAtATime /\ attempt[a].alone
      BY <2>5, AloneStays DEF FilesInv, Turn
    <3>2. \A b \in Attempts : Live(b) => b = a
      BY <1>2, <3>1 DEF FilesInv, AloneOK
    <3>3. NobodyWorks'
      BY <1>3, <2>3, <3>2 DEF NobodyWorks
    <3>4. \A b \in Attempts : Owns(b) => b = a
      BY <3>2 DEF Owns, Live, Ended
    <3>5. Pointed(a)
      BY <1>4, <2>5, <3>1, <3>4 DEF FilesInv, PointerOK, Pointed
    <3> QED
      BY <2>2, <2>5, <3>1, <3>3, <3>5
  <2> QED
    BY <2>2, <2>4, <2>5 DEF OverOK
<1> QED
  BY <1>6, <1>7

LEMMA TurnKeepsInv ==
  ASSUME FilesInv, NEW a \in Attempts, Turn(a)
  PROVE  FilesInv'
<1>1. \A b \in Attempts : b # a => PlaceOK(b)' /\ FoundOK(b)' /\ WellOK(b)'
  BY OthersKeepTheirPlace
<1>2. FilesTypeOK' /\ DirectoryOK' /\ PlaceOK(a)' /\ FoundOK(a)' /\ WellOK(a)'
  BY DEF Turn
<1>3. \A b \in Attempts : PlaceOK(b)' /\ FoundOK(b)' /\ WellOK(b)'
  BY <1>1, <1>2
<1>4. ContextOK' /\ PointerOK' /\ OverOK'
  BY TurnKeepsContext, TurnKeepsPointer, TurnKeepsOver
<1> QED
  BY <1>2, <1>3, <1>4, TurnKeepsOwners DEF FilesInv

-----------------------------------------------------------------------------
(* Every step of an attempt is a turn *)

LEMMA Sole ==
  ASSUME FilesInv, NEW a \in Attempts, Live(a), attempt[a].alone
  PROVE  /\ target = "partial" => Removes(a)
         /\ lock # 0 => Locks(a)
         /\ NoCleanupCut /\ Torn => AnswersForContext(a)
<1>1. \A b \in Attempts : Live(b) => b = a
  BY DEF FilesInv, AloneOK
<1>2. \A b \in Attempts : Removes(b) \/ Locks(b) \/ AnswersForContext(b) => Live(b)
  BY DEF Removes, Locks, AnswersForContext, AtStep, Live, Ended
<1> QED
  BY <1>1, <1>2 DEF FilesInv, PartialOK, LockOK, ContextOK

LEMMA DirectoryValues ==
  /\ NoDirectory \in Directory /\ EmptyDirectory \in Directory
  /\ ~NoDirectory.present /\ ~NoDirectory.pointer /\ NoDirectory.context = 0
  /\ EmptyDirectory.present /\ ~EmptyDirectory.pointer /\ EmptyDirectory.context = 0
  BY DEF NoDirectory, EmptyDirectory, Directory

LEMMA Here ==
  ASSUME FilesInv, NEW a \in Attempts
  PROVE  /\ FilesTypeOK /\ DirectoryOK /\ PlaceOK(a) /\ FoundOK(a) /\ WellOK(a)
         /\ a \in Nat /\ a # 0 /\ attempt[a] \in Attempt /\ dir \in Directory
<1>1. attempt[a] \in Attempt /\ dir \in Directory
  BY DEF FilesInv, FilesTypeOK
<1> QED
  BY <1>1, AttemptsAreNumbers DEF FilesInv

LEMMA ClearIsTurn ==
  ASSUME FilesInv, NEW a \in Attempts, Clear(a)
  PROVE  Turn(a)
<1>1. AtStep(a, "clear") /\ Live(a)
  BY DEF Clear, Locks, Live, AtStep, Ended
<1>2. /\ Moves(a) /\ Keeps(a)
      /\ \/ ~dir.present /\ AtStep(a, "mkdir")' /\ UNCHANGED <<dir, target>>
         \/ /\ dir.present /\ target # "none" /\ target' = "partial"
            /\ AtStep(a, "clearing")' /\ UNCHANGED dir
         \/ /\ dir.present /\ ~CheckoutReady /\ dir' = NoDirectory
            /\ AtStep(a, "mkdir")' /\ UNCHANGED target
      /\ UNCHANGED <<temps, lock, stale, server, inactive, receipts, three, failures>>
  BY <1>1, Here, GoToMoves, StayMoves DEF Clear, files, AtStep, Pcs, Materializing,
     CheckoutReady, Exact, Unlock, Drop, Failure, Ended
<1>3. FilesTypeOK' /\ DirectoryOK'
  BY <1>2, Here, DirectoryValues DEF FilesTypeOK, DirectoryOK, Moves, Directory
<1>4. PlaceOK(a)'
  BY <1>1, <1>2, Here DEF PlaceOK, Moves, Keeps, AtStep, Locks, Materializing
<1>5. FoundOK(a)'
  BY <1>1, <1>2, Here, Sole, DirectoryValues DEF FoundOK, Moves, Keeps, AtStep, Locks,
     Removes, DirectoryOK, PlaceOK
<1>6. WellOK(a)'
  <2> SUFFICES ASSUME attempt[a].alone, attempt[a].well PROVE WellPlaced(a)'
    BY <1>2 DEF WellOK, Moves, Keeps
  <2>1. WellPlaced(a) /\ FoundOK(a) /\ PlaceOK(a) /\ (NoCleanupCut' => NoCleanupCut)
    BY <1>1, <1>2, Here, CutStays DEF WellOK
  <2>2. (target = "partial" => Removes(a)) /\ (lock # 0 => Locks(a))
    BY <1>1, Sole
  <2> QED
    BY <1>1, <1>2, <2>1, <2>2, Here, DirectoryValues DEF WellPlaced, FoundOK, PlaceOK,
       Moves, Keeps, AtStep, Locks, Removes, Directory, Materializing, FilesTypeOK
<1>7. /\ lock' # 0 => (lock' = a /\ Locks(a)') \/ (lock' = lock /\ ~Locks(a))
                        \/ (lock' = lock /\ Locks(a)')
      /\ temps' \subseteq temps \cup {a} /\ (a \in temps' => AtStep(a, "fetch")')
      /\ target' = "partial" => Removes(a)' \/ (target = "partial" /\ ~Removes(a))
  BY <1>1, <1>2 DEF Removes, Locks, AtStep, FilesInv, TempsOK
<1>8. NoCleanupCut' /\ Torn' => \/ AnswersForContext(a)'
                                  \/ /\ Torn /\ dir'.context = dir.context
                                     /\ ~AnswersForContext(a)
  BY <1>1, <1>2, Here, DirectoryValues DEF Torn, AnswersForContext, PlaceOK, Keeps, AtStep,
     Locks, Directory
<1>9. attempt[a].alone /\ NoCleanupCut' /\ Pointed(a) => Pointed(a)'
  BY <1>1, <1>2, Here, Sole, DirectoryValues DEF Pointed, Owns, PlaceOK, FoundOK, Keeps,
     AtStep, Locks, Removes, Directory, CheckoutReady, DirectoryOK
<1>10. inactive /\ NoCleanupCut' /\ (dir.present => AnswersForDirectory(a))
         => (dir'.present => AnswersForDirectory(a)')
  BY <1>1, <1>2, Here, DirectoryValues DEF AnswersForDirectory, PlaceOK, Keeps, AtStep,
     Locks, Directory
<1> QED
  BY <1>1, <1>2, <1>3, <1>4, <1>5, <1>6, <1>7, <1>8, <1>9, <1>10 DEF Turn, AtStep

LEMMA ClearingIsTurn ==
  ASSUME FilesInv, NEW a \in Attempts, Clearing(a)
  PROVE  Turn(a)
<1>1. AtStep(a, "clearing") /\ Live(a)
  BY DEF Clearing, Locks, Live, AtStep, Ended
<1>2. /\ Moves(a) /\ Keeps(a) /\ target' = "none"
      /\ \/ (target = "none" \/ ~dir.present) /\ AtStep(a, "error")' /\ UNCHANGED dir
         \/ dir' = NoDirectory /\ AtStep(a, "mkdir")'
      /\ UNCHANGED <<temps, lock, stale, server, inactive, receipts, three, failures>>
  BY <1>1, Here, GoToMoves, StayMoves DEF Clearing, files, AtStep, Pcs, Materializing,
     CheckoutReady, Exact, Unlock, Drop, Failure, Ended
<1>3. FilesTypeOK' /\ DirectoryOK'
  BY <1>2, Here, DirectoryValues DEF FilesTypeOK, DirectoryOK, Moves, Directory
<1>4. PlaceOK(a)'
  BY <1>1, <1>2, Here DEF PlaceOK, Moves, Keeps, AtStep, Locks, Materializing
<1>5. FoundOK(a)'
  BY <1>1, <1>2, Here, Sole, DirectoryValues DEF FoundOK, Moves, Keeps, AtStep, Locks,
     Removes, DirectoryOK, PlaceOK
<1>6. WellOK(a)'
  <2> SUFFICES ASSUME attempt[a].alone, attempt[a].well PROVE WellPlaced(a)'
    BY <1>2 DEF WellOK, Moves, Keeps
  <2>1. WellPlaced(a) /\ FoundOK(a) /\ PlaceOK(a) /\ (NoCleanupCut' => NoCleanupCut)
    BY <1>1, <1>2, Here, CutStays DEF WellOK
  <2>2. (target = "partial" => Removes(a)) /\ (lock # 0 => Locks(a))
    BY <1>1, Sole
  <2> QED
    BY <1>1, <1>2, <2>1, <2>2, Here, DirectoryValues DEF WellPlaced, FoundOK, PlaceOK,
       Moves, Keeps, AtStep, Locks, Removes, Directory, Materializing, FilesTypeOK
<1>7. /\ lock' # 0 => (lock' = a /\ Locks(a)') \/ (lock' = lock /\ ~Locks(a))
                        \/ (lock' = lock /\ Locks(a)')
      /\ temps' \subseteq temps \cup {a} /\ (a \in temps' => AtStep(a, "fetch")')
      /\ target' = "partial" => Removes(a)' \/ (target = "partial" /\ ~Removes(a))
  BY <1>1, <1>2 DEF Removes, Locks, AtStep, FilesInv, TempsOK
<1>8. NoCleanupCut' /\ Torn' => \/ AnswersForContext(a)'
                                  \/ /\ Torn /\ dir'.context = dir.context
                                     /\ ~AnswersForContext(a)
  BY <1>1, <1>2, Here, DirectoryValues DEF Torn, AnswersForContext, PlaceOK, Keeps, AtStep,
     Locks, Directory
<1>9. attempt[a].alone /\ NoCleanupCut' /\ Pointed(a) => Pointed(a)'
  BY <1>1, <1>2, Here, Sole, DirectoryValues DEF Pointed, Owns, PlaceOK, FoundOK, Keeps,
     AtStep, Locks, Removes, Directory, CheckoutReady, DirectoryOK
<1>10. inactive /\ NoCleanupCut' /\ (dir.present => AnswersForDirectory(a))
         => (dir'.present => AnswersForDirectory(a)')
  BY <1>1, <1>2, Here, DirectoryValues DEF AnswersForDirectory, PlaceOK, Keeps, AtStep,
     Locks, Directory
<1> QED
  BY <1>1, <1>2, <1>3, <1>4, <1>5, <1>6, <1>7, <1>8, <1>9, <1>10 DEF Turn, AtStep

LEMMA MakeDirectoryIsTurn ==
  ASSUME FilesInv, NEW a \in Attempts, MakeDirectory(a)
  PROVE  Turn(a)
<1>1. AtStep(a, "mkdir") /\ Live(a)
  BY DEF MakeDirectory, Locks, Live, AtStep, Ended
<1>2. /\ Moves(a) /\ Keeps(a)
      /\ \/ dir.present /\ AtStep(a, "error")' /\ UNCHANGED dir
         \/ ~dir.present /\ dir' = EmptyDirectory /\ AtStep(a, "lock")'
      /\ UNCHANGED <<target, temps, lock, stale, server, inactive, receipts, three, failures>>
  BY <1>1, Here, GoToMoves, StayMoves DEF MakeDirectory, files, AtStep, Pcs, Materializing,
     CheckoutReady, Exact, Unlock, Drop, Failure, Ended
<1>3. FilesTypeOK' /\ DirectoryOK'
  BY <1>2, Here, DirectoryValues DEF FilesTypeOK, DirectoryOK, Moves, Directory
<1>4. PlaceOK(a)'
  BY <1>1, <1>2, Here DEF PlaceOK, Moves, Keeps, AtStep, Locks, Materializing
<1>5. FoundOK(a)'
  BY <1>1, <1>2, Here, Sole, DirectoryValues DEF FoundOK, Moves, Keeps, AtStep, Locks,
     Removes, DirectoryOK, PlaceOK
<1>6. WellOK(a)'
  <2> SUFFICES ASSUME attempt[a].alone, attempt[a].well PROVE WellPlaced(a)'
    BY <1>2 DEF WellOK, Moves, Keeps
  <2>1. WellPlaced(a) /\ FoundOK(a) /\ PlaceOK(a) /\ (NoCleanupCut' => NoCleanupCut)
    BY <1>1, <1>2, Here, CutStays DEF WellOK
  <2>2. (target = "partial" => Removes(a)) /\ (lock # 0 => Locks(a))
    BY <1>1, Sole
  <2> QED
    BY <1>1, <1>2, <2>1, <2>2, Here, DirectoryValues DEF WellPlaced, FoundOK, PlaceOK,
       Moves, Keeps, AtStep, Locks, Removes, Directory, Materializing, FilesTypeOK
<1>7. /\ lock' # 0 => (lock' = a /\ Locks(a)') \/ (lock' = lock /\ ~Locks(a))
                        \/ (lock' = lock /\ Locks(a)')
      /\ temps' \subseteq temps \cup {a} /\ (a \in temps' => AtStep(a, "fetch")')
      /\ target' = "partial" => Removes(a)' \/ (target = "partial" /\ ~Removes(a))
  BY <1>1, <1>2 DEF Removes, Locks, AtStep, FilesInv, TempsOK
<1>8. NoCleanupCut' /\ Torn' => \/ AnswersForContext(a)'
                                  \/ /\ Torn /\ dir'.context = dir.context
                                     /\ ~AnswersForContext(a)
  BY <1>1, <1>2, Here, DirectoryValues DEF Torn, AnswersForContext, PlaceOK, Keeps, AtStep,
     Locks, Directory
<1>9. attempt[a].alone /\ NoCleanupCut' /\ Pointed(a) => Pointed(a)'
  BY <1>1, <1>2, Here, Sole, DirectoryValues DEF Pointed, Owns, PlaceOK, FoundOK, Keeps,
     AtStep, Locks, Removes, Directory, CheckoutReady, DirectoryOK
<1>10. inactive /\ NoCleanupCut' /\ (dir.present => AnswersForDirectory(a))
         => (dir'.present => AnswersForDirectory(a)')
  BY <1>1, <1>2, Here, DirectoryValues DEF AnswersForDirectory, PlaceOK, Keeps, AtStep,
     Locks, Directory
<1> QED
  BY <1>1, <1>2, <1>3, <1>4, <1>5, <1>6, <1>7, <1>8, <1>9, <1>10 DEF Turn, AtStep

LEMMA AcquireLockIsTurn ==
  ASSUME FilesInv, NEW a \in Attempts, AcquireLock(a)
  PROVE  Turn(a)
<1>1. AtStep(a, "lock") /\ Live(a)
  BY DEF AcquireLock, Locks, Live, AtStep, Ended
<1>2. /\ Moves(a) /\ Keeps(a)
      /\ \/ lock' = a /\ stale' = FALSE /\ AtStep(a, "inspect")'
         \/ lock' = 0 /\ stale' = FALSE /\ AtStep(a, "lock")'
         \/ lock # 0 /\ AtStep(a, "failed")' /\ UNCHANGED <<lock, stale>>
      /\ UNCHANGED <<dir, target, temps, server, inactive, receipts, three, failures>>
  BY <1>1, Here, GoToMoves, StayMoves DEF AcquireLock, files, AtStep, Pcs, Materializing,
     CheckoutReady, Exact, Unlock, Drop, Failure, Ended
<1>3. FilesTypeOK' /\ DirectoryOK'
  BY <1>2, Here, DirectoryValues DEF FilesTypeOK, DirectoryOK, Moves, Directory
<1>4. PlaceOK(a)'
  BY <1>1, <1>2, Here DEF PlaceOK, Moves, Keeps, AtStep, Locks, Materializing
<1>5. FoundOK(a)'
  BY <1>1, <1>2, Here, Sole, DirectoryValues DEF FoundOK, Moves, Keeps, AtStep, Locks,
     Removes, DirectoryOK, PlaceOK
<1>6. WellOK(a)'
  <2> SUFFICES ASSUME attempt[a].alone, attempt[a].well PROVE WellPlaced(a)'
    BY <1>2 DEF WellOK, Moves, Keeps
  <2>1. WellPlaced(a) /\ FoundOK(a) /\ PlaceOK(a) /\ (NoCleanupCut' => NoCleanupCut)
    BY <1>1, <1>2, Here, CutStays DEF WellOK
  <2>2. (target = "partial" => Removes(a)) /\ (lock # 0 => Locks(a))
    BY <1>1, Sole
  <2> QED
    BY <1>1, <1>2, <2>1, <2>2, Here, DirectoryValues DEF WellPlaced, FoundOK, PlaceOK,
       Moves, Keeps, AtStep, Locks, Removes, Directory, Materializing, FilesTypeOK
<1>7. /\ lock' # 0 => (lock' = a /\ Locks(a)') \/ (lock' = lock /\ ~Locks(a))
                        \/ (lock' = lock /\ Locks(a)')
      /\ temps' \subseteq temps \cup {a} /\ (a \in temps' => AtStep(a, "fetch")')
      /\ target' = "partial" => Removes(a)' \/ (target = "partial" /\ ~Removes(a))
  BY <1>1, <1>2 DEF Removes, Locks, AtStep, FilesInv, TempsOK
<1>8. NoCleanupCut' /\ Torn' => \/ AnswersForContext(a)'
                                  \/ /\ Torn /\ dir'.context = dir.context
                                     /\ ~AnswersForContext(a)
  BY <1>1, <1>2, Here, DirectoryValues DEF Torn, AnswersForContext, PlaceOK, Keeps, AtStep,
     Locks, Directory
<1>9. attempt[a].alone /\ NoCleanupCut' /\ Pointed(a) => Pointed(a)'
  BY <1>1, <1>2, Here, Sole, DirectoryValues DEF Pointed, Owns, PlaceOK, FoundOK, Keeps,
     AtStep, Locks, Removes, Directory, CheckoutReady, DirectoryOK
<1>10. inactive /\ NoCleanupCut' /\ (dir.present => AnswersForDirectory(a))
         => (dir'.present => AnswersForDirectory(a)')
  BY <1>1, <1>2, Here, DirectoryValues DEF AnswersForDirectory, PlaceOK, Keeps, AtStep,
     Locks, Directory
<1> QED
  BY <1>1, <1>2, <1>3, <1>4, <1>5, <1>6, <1>7, <1>8, <1>9, <1>10 DEF Turn, AtStep

LEMMA InspectIsTurn ==
  ASSUME FilesInv, NEW a \in Attempts, Inspect(a)
  PROVE  Turn(a)
<1>1. AtStep(a, "inspect") /\ Live(a)
  BY DEF Inspect, Locks, Live, AtStep, Ended
<1>2. /\ Moves(a) /\ attempt'[a].well = attempt[a].well /\ attempt'[a].saw = attempt[a].saw
      /\ \/ /\ target = "whole" /\ lock' = 0 /\ stale' = FALSE /\ UNCHANGED <<target, temps>>
            /\ AtStep(a, "point")' /\ attempt'[a].holds
         \/ /\ target' = "none" /\ temps' = temps \cup {a} /\ UNCHANGED <<lock, stale>>
            /\ AtStep(a, "fetch")' /\ attempt'[a].holds = attempt[a].holds
      /\ UNCHANGED <<dir, server, inactive, receipts, three, failures>>
  BY <1>1, Here, GoToMoves, ObtainMoves DEF Inspect, files, AtStep, Pcs, Materializing,
     CheckoutReady, Exact, Unlock, Drop, Failure, Ended, Keeps
<1>3. FilesTypeOK' /\ DirectoryOK'
  BY <1>2, Here, DirectoryValues DEF FilesTypeOK, DirectoryOK, Moves, Directory
<1>4. PlaceOK(a)'
  BY <1>1, <1>2, Here DEF PlaceOK, Moves, Keeps, AtStep, Locks, Materializing
<1>5. FoundOK(a)'
  BY <1>1, <1>2, Here, Sole, DirectoryValues DEF FoundOK, Moves, Keeps, AtStep, Locks,
     Removes, DirectoryOK, PlaceOK
<1>6. WellOK(a)'
  <2> SUFFICES ASSUME attempt[a].alone, attempt[a].well PROVE WellPlaced(a)'
    BY <1>2 DEF WellOK, Moves, Keeps
  <2>1. WellPlaced(a) /\ FoundOK(a) /\ PlaceOK(a) /\ (NoCleanupCut' => NoCleanupCut)
    BY <1>1, <1>2, Here, CutStays DEF WellOK
  <2>2. (target = "partial" => Removes(a)) /\ (lock # 0 => Locks(a))
    BY <1>1, Sole
  <2> QED
    BY <1>1, <1>2, <2>1, <2>2, Here, DirectoryValues DEF WellPlaced, FoundOK, PlaceOK,
       Moves, Keeps, AtStep, Locks, Removes, Directory, Materializing, FilesTypeOK
<1>7. /\ lock' # 0 => (lock' = a /\ Locks(a)') \/ (lock' = lock /\ ~Locks(a))
                        \/ (lock' = lock /\ Locks(a)')
      /\ temps' \subseteq temps \cup {a} /\ (a \in temps' => AtStep(a, "fetch")')
      /\ target' = "partial" => Removes(a)' \/ (target = "partial" /\ ~Removes(a))
  BY <1>1, <1>2 DEF Removes, Locks, AtStep, FilesInv, TempsOK
<1>8. NoCleanupCut' /\ Torn' => \/ AnswersForContext(a)'
                                  \/ /\ Torn /\ dir'.context = dir.context
                                     /\ ~AnswersForContext(a)
  BY <1>1, <1>2, Here, DirectoryValues DEF Torn, AnswersForContext, PlaceOK, Keeps, AtStep,
     Locks, Directory
<1>9. attempt[a].alone /\ NoCleanupCut' /\ Pointed(a) => Pointed(a)'
  BY <1>1, <1>2, Here, Sole, DirectoryValues DEF Pointed, Owns, PlaceOK, FoundOK, Keeps,
     AtStep, Locks, Removes, Directory, CheckoutReady, DirectoryOK
<1>10. inactive /\ NoCleanupCut' /\ (dir.present => AnswersForDirectory(a))
         => (dir'.present => AnswersForDirectory(a)')
  BY <1>1, <1>2, Here, DirectoryValues DEF AnswersForDirectory, PlaceOK, Keeps, AtStep,
     Locks, Directory
<1> QED
  BY <1>1, <1>2, <1>3, <1>4, <1>5, <1>6, <1>7, <1>8, <1>9, <1>10 DEF Turn, AtStep

LEMMA RenameIsTurn ==
  ASSUME FilesInv, NEW a \in Attempts, Rename(a)
  PROVE  Turn(a)
<1>1. AtStep(a, "fetch") /\ Live(a)
  BY DEF Rename, Locks, Live, AtStep, Ended
<1>2. /\ Moves(a) /\ attempt'[a].well = attempt[a].well /\ attempt'[a].saw = attempt[a].saw
      /\ lock' = 0 /\ stale' = FALSE /\ temps' = temps \ {a}
      /\ \/ target = "none" /\ target' = "whole" /\ AtStep(a, "point")' /\ attempt'[a].holds
         \/ /\ target # "none" /\ UNCHANGED target
            /\ AtStep(a, "failed")' /\ attempt'[a].holds = attempt[a].holds
      /\ UNCHANGED <<dir, server, inactive, receipts, three, failures>>
  BY <1>1, Here, GoToMoves, ObtainMoves DEF Rename, files, AtStep, Pcs, Materializing,
     CheckoutReady, Exact, Unlock, Drop, Failure, Ended, Keeps
<1>3. FilesTypeOK' /\ DirectoryOK'
  BY <1>2, Here, DirectoryValues DEF FilesTypeOK, DirectoryOK, Moves, Directory
<1>4. PlaceOK(a)'
  BY <1>1, <1>2, Here DEF PlaceOK, Moves, Keeps, AtStep, Locks, Materializing
<1>5. FoundOK(a)'
  BY <1>1, <1>2, Here, Sole, DirectoryValues DEF FoundOK, Moves, Keeps, AtStep, Locks,
     Removes, DirectoryOK, PlaceOK
<1>6. WellOK(a)'
  <2> SUFFICES ASSUME attempt[a].alone, attempt[a].well PROVE WellPlaced(a)'
    BY <1>2 DEF WellOK, Moves, Keeps
  <2>1. WellPlaced(a) /\ FoundOK(a) /\ PlaceOK(a) /\ (NoCleanupCut' => NoCleanupCut)
    BY <1>1, <1>2, Here, CutStays DEF WellOK
  <2>2. (target = "partial" => Removes(a)) /\ (lock # 0 => Locks(a))
    BY <1>1, Sole
  <2> QED
    BY <1>1, <1>2, <2>1, <2>2, Here, DirectoryValues DEF WellPlaced, FoundOK, PlaceOK,
       Moves, Keeps, AtStep, Locks, Removes, Directory, Materializing, FilesTypeOK
<1>7. /\ lock' # 0 => (lock' = a /\ Locks(a)') \/ (lock' = lock /\ ~Locks(a))
                        \/ (lock' = lock /\ Locks(a)')
      /\ temps' \subseteq temps \cup {a} /\ (a \in temps' => AtStep(a, "fetch")')
      /\ target' = "partial" => Removes(a)' \/ (target = "partial" /\ ~Removes(a))
  BY <1>1, <1>2 DEF Removes, Locks, AtStep, FilesInv, TempsOK
<1>8. NoCleanupCut' /\ Torn' => \/ AnswersForContext(a)'
                                  \/ /\ Torn /\ dir'.context = dir.context
                                     /\ ~AnswersForContext(a)
  BY <1>1, <1>2, Here, DirectoryValues DEF Torn, AnswersForContext, PlaceOK, Keeps, AtStep,
     Locks, Directory
<1>9. attempt[a].alone /\ NoCleanupCut' /\ Pointed(a) => Pointed(a)'
  BY <1>1, <1>2, Here, Sole, DirectoryValues DEF Pointed, Owns, PlaceOK, FoundOK, Keeps,
     AtStep, Locks, Removes, Directory, CheckoutReady, DirectoryOK
<1>10. inactive /\ NoCleanupCut' /\ (dir.present => AnswersForDirectory(a))
         => (dir'.present => AnswersForDirectory(a)')
  BY <1>1, <1>2, Here, DirectoryValues DEF AnswersForDirectory, PlaceOK, Keeps, AtStep,
     Locks, Directory
<1> QED
  BY <1>1, <1>2, <1>3, <1>4, <1>5, <1>6, <1>7, <1>8, <1>9, <1>10 DEF Turn, AtStep

LEMMA WritePointerIsTurn ==
  ASSUME FilesInv, NEW a \in Attempts, WritePointer(a)
  PROVE  Turn(a)
<1>1. AtStep(a, "point") /\ Live(a)
  BY DEF WritePointer, Locks, Live, AtStep, Ended
<1>2. /\ Moves(a) /\ Keeps(a)
      /\ \/ /\ target # "none" /\ dir.present /\ ~dir.pointer /\ AtStep(a, "open")'
            /\ dir' = [dir EXCEPT !.pointer = TRUE]
         \/ /\ ~(target # "none" /\ dir.present /\ ~dir.pointer)
            /\ AtStep(a, "failed")' /\ UNCHANGED dir
      /\ UNCHANGED <<target, temps, lock, stale, server, inactive, receipts, three, failures>>
  BY <1>1, Here, GoToMoves, StayMoves DEF WritePointer, files, AtStep, Pcs, Materializing,
     CheckoutReady, Exact, Unlock, Drop, Failure, Ended
<1>3. FilesTypeOK' /\ DirectoryOK'
  BY <1>2, Here, DirectoryValues DEF FilesTypeOK, DirectoryOK, Moves, Directory
<1>4. PlaceOK(a)'
  BY <1>1, <1>2, Here DEF PlaceOK, Moves, Keeps, AtStep, Locks, Materializing
<1>5. FoundOK(a)'
  BY <1>1, <1>2, Here, Sole, DirectoryValues DEF FoundOK, Moves, Keeps, AtStep, Locks,
     Removes, DirectoryOK, PlaceOK
<1>6. WellOK(a)'
  <2> SUFFICES ASSUME attempt[a].alone, attempt[a].well PROVE WellPlaced(a)'
    BY <1>2 DEF WellOK, Moves, Keeps
  <2>1. WellPlaced(a) /\ FoundOK(a) /\ PlaceOK(a) /\ (NoCleanupCut' => NoCleanupCut)
    BY <1>1, <1>2, Here, CutStays DEF WellOK
  <2>2. (target = "partial" => Removes(a)) /\ (lock # 0 => Locks(a))
    BY <1>1, Sole
  <2> QED
    BY <1>1, <1>2, <2>1, <2>2, Here, DirectoryValues DEF WellPlaced, FoundOK, PlaceOK,
       Moves, Keeps, AtStep, Locks, Removes, Directory, Materializing, FilesTypeOK
<1>7. /\ lock' # 0 => (lock' = a /\ Locks(a)') \/ (lock' = lock /\ ~Locks(a))
                        \/ (lock' = lock /\ Locks(a)')
      /\ temps' \subseteq temps \cup {a} /\ (a \in temps' => AtStep(a, "fetch")')
      /\ target' = "partial" => Removes(a)' \/ (target = "partial" /\ ~Removes(a))
  BY <1>1, <1>2 DEF Removes, Locks, AtStep, FilesInv, TempsOK
<1>8. NoCleanupCut' /\ Torn' => \/ AnswersForContext(a)'
                                  \/ /\ Torn /\ dir'.context = dir.context
                                     /\ ~AnswersForContext(a)
  BY <1>1, <1>2, Here, DirectoryValues DEF Torn, AnswersForContext, PlaceOK, Keeps, AtStep,
     Locks, Directory
<1>9. attempt[a].alone /\ NoCleanupCut' /\ Pointed(a) => Pointed(a)'
  BY <1>1, <1>2, Here, Sole, DirectoryValues DEF Pointed, Owns, PlaceOK, FoundOK, Keeps,
     AtStep, Locks, Removes, Directory, CheckoutReady, DirectoryOK
<1>10. inactive /\ NoCleanupCut' /\ (dir.present => AnswersForDirectory(a))
         => (dir'.present => AnswersForDirectory(a)')
  BY <1>1, <1>2, Here, DirectoryValues DEF AnswersForDirectory, PlaceOK, Keeps, AtStep,
     Locks, Directory
<1> QED
  BY <1>1, <1>2, <1>3, <1>4, <1>5, <1>6, <1>7, <1>8, <1>9, <1>10 DEF Turn, AtStep

LEMMA OpenContextIsTurn ==
  ASSUME FilesInv, NEW a \in Attempts, OpenContext(a)
  PROVE  Turn(a)
<1>1. AtStep(a, "open") /\ Live(a)
  BY DEF OpenContext, Locks, Live, AtStep, Ended
<1>2. /\ Moves(a) /\ Keeps(a)
      /\ \/ /\ dir.present /\ dir.context = 0 /\ AtStep(a, "fill")'
            /\ dir' = [dir EXCEPT !.context = a, !.whole = FALSE]
         \/ ~(dir.present /\ dir.context = 0) /\ AtStep(a, "failed")' /\ UNCHANGED dir
      /\ UNCHANGED <<target, temps, lock, stale, server, inactive, receipts, three, failures>>
  BY <1>1, Here, GoToMoves, StayMoves DEF OpenContext, files, AtStep, Pcs, Materializing,
     CheckoutReady, Exact, Unlock, Drop, Failure, Ended
<1>3. FilesTypeOK' /\ DirectoryOK'
  BY <1>2, Here, DirectoryValues DEF FilesTypeOK, DirectoryOK, Moves, Directory
<1>4. PlaceOK(a)'
  BY <1>1, <1>2, Here DEF PlaceOK, Moves, Keeps, AtStep, Locks, Materializing
<1>5. FoundOK(a)'
  BY <1>1, <1>2, Here, Sole, DirectoryValues DEF FoundOK, Moves, Keeps, AtStep, Locks,
     Removes, DirectoryOK, PlaceOK
<1>6. WellOK(a)'
  <2> SUFFICES ASSUME attempt[a].alone, attempt[a].well PROVE WellPlaced(a)'
    BY <1>2 DEF WellOK, Moves, Keeps
  <2>1. WellPlaced(a) /\ FoundOK(a) /\ PlaceOK(a) /\ (NoCleanupCut' => NoCleanupCut)
    BY <1>1, <1>2, Here, CutStays DEF WellOK
  <2>2. (target = "partial" => Removes(a)) /\ (lock # 0 => Locks(a))
    BY <1>1, Sole
  <2> QED
    BY <1>1, <1>2, <2>1, <2>2, Here, DirectoryValues DEF WellPlaced, FoundOK, PlaceOK,
       Moves, Keeps, AtStep, Locks, Removes, Directory, Materializing, FilesTypeOK
<1>7. /\ lock' # 0 => (lock' = a /\ Locks(a)') \/ (lock' = lock /\ ~Locks(a))
                        \/ (lock' = lock /\ Locks(a)')
      /\ temps' \subseteq temps \cup {a} /\ (a \in temps' => AtStep(a, "fetch")')
      /\ target' = "partial" => Removes(a)' \/ (target = "partial" /\ ~Removes(a))
  BY <1>1, <1>2 DEF Removes, Locks, AtStep, FilesInv, TempsOK
<1>8. NoCleanupCut' /\ Torn' => \/ AnswersForContext(a)'
                                  \/ /\ Torn /\ dir'.context = dir.context
                                     /\ ~AnswersForContext(a)
  BY <1>1, <1>2, Here, DirectoryValues DEF Torn, AnswersForContext, PlaceOK, Keeps, AtStep,
     Locks, Directory
<1>9. attempt[a].alone /\ NoCleanupCut' /\ Pointed(a) => Pointed(a)'
  BY <1>1, <1>2, Here, Sole, DirectoryValues DEF Pointed, Owns, PlaceOK, FoundOK, Keeps,
     AtStep, Locks, Removes, Directory, CheckoutReady, DirectoryOK
<1>10. inactive /\ NoCleanupCut' /\ (dir.present => AnswersForDirectory(a))
         => (dir'.present => AnswersForDirectory(a)')
  BY <1>1, <1>2, Here, DirectoryValues DEF AnswersForDirectory, PlaceOK, Keeps, AtStep,
     Locks, Directory
<1> QED
  BY <1>1, <1>2, <1>3, <1>4, <1>5, <1>6, <1>7, <1>8, <1>9, <1>10 DEF Turn, AtStep

LEMMA FillContextIsTurn ==
  ASSUME FilesInv, NEW a \in Attempts, FillContext(a)
  PROVE  Turn(a)
<1>1. AtStep(a, "fill") /\ Live(a)
  BY DEF FillContext, Locks, Live, AtStep, Ended
<1>2. /\ Moves(a) /\ Keeps(a) /\ AtStep(a, "revalidate")'
      /\ dir' = IF dir.context = a THEN [dir EXCEPT !.whole = TRUE] ELSE dir
      /\ UNCHANGED <<target, temps, lock, stale, server, inactive, receipts, three, failures>>
  BY <1>1, Here, GoToMoves, StayMoves DEF FillContext, files, AtStep, Pcs, Materializing,
     CheckoutReady, Exact, Unlock, Drop, Failure, Ended
<1>3. FilesTypeOK' /\ DirectoryOK'
  <2>1. dir' \in Directory /\ (dir = NoDirectory => dir' = dir)
    BY <1>2, Here, DirectoryValues DEF Directory
  <2>2. dir'.present = dir.present
    BY <1>2, Here DEF Directory
  <2> QED
    BY <1>2, <2>1, <2>2, Here DEF FilesTypeOK, DirectoryOK, Moves
<1>4. PlaceOK(a)'
  BY <1>1, <1>2, Here DEF PlaceOK, Moves, Keeps, AtStep, Locks, Materializing
<1>5. FoundOK(a)'
  BY <1>1, <1>2, Here, Sole, DirectoryValues DEF FoundOK, Moves, Keeps, AtStep, Locks,
     Removes, DirectoryOK, PlaceOK
<1>6. WellOK(a)'
  <2> SUFFICES ASSUME attempt[a].alone, attempt[a].well PROVE WellPlaced(a)'
    BY <1>2 DEF WellOK, Moves, Keeps
  <2>1. WellPlaced(a) /\ FoundOK(a) /\ PlaceOK(a) /\ (NoCleanupCut' => NoCleanupCut)
    BY <1>1, <1>2, Here, CutStays DEF WellOK
  <2>2. (target = "partial" => Removes(a)) /\ (lock # 0 => Locks(a))
    BY <1>1, Sole
  <2> QED
    BY <1>1, <1>2, <2>1, <2>2, Here, DirectoryValues DEF WellPlaced, FoundOK, PlaceOK,
       Moves, Keeps, AtStep, Locks, Removes, Directory, Materializing, FilesTypeOK
<1>7. /\ lock' # 0 => (lock' = a /\ Locks(a)') \/ (lock' = lock /\ ~Locks(a))
                        \/ (lock' = lock /\ Locks(a)')
      /\ temps' \subseteq temps \cup {a} /\ (a \in temps' => AtStep(a, "fetch")')
      /\ target' = "partial" => Removes(a)' \/ (target = "partial" /\ ~Removes(a))
  BY <1>1, <1>2 DEF Removes, Locks, AtStep, FilesInv, TempsOK
<1>8. NoCleanupCut' /\ Torn' => \/ AnswersForContext(a)'
                                  \/ /\ Torn /\ dir'.context = dir.context
                                     /\ ~AnswersForContext(a)
  BY <1>1, <1>2, Here, DirectoryValues DEF Torn, AnswersForContext, PlaceOK, Keeps, AtStep,
     Locks, Directory
<1>9. attempt[a].alone /\ NoCleanupCut' /\ Pointed(a) => Pointed(a)'
  BY <1>1, <1>2, Here, Sole, DirectoryValues DEF Pointed, Owns, PlaceOK, FoundOK, Keeps,
     AtStep, Locks, Removes, Directory, CheckoutReady, DirectoryOK
<1>10. inactive /\ NoCleanupCut' /\ (dir.present => AnswersForDirectory(a))
         => (dir'.present => AnswersForDirectory(a)')
  BY <1>1, <1>2, Here, DirectoryValues DEF AnswersForDirectory, PlaceOK, Keeps, AtStep,
     Locks, Directory
<1> QED
  BY <1>1, <1>2, <1>3, <1>4, <1>5, <1>6, <1>7, <1>8, <1>9, <1>10 DEF Turn, AtStep

LEMMA CleanupIsTurn ==
  ASSUME FilesInv, NEW a \in Attempts, Cleanup(a)
  PROVE  Turn(a)
<1>1. AtStep(a, "failed") /\ Live(a)
  BY DEF Cleanup, Locks, Live, AtStep, Ended
<1>2. /\ Moves(a) /\ Keeps(a)
      /\ \/ ~attempt[a].holds /\ dir' = NoDirectory /\ AtStep(a, "error")' /\ UNCHANGED target
         \/ /\ attempt[a].holds /\ target = "none"
            /\ AtStep(a, "error")' /\ UNCHANGED <<dir, target>>
         \/ /\ attempt[a].holds /\ target # "none" /\ target' = "partial"
            /\ AtStep(a, "failing")' /\ UNCHANGED dir
      /\ UNCHANGED <<temps, lock, stale, server, inactive, receipts, three, failures>>
  BY <1>1, Here, GoToMoves, StayMoves DEF Cleanup, files, AtStep, Pcs, Materializing,
     CheckoutReady, Exact, Unlock, Drop, Failure, Ended
<1>3. FilesTypeOK' /\ DirectoryOK'
  BY <1>2, Here, DirectoryValues DEF FilesTypeOK, DirectoryOK, Moves, Directory
<1>4. PlaceOK(a)'
  BY <1>1, <1>2, Here DEF PlaceOK, Moves, Keeps, AtStep, Locks, Materializing
<1>5. FoundOK(a)'
  BY <1>1, <1>2, Here, Sole, DirectoryValues DEF FoundOK, Moves, Keeps, AtStep, Locks,
     Removes, DirectoryOK, PlaceOK
<1>6. WellOK(a)'
  <2> SUFFICES ASSUME attempt[a].alone, attempt[a].well PROVE WellPlaced(a)'
    BY <1>2 DEF WellOK, Moves, Keeps
  <2>1. WellPlaced(a) /\ FoundOK(a) /\ PlaceOK(a) /\ (NoCleanupCut' => NoCleanupCut)
    BY <1>1, <1>2, Here, CutStays DEF WellOK
  <2>2. (target = "partial" => Removes(a)) /\ (lock # 0 => Locks(a))
    BY <1>1, Sole
  <2> QED
    BY <1>1, <1>2, <2>1, <2>2, Here, DirectoryValues DEF WellPlaced, FoundOK, PlaceOK,
       Moves, Keeps, AtStep, Locks, Removes, Directory, Materializing, FilesTypeOK
<1>7. /\ lock' # 0 => (lock' = a /\ Locks(a)') \/ (lock' = lock /\ ~Locks(a))
                        \/ (lock' = lock /\ Locks(a)')
      /\ temps' \subseteq temps \cup {a} /\ (a \in temps' => AtStep(a, "fetch")')
      /\ target' = "partial" => Removes(a)' \/ (target = "partial" /\ ~Removes(a))
  BY <1>1, <1>2 DEF Removes, Locks, AtStep, FilesInv, TempsOK
<1>8. NoCleanupCut' /\ Torn' => \/ AnswersForContext(a)'
                                  \/ /\ Torn /\ dir'.context = dir.context
                                     /\ ~AnswersForContext(a)
  BY <1>1, <1>2, Here, DirectoryValues DEF Torn, AnswersForContext, PlaceOK, Keeps, AtStep,
     Locks, Directory
<1>9. attempt[a].alone /\ NoCleanupCut' /\ Pointed(a) => Pointed(a)'
  BY <1>1, <1>2, Here, Sole, DirectoryValues DEF Pointed, Owns, PlaceOK, FoundOK, Keeps,
     AtStep, Locks, Removes, Directory, CheckoutReady, DirectoryOK
<1>10. inactive /\ NoCleanupCut' /\ (dir.present => AnswersForDirectory(a))
         => (dir'.present => AnswersForDirectory(a)')
  BY <1>1, <1>2, Here, DirectoryValues DEF AnswersForDirectory, PlaceOK, Keeps, AtStep,
     Locks, Directory
<1> QED
  BY <1>1, <1>2, <1>3, <1>4, <1>5, <1>6, <1>7, <1>8, <1>9, <1>10 DEF Turn, AtStep

LEMMA FinishCleanupIsTurn ==
  ASSUME FilesInv, NEW a \in Attempts, FinishCleanup(a)
  PROVE  Turn(a)
<1>1. AtStep(a, "failing") /\ Live(a)
  BY DEF FinishCleanup, Locks, Live, AtStep, Ended
<1>2. /\ Moves(a) /\ Keeps(a) /\ AtStep(a, "error")' /\ target' = "none"
      /\ dir' = IF target = "none" THEN dir ELSE NoDirectory
      /\ UNCHANGED <<temps, lock, stale, server, inactive, receipts, three, failures>>
  BY <1>1, Here, GoToMoves, StayMoves DEF FinishCleanup, files, AtStep, Pcs, Materializing,
     CheckoutReady, Exact, Unlock, Drop, Failure, Ended
<1>3. FilesTypeOK' /\ DirectoryOK'
  BY <1>2, Here, DirectoryValues DEF FilesTypeOK, DirectoryOK, Moves, Directory
<1>4. PlaceOK(a)'
  BY <1>1, <1>2, Here DEF PlaceOK, Moves, Keeps, AtStep, Locks, Materializing
<1>5. FoundOK(a)'
  BY <1>1, <1>2, Here, Sole, DirectoryValues DEF FoundOK, Moves, Keeps, AtStep, Locks,
     Removes, DirectoryOK, PlaceOK
<1>6. WellOK(a)'
  <2> SUFFICES ASSUME attempt[a].alone, attempt[a].well PROVE WellPlaced(a)'
    BY <1>2 DEF WellOK, Moves, Keeps
  <2>1. WellPlaced(a) /\ FoundOK(a) /\ PlaceOK(a) /\ (NoCleanupCut' => NoCleanupCut)
    BY <1>1, <1>2, Here, CutStays DEF WellOK
  <2>2. (target = "partial" => Removes(a)) /\ (lock # 0 => Locks(a))
    BY <1>1, Sole
  <2> QED
    BY <1>1, <1>2, <2>1, <2>2, Here, DirectoryValues DEF WellPlaced, FoundOK, PlaceOK,
       Moves, Keeps, AtStep, Locks, Removes, Directory, Materializing, FilesTypeOK
<1>7. /\ lock' # 0 => (lock' = a /\ Locks(a)') \/ (lock' = lock /\ ~Locks(a))
                        \/ (lock' = lock /\ Locks(a)')
      /\ temps' \subseteq temps \cup {a} /\ (a \in temps' => AtStep(a, "fetch")')
      /\ target' = "partial" => Removes(a)' \/ (target = "partial" /\ ~Removes(a))
  BY <1>1, <1>2 DEF Removes, Locks, AtStep, FilesInv, TempsOK
<1>8. NoCleanupCut' /\ Torn' => \/ AnswersForContext(a)'
                                  \/ /\ Torn /\ dir'.context = dir.context
                                     /\ ~AnswersForContext(a)
  BY <1>1, <1>2, Here, DirectoryValues DEF Torn, AnswersForContext, PlaceOK, Keeps, AtStep,
     Locks, Directory
<1>9. attempt[a].alone /\ NoCleanupCut' /\ Pointed(a) => Pointed(a)'
  BY <1>1, <1>2, Here, Sole, DirectoryValues DEF Pointed, Owns, PlaceOK, FoundOK, Keeps,
     AtStep, Locks, Removes, Directory, CheckoutReady, DirectoryOK
<1>10. inactive /\ NoCleanupCut' /\ (dir.present => AnswersForDirectory(a))
         => (dir'.present => AnswersForDirectory(a)')
  BY <1>1, <1>2, Here, DirectoryValues DEF AnswersForDirectory, PlaceOK, Keeps, AtStep,
     Locks, Directory
<1> QED
  BY <1>1, <1>2, <1>3, <1>4, <1>5, <1>6, <1>7, <1>8, <1>9, <1>10 DEF Turn, AtStep

LEMMA RemoveArtifactsIsTurn ==
  ASSUME FilesInv, NEW a \in Attempts, RemoveArtifacts(a)
  PROVE  Turn(a)
<1>1. AtStep(a, "remove") /\ Live(a)
  BY DEF RemoveArtifacts, Locks, Live, AtStep, Ended
<1>2. /\ Moves(a) /\ Keeps(a)
      /\ \/ /\ target # "none" /\ target' = "partial"
            /\ AtStep(a, "removing")' /\ UNCHANGED dir
         \/ /\ ~CheckoutReady /\ dir' = NoDirectory
            /\ AtStep(a, "done")' /\ UNCHANGED target
      /\ UNCHANGED <<temps, lock, stale, server, inactive, receipts, three, failures>>
  BY <1>1, Here, GoToMoves, StayMoves DEF RemoveArtifacts, files, AtStep, Pcs,
     Materializing, CheckoutReady, Exact, Unlock, Drop, Failure, Ended
<1>3. FilesTypeOK' /\ DirectoryOK'
  BY <1>2, Here, DirectoryValues DEF FilesTypeOK, DirectoryOK, Moves, Directory
<1>4. PlaceOK(a)'
  BY <1>1, <1>2, Here DEF PlaceOK, Moves, Keeps, AtStep, Locks, Materializing
<1>5. FoundOK(a)'
  BY <1>1, <1>2, Here, Sole, DirectoryValues DEF FoundOK, Moves, Keeps, AtStep, Locks,
     Removes, DirectoryOK, PlaceOK
<1>6. WellOK(a)'
  <2> SUFFICES ASSUME attempt[a].alone, attempt[a].well PROVE WellPlaced(a)'
    BY <1>2 DEF WellOK, Moves, Keeps
  <2>1. WellPlaced(a) /\ FoundOK(a) /\ PlaceOK(a) /\ (NoCleanupCut' => NoCleanupCut)
    BY <1>1, <1>2, Here, CutStays DEF WellOK
  <2>2. (target = "partial" => Removes(a)) /\ (lock # 0 => Locks(a))
    BY <1>1, Sole
  <2> QED
    BY <1>1, <1>2, <2>1, <2>2, Here, DirectoryValues DEF WellPlaced, FoundOK, PlaceOK,
       Moves, Keeps, AtStep, Locks, Removes, Directory, Materializing, FilesTypeOK
<1>7. /\ lock' # 0 => (lock' = a /\ Locks(a)') \/ (lock' = lock /\ ~Locks(a))
                        \/ (lock' = lock /\ Locks(a)')
      /\ temps' \subseteq temps \cup {a} /\ (a \in temps' => AtStep(a, "fetch")')
      /\ target' = "partial" => Removes(a)' \/ (target = "partial" /\ ~Removes(a))
  BY <1>1, <1>2 DEF Removes, Locks, AtStep, FilesInv, TempsOK
<1>8. NoCleanupCut' /\ Torn' => \/ AnswersForContext(a)'
                                  \/ /\ Torn /\ dir'.context = dir.context
                                     /\ ~AnswersForContext(a)
  BY <1>1, <1>2, Here, DirectoryValues DEF Torn, AnswersForContext, PlaceOK, Keeps, AtStep,
     Locks, Directory
<1>9. attempt[a].alone /\ NoCleanupCut' /\ Pointed(a) => Pointed(a)'
  BY <1>1, <1>2, Here, Sole, DirectoryValues DEF Pointed, Owns, PlaceOK, FoundOK, Keeps,
     AtStep, Locks, Removes, Directory, CheckoutReady, DirectoryOK
<1>10. inactive /\ NoCleanupCut' /\ (dir.present => AnswersForDirectory(a))
         => (dir'.present => AnswersForDirectory(a)')
  BY <1>1, <1>2, Here, DirectoryValues DEF AnswersForDirectory, PlaceOK, Keeps, AtStep,
     Locks, Directory
<1>11. AtStep(a, "done")' =>
         /\ ~dir'.present
         /\ attempt[a].alone /\ NoCleanupCut' /\ Pointed(a) => target' = "none"
  BY <1>1, <1>2, Here, Sole, DirectoryValues DEF Pointed, Owns, CheckoutReady, FilesTypeOK,
     AtStep, Removes
<1> QED
  BY <1>1, <1>2, <1>3, <1>4, <1>5, <1>6, <1>7, <1>8, <1>9, <1>10, <1>11 DEF Turn

LEMMA FinishRemovalIsTurn ==
  ASSUME FilesInv, NEW a \in Attempts, FinishRemoval(a)
  PROVE  Turn(a)
<1>1. AtStep(a, "removing") /\ Live(a)
  BY DEF FinishRemoval, Locks, Live, AtStep, Ended
<1>2. /\ Moves(a) /\ Keeps(a) /\ target' = "none"
      /\ \/ target = "none" /\ AtStep(a, "error")' /\ UNCHANGED dir
         \/ target # "none" /\ AtStep(a, "done")' /\ dir' = NoDirectory
      /\ UNCHANGED <<temps, lock, stale, server, inactive, receipts, three, failures>>
  BY <1>1, Here, GoToMoves, StayMoves DEF FinishRemoval, files, AtStep, Pcs, Materializing,
     CheckoutReady, Exact, Unlock, Drop, Failure, Ended
<1>3. FilesTypeOK' /\ DirectoryOK'
  BY <1>2, Here, DirectoryValues DEF FilesTypeOK, DirectoryOK, Moves, Directory
<1>4. PlaceOK(a)'
  BY <1>1, <1>2, Here DEF PlaceOK, Moves, Keeps, AtStep, Locks, Materializing
<1>5. FoundOK(a)'
  BY <1>1, <1>2, Here, Sole, DirectoryValues DEF FoundOK, Moves, Keeps, AtStep, Locks,
     Removes, DirectoryOK, PlaceOK
<1>6. WellOK(a)'
  <2> SUFFICES ASSUME attempt[a].alone, attempt[a].well PROVE WellPlaced(a)'
    BY <1>2 DEF WellOK, Moves, Keeps
  <2>1. WellPlaced(a) /\ FoundOK(a) /\ PlaceOK(a) /\ (NoCleanupCut' => NoCleanupCut)
    BY <1>1, <1>2, Here, CutStays DEF WellOK
  <2>2. (target = "partial" => Removes(a)) /\ (lock # 0 => Locks(a))
    BY <1>1, Sole
  <2> QED
    BY <1>1, <1>2, <2>1, <2>2, Here, DirectoryValues DEF WellPlaced, FoundOK, PlaceOK,
       Moves, Keeps, AtStep, Locks, Removes, Directory, Materializing, FilesTypeOK
<1>7. /\ lock' # 0 => (lock' = a /\ Locks(a)') \/ (lock' = lock /\ ~Locks(a))
                        \/ (lock' = lock /\ Locks(a)')
      /\ temps' \subseteq temps \cup {a} /\ (a \in temps' => AtStep(a, "fetch")')
      /\ target' = "partial" => Removes(a)' \/ (target = "partial" /\ ~Removes(a))
  BY <1>1, <1>2 DEF Removes, Locks, AtStep, FilesInv, TempsOK
<1>8. NoCleanupCut' /\ Torn' => \/ AnswersForContext(a)'
                                  \/ /\ Torn /\ dir'.context = dir.context
                                     /\ ~AnswersForContext(a)
  BY <1>1, <1>2, Here, DirectoryValues DEF Torn, AnswersForContext, PlaceOK, Keeps, AtStep,
     Locks, Directory
<1>9. attempt[a].alone /\ NoCleanupCut' /\ Pointed(a) => Pointed(a)'
  BY <1>1, <1>2, Here, Sole, DirectoryValues DEF Pointed, Owns, PlaceOK, FoundOK, Keeps,
     AtStep, Locks, Removes, Directory, CheckoutReady, DirectoryOK
<1>10. inactive /\ NoCleanupCut' /\ (dir.present => AnswersForDirectory(a))
         => (dir'.present => AnswersForDirectory(a)')
  BY <1>1, <1>2, Here, DirectoryValues DEF AnswersForDirectory, PlaceOK, Keeps, AtStep,
     Locks, Directory
<1>11. AtStep(a, "done")' =>
         /\ ~dir'.present
         /\ attempt[a].alone /\ NoCleanupCut' /\ Pointed(a) => target' = "none"
  BY <1>1, <1>2, Here, Sole, DirectoryValues DEF Pointed, Owns, CheckoutReady, FilesTypeOK,
     AtStep, Removes
<1> QED
  BY <1>1, <1>2, <1>3, <1>4, <1>5, <1>6, <1>7, <1>8, <1>9, <1>10, <1>11 DEF Turn

LEMMA FinishThreadIsTurn ==
  ASSUME FilesInv, NEW a \in Attempts, FinishThread(a)
  PROVE  Turn(a)
<1>1. attempt[a].pc \in {"severed", "cutting", "outlived"} /\ Live(a) /\ ~attempt[a].well
  BY Here DEF FinishThread, Threads, Live, AtStep, Ended, PlaceOK
<1>2. /\ Moves(a) /\ Keeps(a) /\ target' = "none" /\ dir' \in {dir, NoDirectory}
      /\ AtStep(a, "error")' \/ AtStep(a, "cut")'
      /\ AtStep(a, "cutting") => AtStep(a, "cut")'
      /\ UNCHANGED <<temps, lock, stale, server, inactive, receipts, three, failures>>
  BY <1>1, Here, GoToMoves, StayMoves DEF FinishThread, files, AtStep, Pcs, Materializing,
     CheckoutReady, Exact, Unlock, Drop, Failure, Ended
<1>3. FilesTypeOK' /\ DirectoryOK'
  BY <1>2, Here, DirectoryValues DEF FilesTypeOK, DirectoryOK, Moves, Directory
<1>4. PlaceOK(a)'
  BY <1>1, <1>2, Here DEF PlaceOK, Moves, Keeps, AtStep, Locks, Materializing
<1>5. FoundOK(a)'
  BY <1>1, <1>2, Here, Sole, DirectoryValues DEF FoundOK, Moves, Keeps, AtStep, Locks,
     Removes, DirectoryOK, PlaceOK
<1>6. WellOK(a)'
  BY <1>1, <1>2 DEF WellOK, Keeps
<1>7. /\ lock' # 0 => (lock' = a /\ Locks(a)') \/ (lock' = lock /\ ~Locks(a))
                        \/ (lock' = lock /\ Locks(a)')
      /\ temps' \subseteq temps \cup {a} /\ (a \in temps' => AtStep(a, "fetch")')
      /\ target' = "partial" => Removes(a)' \/ (target = "partial" /\ ~Removes(a))
  BY <1>1, <1>2 DEF Removes, Locks, AtStep, FilesInv, TempsOK
<1>8. NoCleanupCut' /\ Torn' => \/ AnswersForContext(a)'
                                  \/ /\ Torn /\ dir'.context = dir.context
                                     /\ ~AnswersForContext(a)
  BY <1>1, <1>2, Here, DirectoryValues DEF Torn, AnswersForContext, PlaceOK, Keeps, AtStep,
     Locks, Directory
<1>9. attempt[a].alone /\ NoCleanupCut' /\ Pointed(a) => Pointed(a)'
  BY <1>1, <1>2, Here, Sole, DirectoryValues DEF Pointed, Owns, PlaceOK, FoundOK, Keeps,
     AtStep, Locks, Removes, Directory, CheckoutReady, DirectoryOK
<1>10. inactive /\ NoCleanupCut' /\ (dir.present => AnswersForDirectory(a))
         => (dir'.present => AnswersForDirectory(a)')
  BY <1>1, <1>2, Here, DirectoryValues DEF AnswersForDirectory, NoCleanupCut, Keeps,
     AtStep
<1> QED
  BY <1>1, <1>2, <1>3, <1>4, <1>5, <1>6, <1>7, <1>8, <1>9, <1>10 DEF Turn, AtStep

LEMMA BeginIsTurn ==
  ASSUME FilesInv, NEW a \in Attempts, Begin(a)
  PROVE  Turn(a)
<1>1. AtStep(a, "begin") /\ Live(a)
  BY DEF Begin, Locks, Live, AtStep, Ended
<1>2. /\ Moves(a) /\ Keeps(a) /\ attempt[a].stage # "terminal"
      /\ \/ inactive /\ AtStep(a, "error")'
         \/ AtStep(a, "done")'
         \/ attempt[a].stage # "select" /\ Ready(attempt[a].stage) /\ AtStep(a, "use")'
         \/ AtStep(a, "clear")'
      /\ UNCHANGED <<dir, target, temps, lock, stale, server, inactive, receipts, three, failures>>
  BY <1>1, Here, GoToMoves, StayMoves DEF Begin, files, AtStep, Pcs, Materializing,
     CheckoutReady, Exact, Unlock, Drop, Failure, Ended
<1>3. FilesTypeOK' /\ DirectoryOK'
  BY <1>2, Here, DirectoryValues DEF FilesTypeOK, DirectoryOK, Moves, Directory
<1>4. PlaceOK(a)'
  BY <1>1, <1>2, Here DEF PlaceOK, Moves, Keeps, AtStep, Locks, Materializing
<1>5. FoundOK(a)'
  BY <1>1, <1>2, Here, Sole, DirectoryValues DEF FoundOK, Moves, Keeps, AtStep, Locks,
     Removes, DirectoryOK, PlaceOK
<1>6. WellOK(a)'
  <2> SUFFICES ASSUME attempt[a].alone, attempt[a].well PROVE WellPlaced(a)'
    BY <1>2 DEF WellOK, Moves, Keeps
  <2>1. WellPlaced(a) /\ FoundOK(a) /\ PlaceOK(a) /\ (NoCleanupCut' => NoCleanupCut)
    BY <1>1, <1>2, Here, CutStays DEF WellOK
  <2>2. (target = "partial" => Removes(a)) /\ (lock # 0 => Locks(a))
    BY <1>1, Sole
  <2>3. NoCleanupCut => ~Torn
    BY <1>1, Sole DEF AnswersForContext, AtStep
  <2> QED
    BY <1>1, <1>2, <2>1, <2>2, <2>3, Here, DirectoryValues DEF WellPlaced, FoundOK, PlaceOK,
       Moves, Keeps, AtStep, Locks, Removes, Directory, Materializing, FilesTypeOK, Ready,
       ArtifactsReady, CheckoutReady, Attempt, Stages, Torn
<1>7. /\ lock' # 0 => (lock' = a /\ Locks(a)') \/ (lock' = lock /\ ~Locks(a))
                        \/ (lock' = lock /\ Locks(a)')
      /\ temps' \subseteq temps \cup {a} /\ (a \in temps' => AtStep(a, "fetch")')
      /\ target' = "partial" => Removes(a)' \/ (target = "partial" /\ ~Removes(a))
  BY <1>1, <1>2 DEF Removes, Locks, AtStep, FilesInv, TempsOK
<1>8. NoCleanupCut' /\ Torn' => \/ AnswersForContext(a)'
                                  \/ /\ Torn /\ dir'.context = dir.context
                                     /\ ~AnswersForContext(a)
  BY <1>1, <1>2, Here, DirectoryValues DEF Torn, AnswersForContext, PlaceOK, Keeps, AtStep,
     Locks, Directory
<1>9. attempt[a].alone /\ NoCleanupCut' /\ Pointed(a) => Pointed(a)'
  BY <1>1, <1>2, Here, Sole, DirectoryValues DEF Pointed, Owns, PlaceOK, FoundOK, Keeps,
     AtStep, Locks, Removes, Directory, CheckoutReady, DirectoryOK
<1>10. inactive /\ NoCleanupCut' /\ (dir.present => AnswersForDirectory(a))
         => (dir'.present => AnswersForDirectory(a)')
  BY <1>1, <1>2, Here, DirectoryValues DEF AnswersForDirectory, PlaceOK, Keeps, AtStep,
     Locks, Directory
<1> QED
  BY <1>1, <1>2, <1>3, <1>4, <1>5, <1>6, <1>7, <1>8, <1>9, <1>10 DEF Turn, AtStep

LEMMA RevalidateIsTurn ==
  ASSUME FilesInv, NEW a \in Attempts, Revalidate(a)
  PROVE  Turn(a)
<1>1. AtStep(a, "revalidate") /\ Live(a)
  BY DEF Revalidate, Locks, Live, AtStep, Ended
<1>2. /\ Moves(a) /\ Keeps(a)
      /\ \/ inactive /\ AtStep(a, "failed")'
         \/ ~inactive /\ attempt[a].stage = "select" /\ AtStep(a, "record")'
         \/ ~inactive /\ attempt[a].stage # "select" /\ AtStep(a, "use")'
      /\ UNCHANGED <<dir, target, temps, lock, stale, server, inactive, receipts, three, failures>>
  BY <1>1, Here, GoToMoves, StayMoves DEF Revalidate, files, AtStep, Pcs, Materializing,
     CheckoutReady, Exact, Unlock, Drop, Failure, Ended
<1>3. FilesTypeOK' /\ DirectoryOK'
  BY <1>2, Here, DirectoryValues DEF FilesTypeOK, DirectoryOK, Moves, Directory
<1>4. PlaceOK(a)'
  BY <1>1, <1>2, Here DEF PlaceOK, Moves, Keeps, AtStep, Locks, Materializing
<1>5. FoundOK(a)'
  BY <1>1, <1>2, Here, Sole, DirectoryValues DEF FoundOK, Moves, Keeps, AtStep, Locks,
     Removes, DirectoryOK, PlaceOK
<1>6. WellOK(a)'
  <2> SUFFICES ASSUME attempt[a].alone, attempt[a].well PROVE WellPlaced(a)'
    BY <1>2 DEF WellOK, Moves, Keeps
  <2>1. WellPlaced(a) /\ FoundOK(a) /\ PlaceOK(a) /\ (NoCleanupCut' => NoCleanupCut)
    BY <1>1, <1>2, Here, CutStays DEF WellOK
  <2>2. (target = "partial" => Removes(a)) /\ (lock # 0 => Locks(a))
    BY <1>1, Sole
  <2> QED
    BY <1>1, <1>2, <2>1, <2>2, Here, DirectoryValues DEF WellPlaced, FoundOK, PlaceOK,
       Moves, Keeps, AtStep, Locks, Removes, Directory, Materializing, FilesTypeOK, Ready,
       ArtifactsReady, CheckoutReady, Attempt, Stages, Torn, AnswersForContext
<1>7. /\ lock' # 0 => (lock' = a /\ Locks(a)') \/ (lock' = lock /\ ~Locks(a))
                        \/ (lock' = lock /\ Locks(a)')
      /\ temps' \subseteq temps \cup {a} /\ (a \in temps' => AtStep(a, "fetch")')
      /\ target' = "partial" => Removes(a)' \/ (target = "partial" /\ ~Removes(a))
  BY <1>1, <1>2 DEF Removes, Locks, AtStep, FilesInv, TempsOK
<1>8. NoCleanupCut' /\ Torn' => \/ AnswersForContext(a)'
                                  \/ /\ Torn /\ dir'.context = dir.context
                                     /\ ~AnswersForContext(a)
  BY <1>1, <1>2, Here, DirectoryValues DEF Torn, AnswersForContext, PlaceOK, Keeps, AtStep,
     Locks, Directory
<1>9. attempt[a].alone /\ NoCleanupCut' /\ Pointed(a) => Pointed(a)'
  BY <1>1, <1>2, Here, Sole, DirectoryValues DEF Pointed, Owns, PlaceOK, FoundOK, Keeps,
     AtStep, Locks, Removes, Directory, CheckoutReady, DirectoryOK
<1>10. inactive /\ NoCleanupCut' /\ (dir.present => AnswersForDirectory(a))
         => (dir'.present => AnswersForDirectory(a)')
  BY <1>1, <1>2, Here, DirectoryValues DEF AnswersForDirectory, PlaceOK, Keeps, AtStep,
     Locks, Directory
<1> QED
  BY <1>1, <1>2, <1>3, <1>4, <1>5, <1>6, <1>7, <1>8, <1>9, <1>10 DEF Turn, AtStep

LEMMA RecordIsTurn ==
  ASSUME FilesInv, NEW a \in Attempts, Record(a)
  PROVE  Turn(a)
<1>1. AtStep(a, "record") /\ Live(a)
  BY DEF Record, Locks, Live, AtStep, Ended
<1>2. /\ Moves(a) /\ Keeps(a) /\ receipts' \subseteq Stages
      /\ (inactive /\ AtStep(a, "error")') \/ AtStep(a, "done")'
      /\ UNCHANGED <<dir, target, temps, lock, stale, server, inactive, three, failures>>
  BY <1>1, Here, GoToMoves, StayMoves DEF Record, files, AtStep, Pcs, Materializing,
     CheckoutReady, Exact, Unlock, Drop, Failure, Ended, Attempt, FilesTypeOK
<1>3. FilesTypeOK' /\ DirectoryOK'
  BY <1>2, Here, DirectoryValues DEF FilesTypeOK, DirectoryOK, Moves, Directory
<1>4. PlaceOK(a)'
  BY <1>1, <1>2, Here DEF PlaceOK, Moves, Keeps, AtStep, Locks, Materializing
<1>5. FoundOK(a)'
  BY <1>1, <1>2, Here, Sole, DirectoryValues DEF FoundOK, Moves, Keeps, AtStep, Locks,
     Removes, DirectoryOK, PlaceOK
<1>6. WellOK(a)'
  <2> SUFFICES ASSUME attempt[a].alone, attempt[a].well PROVE WellPlaced(a)'
    BY <1>2 DEF WellOK, Moves, Keeps
  <2>1. WellPlaced(a) /\ FoundOK(a) /\ PlaceOK(a) /\ (NoCleanupCut' => NoCleanupCut)
    BY <1>1, <1>2, Here, CutStays DEF WellOK
  <2>2. (target = "partial" => Removes(a)) /\ (lock # 0 => Locks(a))
    BY <1>1, Sole
  <2> QED
    BY <1>1, <1>2, <2>1, <2>2, Here, DirectoryValues DEF WellPlaced, FoundOK, PlaceOK,
       Moves, Keeps, AtStep, Locks, Removes, Directory, Materializing, FilesTypeOK
<1>7. /\ lock' # 0 => (lock' = a /\ Locks(a)') \/ (lock' = lock /\ ~Locks(a))
                        \/ (lock' = lock /\ Locks(a)')
      /\ temps' \subseteq temps \cup {a} /\ (a \in temps' => AtStep(a, "fetch")')
      /\ target' = "partial" => Removes(a)' \/ (target = "partial" /\ ~Removes(a))
  BY <1>1, <1>2 DEF Removes, Locks, AtStep, FilesInv, TempsOK
<1>8. NoCleanupCut' /\ Torn' => \/ AnswersForContext(a)'
                                  \/ /\ Torn /\ dir'.context = dir.context
                                     /\ ~AnswersForContext(a)
  BY <1>1, <1>2, Here, DirectoryValues DEF Torn, AnswersForContext, PlaceOK, Keeps, AtStep,
     Locks, Directory
<1>9. attempt[a].alone /\ NoCleanupCut' /\ Pointed(a) => Pointed(a)'
  BY <1>1, <1>2, Here, Sole, DirectoryValues DEF Pointed, Owns, PlaceOK, FoundOK, Keeps,
     AtStep, Locks, Removes, Directory, CheckoutReady, DirectoryOK
<1>10. inactive /\ NoCleanupCut' /\ (dir.present => AnswersForDirectory(a))
         => (dir'.present => AnswersForDirectory(a)')
  BY <1>1, <1>2, Here, DirectoryValues DEF AnswersForDirectory, PlaceOK, Keeps, AtStep,
     Locks, Directory
<1> QED
  BY <1>1, <1>2, <1>3, <1>4, <1>5, <1>6, <1>7, <1>8, <1>9, <1>10, Here DEF Turn, AtStep,
     PlaceOK, Materializing

LEMMA RecordTerminalIsTurn ==
  ASSUME FilesInv, NEW a \in Attempts, RecordTerminal(a)
  PROVE  Turn(a)
<1>1. AtStep(a, "begin") /\ Live(a)
  BY DEF RecordTerminal, Locks, Live, AtStep, Ended
<1>2. /\ Moves(a) /\ Keeps(a) /\ attempt[a].stage = "terminal"
      /\ inactive' /\ inactive' \in BOOLEAN /\ AtStep(a, "remove")'
      /\ UNCHANGED <<dir, target, temps, lock, stale, server, receipts, three, failures>>
  BY <1>1, Here, GoToMoves, StayMoves DEF RecordTerminal, files, AtStep, Pcs, Materializing,
     CheckoutReady, Exact, Unlock, Drop, Failure, Ended
<1>3. FilesTypeOK' /\ DirectoryOK'
  BY <1>2, Here, DirectoryValues DEF FilesTypeOK, DirectoryOK, Moves, Directory
<1>4. PlaceOK(a)'
  BY <1>1, <1>2, Here DEF PlaceOK, Moves, Keeps, AtStep, Locks, Materializing
<1>5. FoundOK(a)'
  BY <1>1, <1>2, Here, Sole, DirectoryValues DEF FoundOK, Moves, Keeps, AtStep, Locks,
     Removes, DirectoryOK, PlaceOK
<1>6. WellOK(a)'
  <2> SUFFICES ASSUME attempt[a].alone, attempt[a].well PROVE WellPlaced(a)'
    BY <1>2 DEF WellOK, Moves, Keeps
  <2>1. WellPlaced(a) /\ FoundOK(a) /\ PlaceOK(a) /\ (NoCleanupCut' => NoCleanupCut)
    BY <1>1, <1>2, Here, CutStays DEF WellOK
  <2>2. (target = "partial" => Removes(a)) /\ (lock # 0 => Locks(a))
    BY <1>1, Sole
  <2> QED
    BY <1>1, <1>2, <2>1, <2>2, Here, DirectoryValues DEF WellPlaced, FoundOK, PlaceOK,
       Moves, Keeps, AtStep, Locks, Removes, Directory, Materializing, FilesTypeOK
<1>7. /\ lock' # 0 => (lock' = a /\ Locks(a)') \/ (lock' = lock /\ ~Locks(a))
                        \/ (lock' = lock /\ Locks(a)')
      /\ temps' \subseteq temps \cup {a} /\ (a \in temps' => AtStep(a, "fetch")')
      /\ target' = "partial" => Removes(a)' \/ (target = "partial" /\ ~Removes(a))
  BY <1>1, <1>2 DEF Removes, Locks, AtStep, FilesInv, TempsOK
<1>8. NoCleanupCut' /\ Torn' => \/ AnswersForContext(a)'
                                  \/ /\ Torn /\ dir'.context = dir.context
                                     /\ ~AnswersForContext(a)
  BY <1>1, <1>2, Here, DirectoryValues DEF Torn, AnswersForContext, PlaceOK, Keeps, AtStep,
     Locks, Directory
<1>9. attempt[a].alone /\ NoCleanupCut' /\ Pointed(a) => Pointed(a)'
  BY <1>1, <1>2, Here, Sole, DirectoryValues DEF Pointed, Owns, PlaceOK, FoundOK, Keeps,
     AtStep, Locks, Removes, Directory, CheckoutReady, DirectoryOK
<1>10. inactive /\ NoCleanupCut' /\ (dir.present => AnswersForDirectory(a))
         => (dir'.present => AnswersForDirectory(a)')
  BY <1>1, <1>2, Here, DirectoryValues DEF AnswersForDirectory, PlaceOK, Keeps, AtStep,
     Locks, Directory
<1> QED
  BY <1>1, <1>2, <1>3, <1>4, <1>5, <1>6, <1>7, <1>8, <1>9, <1>10 DEF Turn, AtStep

LEMMA InspectionFailsIsTurn ==
  ASSUME FilesInv, NEW a \in Attempts, InspectionFails(a)
  PROVE  Turn(a)
<1>1. AtStep(a, "point") /\ Live(a)
  BY DEF InspectionFails, Locks, Live, AtStep, Ended
<1>2. /\ Moves(a) /\ ~attempt'[a].well /\ attempt'[a].holds = attempt[a].holds
      /\ AtStep(a, "failed")' /\ failures' = failures + 1
      /\ UNCHANGED <<dir, target, temps, lock, stale, server, inactive, receipts, three>>
  BY <1>1, Here, SpoilMoves DEF InspectionFails, files, AtStep, Pcs, Materializing,
     CheckoutReady, Exact, Unlock, Drop, Failure, Ended
<1>3. FilesTypeOK' /\ DirectoryOK'
  BY <1>2, Here, DirectoryValues DEF FilesTypeOK, DirectoryOK, Moves, Directory
<1>4. PlaceOK(a)'
  BY <1>1, <1>2, Here DEF PlaceOK, Moves, Keeps, AtStep, Locks, Materializing
<1>5. FoundOK(a)'
  BY <1>1, <1>2, Here, Sole, DirectoryValues DEF FoundOK, Moves, Keeps, AtStep, Locks,
     Removes, DirectoryOK, PlaceOK
<1>6. WellOK(a)'
  BY <1>2 DEF WellOK
<1>7. /\ lock' # 0 => (lock' = a /\ Locks(a)') \/ (lock' = lock /\ ~Locks(a))
                        \/ (lock' = lock /\ Locks(a)')
      /\ temps' \subseteq temps \cup {a} /\ (a \in temps' => AtStep(a, "fetch")')
      /\ target' = "partial" => Removes(a)' \/ (target = "partial" /\ ~Removes(a))
  BY <1>1, <1>2 DEF Removes, Locks, AtStep, FilesInv, TempsOK
<1>8. NoCleanupCut' /\ Torn' => \/ AnswersForContext(a)'
                                  \/ /\ Torn /\ dir'.context = dir.context
                                     /\ ~AnswersForContext(a)
  BY <1>1, <1>2, Here, DirectoryValues DEF Torn, AnswersForContext, PlaceOK, Keeps, AtStep,
     Locks, Directory
<1>9. attempt[a].alone /\ NoCleanupCut' /\ Pointed(a) => Pointed(a)'
  BY <1>1, <1>2, Here, Sole, DirectoryValues DEF Pointed, Owns, PlaceOK, FoundOK, Keeps,
     AtStep, Locks, Removes, Directory, CheckoutReady, DirectoryOK
<1>10. inactive /\ NoCleanupCut' /\ (dir.present => AnswersForDirectory(a))
         => (dir'.present => AnswersForDirectory(a)')
  BY <1>1, <1>2, Here, DirectoryValues DEF AnswersForDirectory, PlaceOK, Keeps, AtStep,
     Locks, Directory
<1> QED
  BY <1>1, <1>2, <1>3, <1>4, <1>5, <1>6, <1>7, <1>8, <1>9, <1>10 DEF Turn, AtStep

LEMMA CheckoutFailsIsTurn ==
  ASSUME FilesInv, NEW a \in Attempts, CheckoutFails(a)
  PROVE  Turn(a)
<1>1. Locks(a) /\ Live(a)
  BY DEF CheckoutFails, Locks, Live, AtStep, Ended
<1>2. /\ Moves(a) /\ AtStep(a, "failed")' /\ ~attempt'[a].well
      /\ attempt'[a].holds = attempt[a].holds
      /\ lock' = 0 /\ stale' = FALSE /\ temps' = temps \ {a} /\ failures' = failures + 1
      /\ target' = IF AtStep(a, "inspect") THEN "none" ELSE target
      /\ UNCHANGED <<dir, server, inactive, receipts, three>>
  BY <1>1, Here, SpoilMoves DEF CheckoutFails, files, AtStep, Pcs, Materializing,
     CheckoutReady, Exact, Unlock, Drop, Failure, Ended
<1>3. FilesTypeOK' /\ DirectoryOK'
  <2>1. target' \in {"none", "whole", "partial"} /\ failures' \in Nat
    BY <1>2, Here DEF FilesTypeOK
  <2> QED
    BY <1>2, <2>1, Here DEF FilesTypeOK, DirectoryOK, Moves
<1>4. PlaceOK(a)'
  BY <1>1, <1>2, Here DEF PlaceOK, Moves, Keeps, AtStep, Locks, Materializing
<1>5. FoundOK(a)'
  BY <1>1, <1>2, Here, Sole, DirectoryValues DEF FoundOK, Moves, Keeps, AtStep, Locks,
     Removes, DirectoryOK, PlaceOK
<1>6. WellOK(a)'
  BY <1>2 DEF WellOK
<1>7. /\ lock' # 0 => (lock' = a /\ Locks(a)') \/ (lock' = lock /\ ~Locks(a))
                        \/ (lock' = lock /\ Locks(a)')
      /\ temps' \subseteq temps \cup {a} /\ (a \in temps' => AtStep(a, "fetch")')
      /\ target' = "partial" => Removes(a)' \/ (target = "partial" /\ ~Removes(a))
  BY <1>1, <1>2 DEF Removes, Locks, AtStep, FilesInv, TempsOK
<1>8. NoCleanupCut' /\ Torn' => \/ AnswersForContext(a)'
                                  \/ /\ Torn /\ dir'.context = dir.context
                                     /\ ~AnswersForContext(a)
  BY <1>1, <1>2, Here, DirectoryValues DEF Torn, AnswersForContext, PlaceOK, Keeps, AtStep,
     Locks, Directory
<1>9. attempt[a].alone /\ NoCleanupCut' /\ Pointed(a) => Pointed(a)'
  BY <1>1, <1>2, Here, Sole, DirectoryValues DEF Pointed, Owns, PlaceOK, FoundOK, Keeps,
     AtStep, Locks, Removes, Directory, CheckoutReady, DirectoryOK
<1>10. inactive /\ NoCleanupCut' /\ (dir.present => AnswersForDirectory(a))
         => (dir'.present => AnswersForDirectory(a)')
  BY <1>1, <1>2, Here, DirectoryValues DEF AnswersForDirectory, PlaceOK, Keeps, AtStep,
     Locks, Directory
<1> QED
  BY <1>1, <1>2, <1>3, <1>4, <1>5, <1>6, <1>7, <1>8, <1>9, <1>10 DEF Turn, AtStep

LEMMA UseIsTurn ==
  ASSUME FilesInv, NEW a \in Attempts, Use(a)
  PROVE  Turn(a)
<1>1. AtStep(a, "use") /\ Live(a) /\ UNCHANGED <<files, server, inactive, receipts, three, failures>>
  BY DEF Use, Live, AtStep, Ended
<1>2. /\ Moves(a) /\ attempt'[a].well = attempt[a].well /\ attempt'[a].holds = attempt[a].holds
      /\ AtStep(a, "record")' \/ AtStep(a, "error")'
      /\ attempt[a].stage = "analyze" =>
           /\ dir.context # 0 => AtStep(a, "record")'
           /\ dir.whole => attempt'[a].saw = "whole"
      /\ attempt[a].stage # "analyze" /\ dir.pointer /\ target = "whole" =>
           AtStep(a, "record")' /\ attempt'[a].saw = "whole"
  <2> DEFINE there == IF attempt[a].stage = "analyze" THEN dir.context # 0 ELSE CheckoutReady
             whole == IF attempt[a].stage = "analyze" THEN dir.whole ELSE target = "whole"
             pc == IF there THEN "record" ELSE "error"
             saw == IF whole THEN "whole" ELSE "part"
  <2>1. attempt' = [attempt EXCEPT ![a].pc = pc, ![a].saw = saw]
    BY DEF Use
  <2>2. pc \in {"record", "error"} /\ saw \in {"nothing", "whole", "part"}
    OBVIOUS
  <2>3. pc \in Pcs /\ pc # "absent"
    BY <2>2 DEF Pcs, Materializing, Ended
  <2>4. /\ Moves(a) /\ attempt'[a].pc = pc /\ attempt'[a].saw = saw
        /\ attempt'[a].well = attempt[a].well /\ attempt'[a].holds = attempt[a].holds
    <3> HIDE DEF pc, saw
    <3> QED
      BY <2>1, <2>2, <2>3, Here, UseMoves
  <2> QED
    BY <2>4 DEF AtStep, CheckoutReady
<1>3. FilesTypeOK' /\ DirectoryOK'
  BY <1>1, <1>2, Here DEF files, FilesTypeOK, DirectoryOK, Moves
<1>4. PlaceOK(a)' /\ FoundOK(a)'
  BY <1>1, <1>2, Here DEF files, PlaceOK, FoundOK, Moves, AtStep, Materializing
<1>5. WellOK(a)'
  <2> SUFFICES ASSUME attempt[a].alone, attempt[a].well PROVE WellPlaced(a)'
    BY <1>2 DEF WellOK, Moves
  <2>1. WellPlaced(a) /\ PlaceOK(a) /\ (NoCleanupCut' => NoCleanupCut)
    BY <1>1, <1>2, Here, CutStays DEF WellOK
  <2>2. AtStep(a, "record")'
    BY <1>1, <1>2, <2>1 DEF WellPlaced
  <2>3. NoCleanupCut' => attempt'[a].saw = "whole"
    BY <1>1, <1>2, <2>1 DEF WellPlaced
  <2> QED
    BY <2>2, <2>3 DEF WellPlaced, AtStep
<1>6. /\ ~Removes(a) /\ ~Locks(a) /\ ~AnswersForContext(a) /\ ~AnswersForDirectory(a) /\ ~Owns(a)
      /\ a \notin temps
  BY <1>1 DEF Removes, Locks, AnswersForContext, AnswersForDirectory, Owns, AtStep, FilesInv, TempsOK
<1>7. (Torn' => Torn) /\ (Pointed(a) => Pointed(a)')
  BY <1>1, <1>6 DEF files, Torn, Pointed
<1>8. ~AtStep(a, "done")'
  BY <1>2 DEF AtStep
<1> QED
  BY <1>1, <1>2, <1>3, <1>4, <1>5, <1>6, <1>7, <1>8 DEF Turn, files

LEMMA CancelIsTurn ==
  ASSUME FilesInv, NEW a \in Attempts, Cancel(a)
  PROVE  Turn(a)
<1>1. Live(a) /\ attempt[a].pc \in Pcs \ Threads
  BY Here DEF Cancel, Attempt, AtWork
<1>2. CancelledAt(attempt[a].pc) \in {"failed", "cut", "severed", "cutting", "outlived", "error"}
  BY DEF CancelledAt
<1>3. /\ Moves(a) /\ attempt'[a].pc = CancelledAt(attempt[a].pc) /\ ~attempt'[a].well
      /\ attempt'[a].holds = attempt[a].holds
  <2>1. CancelledAt(attempt[a].pc) \in Pcs /\ CancelledAt(attempt[a].pc) # "absent"
    BY <1>2 DEF Pcs, Materializing, Ended, Threads
  <2> QED
    BY <2>1, Here, SpoilMoves DEF Cancel
<1>4. /\ \/ /\ Locks(a) /\ AtStep(a, "failed")' /\ lock' = 0 /\ stale' = FALSE
            /\ temps' = temps \ {a}
         \/ /\ attempt[a].pc \in {"lock", "point", "open", "fill", "revalidate"}
            /\ AtStep(a, "failed")' /\ UNCHANGED <<lock, stale, temps>>
         \/ /\ AtStep(a, "failed") /\ AtStep(a, "cut")' /\ UNCHANGED <<lock, stale, temps>>
         \/ /\ AtStep(a, "failing") /\ AtStep(a, "cutting")' /\ UNCHANGED <<lock, stale, temps>>
         \/ /\ attempt[a].pc \in {"clearing", "removing"}
            /\ AtStep(a, "severed")' \/ AtStep(a, "outlived")'
            /\ UNCHANGED <<lock, stale, temps>>
         \/ /\ attempt[a].pc \in {"begin", "clear", "mkdir", "use", "record", "remove"}
            /\ AtStep(a, "error")' /\ UNCHANGED <<lock, stale, temps>>
      /\ failures' = failures + 1 /\ UNCHANGED <<dir, target, server, inactive, receipts, three>>
  BY <1>1, <1>3 DEF Cancel, CancelledAt, Locks, AtStep, Live, Ended, Pcs, Materializing, Threads,
     Unlock, Drop, Failure
<1>5. FilesTypeOK' /\ DirectoryOK'
  <2>1. target' \in {"none", "whole", "partial"} /\ failures' \in Nat
    BY <1>4, Here DEF FilesTypeOK
  <2>2. temps' \subseteq Attempts
    BY <1>4, Here DEF FilesTypeOK
  <2>3. lock' \in Nat
    BY <1>4, Here DEF FilesTypeOK
  <2>4. stale' \in BOOLEAN
    BY <1>4, Here DEF FilesTypeOK
  <2> QED
    BY <1>3, <1>4, <2>1, <2>2, <2>3, <2>4, Here DEF FilesTypeOK, DirectoryOK, Moves
<1>6. PlaceOK(a)'
  BY <1>3, <1>4, Here DEF PlaceOK, Moves, AtStep, Locks, Materializing
<1>7. FoundOK(a)'
  BY <1>3, <1>4, Here, DirectoryValues DEF FoundOK, PlaceOK, Moves, AtStep, Locks
<1>8. WellOK(a)'
  BY <1>3 DEF WellOK
<1>9. /\ lock' # 0 => (lock' = a /\ Locks(a)') \/ (lock' = lock /\ ~Locks(a))
                        \/ (lock' = lock /\ Locks(a)')
      /\ temps' \subseteq temps \cup {a} /\ (a \in temps' => AtStep(a, "fetch")')
      /\ target' = "partial" => Removes(a)' \/ (target = "partial" /\ ~Removes(a))
  BY <1>4 DEF Removes, Locks, AtStep, FilesInv, TempsOK
<1>10. ~NoCleanupCut' \/ ~AtStep(a, "cut")'
  BY DEF NoCleanupCut
<1>11. NoCleanupCut' /\ Torn' => \/ AnswersForContext(a)'
                                   \/ /\ Torn /\ dir'.context = dir.context
                                      /\ ~AnswersForContext(a)
  <2> SUFFICES ASSUME NoCleanupCut', Torn', AnswersForContext(a) PROVE AnswersForContext(a)'
    BY <1>4 DEF Torn, AtStep
  <2>1. attempt[a].holds /\ attempt[a].pc \in {"point", "open", "fill"}
    BY <1>4, <1>10, Here DEF AnswersForContext, AtStep, Locks, PlaceOK
  <2> QED
    BY <1>3, <1>4, <2>1 DEF AnswersForContext, AtStep, Locks
<1>12. attempt[a].alone /\ NoCleanupCut' /\ Pointed(a) => Pointed(a)'
  BY <1>3, <1>4, <1>10 DEF Pointed, Owns, AtStep, Locks
<1>13. inactive /\ NoCleanupCut' /\ (dir.present => AnswersForDirectory(a))
         => (dir'.present => AnswersForDirectory(a)')
  BY <1>3, <1>4, <1>10, Here DEF AnswersForDirectory, PlaceOK, AtStep, Locks
<1>14. ~AtStep(a, "done")' /\ (inactive => inactive') /\ server' = server /\ three' = three
  BY <1>2, <1>3, <1>4 DEF AtStep
<1> QED
  BY <1>1, <1>3, <1>5, <1>6, <1>7, <1>8, <1>9, <1>11, <1>12, <1>13, <1>14 DEF Turn

LEMMA StepKeepsInv ==
  ASSUME FilesInv, NEW a \in Attempts,
         Step(a) \/ CheckoutFails(a) \/ InspectionFails(a) \/ Cancel(a)
  PROVE  FilesInv'
<1>1. Turn(a)
  BY BeginIsTurn, ClearIsTurn, ClearingIsTurn, MakeDirectoryIsTurn, AcquireLockIsTurn,
     InspectIsTurn, RenameIsTurn, WritePointerIsTurn, OpenContextIsTurn, FillContextIsTurn,
     RevalidateIsTurn, CleanupIsTurn, FinishCleanupIsTurn, UseIsTurn, RecordIsTurn,
     RecordTerminalIsTurn, RemoveArtifactsIsTurn, FinishRemovalIsTurn, FinishThreadIsTurn,
     CheckoutFailsIsTurn, InspectionFailsIsTurn, CancelIsTurn DEF Step
<1> QED
  BY <1>1, TurnKeepsInv

-----------------------------------------------------------------------------
(* Temporal and the environment *)

\* Every attempt stays where it is and the files stay as they are.
LEMMA SamePlacesKeepInv ==
  ASSUME FilesInv, FilesTypeOK', WaitsOK', Over' => Over, inactive => inactive',
         UNCHANGED <<dir, target, temps, lock, three>>,
         \A b \in Attempts : /\ attempt'[b].pc = attempt[b].pc
                             /\ attempt'[b].stage = attempt[b].stage
                             /\ attempt'[b].holds = attempt[b].holds
                             /\ attempt'[b].alone = attempt[b].alone
                             /\ attempt'[b].saw = attempt[b].saw
                             /\ attempt'[b].well => attempt[b].well
  PROVE  FilesInv'
<1>1. /\ \A b \in Attempts : Live(b)' <=> Live(b)
      /\ \A b \in Attempts : Locks(b)' <=> Locks(b)
      /\ \A b \in Attempts : Removes(b)' <=> Removes(b)
      /\ \A b \in Attempts : AnswersForContext(b)' <=> AnswersForContext(b)
      /\ \A b \in Attempts : AnswersForDirectory(b)' <=> AnswersForDirectory(b)
      /\ \A b \in Attempts : Owns(b)' <=> Owns(b)
  BY DEF Live, Locks, Removes, AnswersForContext, AnswersForDirectory, Owns, AtStep
<1>2. (NoCleanupCut' <=> NoCleanupCut) /\ (NobodyWorks' <=> NobodyWorks)
  BY <1>1 DEF NoCleanupCut, NobodyWorks, AtStep
<1>3. OneAtATime' <=> OneAtATime
  BY DEF OneAtATime, Started
<1>4. DirectoryOK' /\ LockOK' /\ TempsOK' /\ PartialOK' /\ AloneOK' /\ ThreeOK'
  <2>1. DirectoryOK' /\ LockOK'
    BY <1>1 DEF FilesInv, DirectoryOK, LockOK
  <2>2. TempsOK'
    BY DEF FilesInv, FilesTypeOK, TempsOK, AtStep
  <2>3. PartialOK' /\ AloneOK' /\ ThreeOK'
    BY <1>1 DEF FilesInv, PartialOK, AloneOK, ThreeOK
  <2> QED
    BY <2>1, <2>2, <2>3
<1>5. ASSUME NEW b \in Attempts PROVE PlaceOK(b)' /\ FoundOK(b)' /\ WellOK(b)'
  <2>1. PlaceOK(b) /\ FoundOK(b) /\ WellOK(b)
    BY DEF FilesInv
  <2>2. PlaceOK(b)'
    BY <2>1 DEF PlaceOK, AtStep
  <2>3. FoundOK(b)'
    BY <2>1 DEF FoundOK, AtStep
  <2>4. WellOK(b)'
    BY <1>2, <2>1 DEF WellOK, WellPlaced, AtStep
  <2> QED
    BY <2>2, <2>3, <2>4
<1>6. ContextOK' /\ PointerOK'
  BY <1>1, <1>2, <1>3 DEF FilesInv, ContextOK, PointerOK, Torn
<1>7. OverOK'
  <2> SUFFICES ASSUME Over' PROVE OverOK'
    BY DEF OverOK
  <2>1. OverOK /\ Over
    BY DEF FilesInv
  <2> QED
    BY <1>1, <1>2, <1>3, <2>1 DEF OverOK
<1> QED
  BY <1>4, <1>5, <1>6, <1>7 DEF FilesInv

\* Temporal never waits after the end, and goes on to a stage that is not the end.
LEMMA ProceedGoesOn ==
  ASSUME FilesInv, server.waits # 0, Proceed
  PROVE  /\ server' \in [stage : Stages \cup {"ended"}, waits : Attempts \cup {0}]
         /\ server'.waits = 0 /\ server'.stage # "ended"
<1>1. server.waits \in Attempts /\ server.stage = attempt[server.waits].stage
  BY DEF FilesInv, FilesTypeOK, WaitsOK
<1>2. server.stage \in Stages
  BY <1>1 DEF FilesInv, FilesTypeOK, Attempt
<1>3. PICK s \in {server.stage, "terminal"} : server' = [stage |-> s, waits |-> 0]
  BY DEF Proceed
<1> QED
  BY <1>2, <1>3 DEF Stages

LEMMA AnswerKeepsInv == ASSUME FilesInv, Answer PROVE FilesInv'
<1>1. server.waits # 0 /\ UNCHANGED <<files, attempt, inactive, receipts, three, failures>>
  BY DEF Answer
<1>2. /\ server' \in [stage : Stages \cup {"ended"}, waits : Attempts \cup {0}] /\ server'.waits = 0
      /\ server'.stage = "ended" => server.stage = "terminal" /\ AtStep(server.waits, "done")
  <2>1. CASE Proceed
    BY <1>1, <2>1, ProceedGoesOn
  <2>2. CASE AtStep(server.waits, "done")
    <3>1. server.waits \in Attempts /\ server.stage = attempt[server.waits].stage
      BY <1>1 DEF FilesInv, FilesTypeOK, WaitsOK
    <3>2. server.stage \in Stages
      BY <3>1 DEF FilesInv, FilesTypeOK, Attempt
    <3>3. CASE server.stage = "terminal" /\ server' = [stage |-> "ended", waits |-> 0]
      BY <2>2, <3>3
    <3>4. CASE server.stage # "terminal" /\ server' = [stage |-> After[server.stage], waits |-> 0]
      BY <3>2, <3>4 DEF After, Stages
    <3>5. CASE server' = [stage |-> "terminal", waits |-> 0]
      BY <3>5 DEF Stages
    <3>6. attempt[server.waits].pc \notin {"error", "cut"} \cup Threads
      BY <2>2 DEF AtStep, Threads
    <3> QED
      BY <3>3, <3>4, <3>5, <3>6 DEF Answer
  <2> QED
    BY <2>1, <2>2 DEF Answer
<1>3. FilesTypeOK' /\ WaitsOK'
  BY <1>1, <1>2 DEF FilesInv, FilesTypeOK, WaitsOK, files
<1>4. Over' => Over
  BY <1>1, <1>2 DEF Over, AtStep
<1> QED
  BY <1>1, <1>3, <1>4, SamePlacesKeepInv DEF files

LEMMA AbandonKeepsInv == ASSUME FilesInv, NEW a \in Attempts, Abandon(a) PROVE FilesInv'
<1>1. /\ server.waits = a /\ a # 0 /\ failures' = failures + 1
      /\ UNCHANGED <<files, inactive, receipts, three>>
  BY AttemptsAreNumbers DEF Abandon, Failure
<1>2. /\ Moves(a) /\ attempt'[a].pc = attempt[a].pc
      /\ attempt'[a].holds = attempt[a].holds /\ attempt'[a].saw = attempt[a].saw
  <2>1. attempt[a].pc \in Pcs /\ attempt[a].pc # "absent"
    BY Here DEF Abandon, AtWork, Live, Attempt
  <2> QED
    BY <2>1, Here, SpoilMoves DEF Abandon
<1>3. /\ server' \in [stage : Stages \cup {"ended"}, waits : Attempts \cup {0}]
      /\ server'.waits = 0 /\ server'.stage # "ended"
  BY <1>1, ProceedGoesOn DEF Abandon
<1>4. FilesTypeOK' /\ WaitsOK' /\ (Over' => Over)
  <2>1. failures' \in Nat
    BY <1>1, Here DEF FilesTypeOK
  <2> QED
    BY <1>1, <1>2, <1>3, <2>1, Here DEF FilesTypeOK, WaitsOK, Over, files, Moves
<1> QED
  BY <1>1, <1>2, <1>4, SamePlacesKeepInv DEF Moves, files

LEMMA LockAgesKeepsInv == ASSUME FilesInv, LockAges PROVE FilesInv'
<1>1. /\ stale' \in BOOLEAN /\ failures' = failures + 1
      /\ UNCHANGED <<dir, target, temps, lock, attempt, server, inactive, receipts, three>>
  BY DEF LockAges, Failure
<1>2. FilesTypeOK' /\ WaitsOK' /\ (Over' => Over)
  BY <1>1 DEF FilesInv, FilesTypeOK, WaitsOK, Over, AtStep
<1> QED
  BY <1>1, <1>2, SamePlacesKeepInv

LEMMA HeadMovesKeepsInv == ASSUME FilesInv, HeadMoves PROVE FilesInv'
<1>1. /\ inactive' \in BOOLEAN /\ inactive' /\ failures' = failures + 1
      /\ UNCHANGED <<files, attempt, server, receipts, three>>
  BY DEF HeadMoves, Failure
<1>2. FilesTypeOK' /\ WaitsOK' /\ (Over' => Over)
  BY <1>1 DEF FilesInv, FilesTypeOK, WaitsOK, Over, AtStep, files
<1> QED
  BY <1>1, <1>2, SamePlacesKeepInv DEF files

LEMMA RestartKeepsInv == ASSUME FilesInv, Restart PROVE FilesInv'
<1>1. /\ dir' = NoDirectory /\ target' = "none" /\ temps' = {} /\ lock' = 0 /\ stale' \in BOOLEAN
      /\ failures' = failures + 1 /\ UNCHANGED <<server, inactive, receipts, three>>
  <2>1. stale' = FALSE
    BY DEF Restart
  <2> QED
    BY <2>1 DEF Restart, Failure
<1>2. /\ attempt' \in [Attempts -> Attempt]
      /\ \A b \in Attempts : ~Live(b) => attempt'[b] = attempt[b]
      /\ \A b \in Attempts : Live(b) => /\ attempt'[b].pc = "error" /\ ~attempt'[b].well
                                        /\ attempt'[b].stage = attempt[b].stage
                                        /\ attempt'[b].alone = attempt[b].alone
  <2>1. \A b \in Attempts : attempt[b] \in Attempt
    BY DEF FilesInv, FilesTypeOK
  <2>2. \A b \in Attempts :
          /\ Killed(b) \in Attempt /\ Killed(b).pc = "error" /\ ~Killed(b).well
          /\ Killed(b).stage = attempt[b].stage /\ Killed(b).alone = attempt[b].alone
    BY <2>1 DEF Killed, Attempt, Pcs, Ended
  <2>3. attempt' = [b \in Attempts |-> IF Live(b) THEN Killed(b) ELSE attempt[b]]
    BY DEF Restart
  <2>4. attempt' \in [Attempts -> Attempt]
    BY <2>1, <2>2, <2>3
  <2> QED
    BY <2>2, <2>3, <2>4
<1>3. FilesTypeOK' /\ DirectoryOK' /\ LockOK' /\ TempsOK' /\ PartialOK'
  BY <1>1, <1>2, DirectoryValues
     DEF FilesInv, FilesTypeOK, DirectoryOK, LockOK, TempsOK, PartialOK
<1>4. WaitsOK'
  <2>1. server.waits \in Attempts \cup {0} /\ WaitsOK
    BY DEF FilesInv, FilesTypeOK
  <2> QED
    BY <1>1, <1>2, <2>1 DEF WaitsOK, AtStep
<1>5. NobodyWorks' /\ AloneOK' /\ ThreeOK'
  BY <1>2 DEF NobodyWorks, AloneOK, ThreeOK, Live, Ended
<1>6. NoCleanupCut' => NoCleanupCut
  BY <1>2 DEF NoCleanupCut, AtStep, Live, Ended
<1>7. ASSUME NEW b \in Attempts PROVE PlaceOK(b)' /\ FoundOK(b)' /\ WellOK(b)'
  <2>1. PlaceOK(b) /\ WellOK(b)
    BY DEF FilesInv
  <2>2. CASE Live(b)
    BY <1>2, <2>2 DEF PlaceOK, FoundOK, WellOK, AtStep, Materializing
  <2>3. CASE ~Live(b)
    <3>1. attempt'[b] = attempt[b] /\ inactive' = inactive
      BY <1>1, <1>2, <2>3
    <3>2. PlaceOK(b)' /\ FoundOK(b)'
      BY <2>1, <2>3, <3>1 DEF PlaceOK, FoundOK, Live, Ended, AtStep
    <3>3. WellOK(b)'
      BY <1>6, <2>1, <2>3, <3>1 DEF WellOK, WellPlaced, Live, Ended, AtStep
    <3> QED
      BY <3>2, <3>3
  <2> QED
    BY <2>2, <2>3
<1>8. ContextOK' /\ PointerOK'
  BY <1>1 DEF ContextOK, PointerOK, Torn
<1>9. OverOK'
  <2> SUFFICES ASSUME Over' PROVE OverOK'
    BY DEF OverOK
  <2>1. server.waits \in Attempts \cup {0}
    BY DEF FilesInv, FilesTypeOK
  <2>2. Over
    BY <1>1, <1>2, <2>1, AttemptsAreNumbers DEF Over, AtStep
  <2>3. inactive'
    BY <1>1, <2>2 DEF FilesInv, OverOK
  <2> QED
    BY <1>1, <1>5, <2>3, DirectoryValues DEF OverOK, NobodyWorks
<1> QED
  BY <1>3, <1>4, <1>5, <1>7, <1>8, <1>9 DEF FilesInv

LEMMA StartAttemptKeepsInv == ASSUME FilesInv, StartAttempt PROVE FilesInv'
<1>1. PICK a \in Attempts :
        /\ Started = 1 .. a - 1
        /\ attempt' = [b \in Attempts |-> IF b = a THEN New ELSE IF Live(b) THEN Joined(b)
                                                                ELSE attempt[b]]
        /\ server' = [server EXCEPT !.waits = a]
  BY DEF StartAttempt
<1>2. /\ UNCHANGED <<dir, target, temps, lock, stale, inactive, receipts, failures>>
      /\ server.stage # "ended" /\ (three => three') /\ three' \in BOOLEAN
      /\ ~three' => \A b, c \in Attempts : Live(b) /\ Live(c) => b = c
  BY DEF StartAttempt, files, FilesInv, FilesTypeOK
<1>3. attempt[a].pc = "absent" /\ a # 0
  <2>1. a \notin Started
    BY <1>1, AttemptsAreNumbers
  <2> QED
    BY <2>1, AttemptsAreNumbers DEF Started
<1>4. /\ server' \in [stage : Stages \cup {"ended"}, waits : Attempts \cup {0}]
      /\ server'.stage = server.stage /\ server'.waits = a /\ server.stage \in Stages
  BY <1>1, <1>2 DEF FilesInv, FilesTypeOK
<1>5. /\ New \in Attempt /\ New.stage = server.stage /\ New.pc = "begin" /\ ~New.holds
      /\ New.saw = "nothing" /\ (New.alone => \A c \in Attempts : ~Live(c))
  <2>1. NobodyWorks \in BOOLEAN
    BY DEF NobodyWorks
  <2>2. /\ New \in Attempt /\ New.stage = server.stage /\ New.pc = "begin" /\ ~New.holds
        /\ New.saw = "nothing" /\ New.alone = NobodyWorks
    BY <1>4, <2>1 DEF New, NotStarted, Attempt, Pcs
  <2> QED
    BY <2>2 DEF NobodyWorks
<1>6. \A b \in Attempts : /\ Joined(b) \in Attempt /\ ~Joined(b).alone
                          /\ Joined(b).pc = attempt[b].pc /\ Joined(b).stage = attempt[b].stage
                          /\ Joined(b).holds = attempt[b].holds /\ Joined(b).well = attempt[b].well
  <2>1. \A b \in Attempts : attempt[b] \in Attempt
    BY DEF FilesInv, FilesTypeOK
  <2> QED
    BY <2>1 DEF Joined, Attempt
<1>7. attempt' \in [Attempts -> Attempt] /\ attempt'[a] = New
  BY <1>1, <1>5, <1>6 DEF FilesInv, FilesTypeOK
<1>8. \A b \in Attempts : b # a =>
        /\ attempt'[b].pc = attempt[b].pc /\ attempt'[b].stage = attempt[b].stage
        /\ attempt'[b].holds = attempt[b].holds /\ attempt'[b].well = attempt[b].well
        /\ attempt'[b].alone => attempt'[b] = attempt[b] /\ ~Live(b)
  BY <1>1, <1>6 DEF Live
<1>9. \A b \in Attempts : Live(b)' => b = a \/ Live(b)
  BY <1>8 DEF Live
<1>10. FilesTypeOK' /\ DirectoryOK'
  BY <1>2, <1>4, <1>7 DEF FilesInv, FilesTypeOK, DirectoryOK
<1>11. /\ \A b \in Attempts : Locks(b) => Locks(b)'
       /\ \A b \in Attempts : Removes(b) => Removes(b)'
       /\ \A b \in Attempts : Owns(b) => Owns(b)'
       /\ \A b \in Attempts : AnswersForContext(b) => AnswersForContext(b)'
  BY <1>2, <1>3, <1>8 DEF Locks, Removes, Owns, AnswersForContext, AtStep
<1>12. LockOK' /\ TempsOK' /\ PartialOK'
  <2>1. LockOK' /\ PartialOK'
    BY <1>2, <1>11 DEF FilesInv, LockOK, PartialOK
  <2>2. TempsOK'
    BY <1>2, <1>3, <1>8 DEF FilesInv, FilesTypeOK, TempsOK, AtStep
  <2> QED
    BY <2>1, <2>2
<1>13. WaitsOK'
  BY <1>4, <1>5, <1>7 DEF WaitsOK, AtStep
<1>14. AloneOK'
  <2> SUFFICES ASSUME NEW b \in Attempts, NEW c \in Attempts,
                      attempt'[b].alone, Live(b)', Live(c)'
               PROVE  b = c
    BY DEF AloneOK
  <2>1. b = a
    BY <1>8, <1>9
  <2>2. c = a
    BY <1>5, <1>7, <1>9, <2>1
  <2> QED
    BY <2>1, <2>2
<1>15. ThreeOK'
  BY <1>2, <1>9 DEF ThreeOK
<1>16. NoCleanupCut' => NoCleanupCut
  BY <1>3, <1>8 DEF NoCleanupCut, AtStep
<1>17. ASSUME NEW b \in Attempts PROVE PlaceOK(b)' /\ FoundOK(b)' /\ WellOK(b)'
  <2>1. CASE b = a
    BY <1>5, <1>7, <2>1 DEF PlaceOK, FoundOK, WellOK, WellPlaced, AtStep, Materializing
  <2>2. CASE b # a
    <3>1. PlaceOK(b) /\ FoundOK(b) /\ WellOK(b)
      BY DEF FilesInv
    <3>2. PlaceOK(b)'
      BY <1>2, <1>8, <2>2, <3>1 DEF PlaceOK, AtStep
    <3>3. FoundOK(b)'
      BY <1>2, <1>8, <2>2, <3>1 DEF FoundOK, AtStep
    <3>4. WellOK(b)'
      BY <1>2, <1>8, <1>16, <2>2, <3>1 DEF WellOK, WellPlaced, AtStep
    <3> QED
      BY <3>2, <3>3, <3>4
  <2> QED
    BY <2>1, <2>2
<1>18. ContextOK'
  BY <1>2, <1>11, <1>16 DEF FilesInv, ContextOK, Torn
<1>19. PointerOK'
  <2>1. OneAtATime' => OneAtATime
    BY <1>3, <1>8 DEF OneAtATime, Started
  <2> QED
    BY <1>2, <1>11, <1>16, <2>1 DEF FilesInv, PointerOK
<1>20. OverOK'
  <2>1. ~Over'
    BY <1>2, <1>4, <1>5, <1>7 DEF Over, AtStep
  <2> QED
    BY <2>1 DEF OverOK
<1> QED
  BY <1>10, <1>12, <1>13, <1>14, <1>15, <1>17, <1>18, <1>19, <1>20 DEF FilesInv

LEMMA FilesInitInv == FilesInit => FilesInv
<1> SUFFICES ASSUME FilesInit PROVE FilesInv
  OBVIOUS
<1>1. /\ dir = NoDirectory /\ target = "none" /\ temps = {} /\ lock = 0 /\ receipts = {}
      /\ failures = 0 /\ server = [stage |-> "select", waits |-> 0]
  BY DEF FilesInit
<1>2. stale \in BOOLEAN /\ inactive \in BOOLEAN /\ three \in BOOLEAN
  BY DEF FilesInit
<1>3. NotStarted \in Attempt /\ NotStarted.pc = "absent" /\ NotStarted.saw = "nothing"
  BY DEF NotStarted, Attempt, Stages, Pcs
<1>4. attempt \in [Attempts -> Attempt] /\ \A b \in Attempts : attempt[b] = NotStarted
  BY <1>3 DEF FilesInit
<1>5. \A b \in Attempts : attempt[b].pc = "absent" /\ attempt[b].saw = "nothing" /\ ~Live(b)
  BY <1>3, <1>4 DEF Live
<1>6. FilesTypeOK
  BY <1>1, <1>2, <1>4, DirectoryValues DEF FilesTypeOK, Stages
<1>7. DirectoryOK /\ LockOK /\ TempsOK /\ PartialOK /\ WaitsOK
  BY <1>1 DEF DirectoryOK, LockOK, TempsOK, PartialOK, WaitsOK
<1>8. AloneOK /\ ThreeOK
  BY <1>5 DEF AloneOK, ThreeOK
<1>9. \A b \in Attempts : PlaceOK(b) /\ FoundOK(b) /\ WellOK(b)
  BY <1>5 DEF PlaceOK, FoundOK, WellOK, WellPlaced, AtStep, Materializing
<1>10. ContextOK /\ PointerOK /\ OverOK
  BY <1>1 DEF ContextOK, PointerOK, OverOK, Over, Torn
<1> QED
  BY <1>6, <1>7, <1>8, <1>9, <1>10 DEF FilesInv

LEMMA FilesNextInv == FilesInv /\ [FilesNext]_fileVars => FilesInv'
<1> SUFFICES ASSUME FilesInv, [FilesNext]_fileVars PROVE FilesInv'
  OBVIOUS
<1>1. CASE UNCHANGED fileVars
  <2>1. UNCHANGED <<dir, target, temps, lock, stale, attempt, server, inactive, receipts, three,
                    failures>>
    BY <1>1 DEF fileVars
  <2>2. FilesTypeOK' /\ WaitsOK' /\ (Over' => Over)
    BY <2>1 DEF FilesInv, FilesTypeOK, WaitsOK, Over, AtStep
  <2> QED
    BY <2>1, <2>2, SamePlacesKeepInv
<1>2. CASE FilesNext
  BY <1>2, StartAttemptKeepsInv, AnswerKeepsInv, LockAgesKeepsInv, HeadMovesKeepsInv,
     RestartKeepsInv, AbandonKeepsInv, StepKeepsInv DEF FilesNext, Disturbance
<1> QED
  BY <1>1, <1>2

LEMMA FilesInvariant == FilesSpec => []FilesInv
  BY FilesInitInv, FilesNextInv, PTL DEF FilesSpec

-----------------------------------------------------------------------------
(* What follows for the files of a run *)

\* Workspace: what an attempt left behind (a directory, a checkout, a lock) never costs a
\* later attempt that works alone and meets no failure of its own (operations.py:269-311,
\* checkout.py:122-129).
THEOREM LeftoversCostNothing == FilesSpec => []LeftoversNeverBlock
<1>1. FilesInv => LeftoversNeverBlock
  BY DEF FilesInv, WellOK, WellPlaced, LeftoversNeverBlock
<1> QED
  BY <1>1, FilesInvariant, PTL

\* Workspace: such an attempt never works on a context that is half written or on a
\* checkout that is half removed, as long as no cleanup was itself cut short.
THEOREM LeftoversAreNotUsed == FilesSpec => []LeftoversNeverRead
<1>1. FilesInv => LeftoversNeverRead
  BY DEF FilesInv, WellOK, WellPlaced, LeftoversNeverRead
<1> QED
  BY <1>1, FilesInvariant, PTL

\* Workspace: once the run is recorded as terminal and everybody is through, neither the
\* lock nor a temporary copy is left; nor a directory, unless three attempts were at work at
\* once; nor a checkout, unless two were (operations.py:257-267, 354-365).
THEOREM TerminalRunLeavesNothing == FilesSpec => []TerminalLeavesNothing
<1>1. FilesInv => TerminalLeavesNothing
  <2> SUFFICES ASSUME FilesInv, server.stage = "ended", NobodyWorks, NoCleanupCut
               PROVE  /\ temps = {} /\ lock = 0
                      /\ ~three => dir = NoDirectory
                      /\ OneAtATime => target = "none"
    BY DEF TerminalLeavesNothing
  <2>1. \A a \in Attempts : ~Live(a)
    BY DEF NobodyWorks
  <2>2. \A a \in Attempts : ~Locks(a) /\ ~AtStep(a, "fetch") /\ ~AnswersForDirectory(a)
    BY <2>1 DEF Locks, AnswersForDirectory, AtStep, Live, Ended
  <2>3. temps = {} /\ lock = 0
    BY <2>2 DEF FilesInv, FilesTypeOK, TempsOK, LockOK
  <2>4. OverOK /\ Over
    BY DEF FilesInv, Over
  <2>5. ~three => ~dir.present
    BY <2>2, <2>4 DEF OverOK
  <2>6. ~three => dir = NoDirectory
    BY <2>5 DEF FilesInv, DirectoryOK
  <2>7. OneAtATime => target = "none"
    BY <2>4 DEF OverOK
  <2> QED
    BY <2>3, <2>6, <2>7
<1> QED
  BY <1>1, FilesInvariant, PTL
=============================================================================
