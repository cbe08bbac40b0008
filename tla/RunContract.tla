----------------------------- MODULE RunContract -----------------------------
(***************************************************************************)
(* What the platform promises about the state of one review run: the run  *)
(* state machine of packages/contracts (RunState, TERMINAL_RUN_STATES and  *)
(* _ALLOWED_TRANSITIONS), for a set of runs that are created queued and    *)
(* then move one transition at a time.  The database code never calls      *)
(* require_transition: ReviewLifecycle shows that its guards imply it.     *)
(***************************************************************************)

CONSTANT Runs            \* the identities of the runs

VARIABLE state           \* state[r]: Absent before the run row is inserted

\* The five states in which a review may still make progress.
ActiveStates ==
  {"queued", "selecting_context", "analyzing", "verifying", "awaiting_approval"}

\* TERMINAL_RUN_STATES.
TerminalStates == {"published", "rejected", "failed", "cancelled"}

RunState == ActiveStates \cup TerminalStates

Absent == "absent"

\* The stage after each state that only success leads to.
Successors ==
  [queued            |-> {"selecting_context"},
   selecting_context |-> {"analyzing"},
   analyzing         |-> {"verifying"},
   verifying         |-> {"awaiting_approval"},
   awaiting_approval |-> {"published", "rejected"}]

\* _ALLOWED_TRANSITIONS: every active state may also fail or be cancelled and
\* no transition leaves a terminal state.
Allowed(s) ==
  IF s \in ActiveStates THEN Successors[s] \cup {"failed", "cancelled"} ELSE {}

Init == state = [r \in Runs |-> Absent]

Create(r) ==
  /\ state[r] = Absent
  /\ state' = [state EXCEPT ![r] = "queued"]

Move(r) ==
  /\ state[r] # Absent
  /\ \E s \in Allowed(state[r]) : state' = [state EXCEPT ![r] = s]

Next == \E r \in Runs : Create(r) \/ Move(r)

Spec == Init /\ [][Next]_state
=============================================================================
