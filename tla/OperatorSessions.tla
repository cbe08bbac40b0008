-------------------------- MODULE OperatorSessions --------------------------
(***************************************************************************)
(* Sign-in, bearer rotation, logout and revocation of operators            *)
(* (auth/sessions.py, auth/routes.py) with the single-flight permission    *)
(* check of auth/github.py, as the requests of one API process interleave. *)
(*                                                                         *)
(* A request reads its session, asks GitHub without holding anything, and  *)
(* acts on what it read: meanwhile the bearer may be rotated, deleted or   *)
(* its user revoked.  Transactions that wait for a row or an advisory lock *)
(* are two steps, the others one.                                          *)
(***************************************************************************)
EXTENDS Integers, FiniteSets

CONSTANTS
  Users,        \* GitHub users of the allowlist
  Admins,       \* those of them the settings name administrators
  MaxRequests,  \* bound: requests
  MaxChanges,   \* bound: changes of permissions on GitHub
  MaxFaults     \* bound: expired sessions, restarts of the process

ASSUME SessionsAssumption ==
  /\ IsFiniteSet(Users) /\ Admins \subseteq Users
  /\ {MaxRequests, MaxChanges, MaxFaults} \subseteq Nat

Requests == 1 .. MaxRequests
Tokens == 1 .. Cardinality(Users) + MaxRequests   \* a request issues one bearer at most
Kinds == {"use", "rotate", "revoke", "logout"}

VARIABLES
  user,      \* github_users: "none", "enabled" or "disabled"
  session,   \* session[t]: the row of browser_sessions with this bearer
  made,      \* bearers issued so far
  ended,     \* logins whose row was deleted
  granted,   \* users to whom GitHub grants the installation now
  flight,    \* flight[l]: the request that leads the check of a login's GitHub token
  locked,    \* the request that holds the advisory lock of user access
  writing,   \* writing[u]: the request whose transaction holds the row of the user
  req,       \* what each request does
  changes,
  faults

db == <<user, session, made, ended, writing, locked>>
world == <<granted, changes, faults>>
vars == <<db, world, flight, req>>

-----------------------------------------------------------------------------
(* Values *)

\* The GitHub token a login encrypts into its row stays the same when the bearer rotates, so a
\* login, named by its first bearer, also stands for that token.
NoSession == [user |-> "", login |-> 0]
NoRequest == 0

\* granted: GitHub granted access at some time since the check began that the request leads or
\* joined.  dead: its bearer was no longer valid when the check ended.
Unused == [pc |-> "unused", kind |-> "use", token |-> 0, user |-> "", login |-> 0,
           target |-> "", enable |-> FALSE, seen |-> FALSE, granted |-> FALSE, dead |-> FALSE]

At(r, pc) == req[r].pc = pc
\* Whether a request that is over was answered or refused makes no difference to the others.
To(r, pc) == req' = [req EXCEPT ![r] = IF pc = "over" THEN [Unused EXCEPT !.pc = "over"]
                                       ELSE [@ EXCEPT !.pc = pc]]
Busy(r) == ~(req[r].pc \in {"unused", "over"} \/ (At(r, "authorized") /\ req[r].kind = "use"))
Live(t) == t # 0 /\ session[t] # NoSession /\ user[session[t].user] = "enabled"
Checking(r) == req[r].pc \in {"leading", "read", "following"}

Fault == faults < MaxFaults /\ faults' = faults + 1

\* Deleting rows of sessions ends their logins.
Deleted(ts) == [t \in Tokens |-> IF t \in ts THEN NoSession ELSE session[t]]
EndedWith(ts) == ended \cup ({session[t].login : t \in ts} \ {0})

-----------------------------------------------------------------------------
(* Requests: begin, and the arrival of a request with a bearer it was once given *)

Fresh(r) == At(r, "unused") /\ \A q \in 1 .. r - 1 : ~At(q, "unused")

\* A login begins in a browser that may have a session; its attempt is a row of its own.
Begin(r) ==
  /\ Fresh(r)
  /\ \E u \in Users, previous \in 0 .. made :
       req' = [req EXCEPT ![r] = [Unused EXCEPT !.pc = "begun", !.kind = "login", !.user = u,
                                                !.token = previous]]
  /\ UNCHANGED <<db, world, flight>>

\* finish consumes the attempt, unless five minutes are over.
Callback(r) ==
  /\ At(r, "begun") /\ (To(r, "exchange") \/ To(r, "over"))
  /\ UNCHANGED <<db, world, flight>>

Arrive(r) ==
  /\ Fresh(r)
  /\ \E k \in Kinds, t \in 1 .. made :
       \E u \in IF k = "revoke" THEN Users ELSE {""}, e \in IF k = "revoke" THEN BOOLEAN ELSE {FALSE} :
         req' = [req EXCEPT ![r] = [Unused EXCEPT !.pc = "session", !.kind = k, !.token = t,
                                                  !.target = u, !.enable = e]]
  /\ UNCHANGED <<db, world, flight>>

-----------------------------------------------------------------------------
(* authorize *)

\* Whom the settings allow what the request asks for.
Allowed(k, u) == IF k = "revoke" THEN u \in Admins ELSE u \in Users

\* session, the role, and the CSRF token, which a page may hold of an older bearer.
ReadSession(r) ==
  /\ At(r, "session")
  /\ LET t == req[r].token IN
       \/ /\ Live(t) /\ Allowed(req[r].kind, session[t].user)
          /\ req' = [req EXCEPT ![r].pc = IF req[r].kind = "logout" THEN "deleting" ELSE "access",
                                ![r].user = session[t].user, ![r].login = session[t].login]
       \/ (~Live(t) \/ req[r].kind # "use" \/ ~Allowed(req[r].kind, session[t].user)) /\ To(r, "over")
  /\ UNCHANGED <<db, world, flight>>

\* Only overlapping checks of one token share a result.
Lead(r) ==
  /\ At(r, "access") /\ flight[req[r].login] = NoRequest
  /\ flight' = [flight EXCEPT ![req[r].login] = r]
  /\ req' = [req EXCEPT ![r].pc = "leading", ![r].granted = req[r].user \in granted]
  /\ UNCHANGED <<db, world>>

Follow(r) ==
  /\ At(r, "access") /\ flight[req[r].login] # NoRequest
  /\ LET leader == flight[req[r].login] IN
       req' = [req EXCEPT ![r].pc = "following",
                          ![r].granted = req[r].user \in granted \/ (Checking(leader) /\ req[leader].granted)]
  /\ UNCHANGED <<db, world, flight>>

\* _access reads the user, the installations and the repositories; any of them may fail.
ReadGitHub(r) ==
  /\ At(r, "leading")
  /\ \E answer \in {req[r].user \in granted, FALSE} :
       req' = [req EXCEPT ![r].pc = "read", ![r].seen = answer]
  /\ UNCHANGED <<db, world, flight>>

Landed(r, who) ==
  req' = [q \in Requests |->
    IF q \notin who THEN req[q]
    ELSE IF req[r].seen THEN [req[q] EXCEPT !.pc = "recheck", !.dead = ~Live(req[q].token)]
    ELSE [Unused EXCEPT !.pc = "over"]]

Followers(r) == {q \in Requests : At(q, "following") /\ req[q].login = req[r].login}

\* Faulty variant: an error of the leader is not handed to those who wait.
LandErrorsAlone(r) ==
  /\ At(r, "read")
  /\ flight' = [flight EXCEPT ![req[r].login] = NoRequest]
  /\ Landed(r, IF req[r].seen THEN {r} \cup Followers(r) ELSE {r})
  /\ UNCHANGED <<db, world>>

\* The entry goes and the result, or the error, is handed to all who wait, under the lock.
Land(r) ==
  /\ At(r, "read")
  /\ flight' = [flight EXCEPT ![req[r].login] = NoRequest]
  /\ Landed(r, {r} \cup Followers(r))
  /\ UNCHANGED <<db, world>>

\* Faulty variant: the session is not read again after the round trip.
RecheckNothing(r) ==
  At(r, "recheck") /\ To(r, "authorized") /\ UNCHANGED <<db, world, flight>>

Recheck(r) ==
  /\ At(r, "recheck")
  /\ To(r, IF Live(req[r].token) THEN "authorized" ELSE "over")
  /\ UNCHANGED <<db, world, flight>>

-----------------------------------------------------------------------------
(* What the request is for *)

\* rotate reads the session and the CSRF token once more.
ReadAgain(r) ==
  /\ At(r, "authorized") /\ req[r].kind = "rotate"
  /\ To(r, IF Live(req[r].token) THEN "rotating" ELSE "over")
  /\ UNCHANGED <<db, world, flight>>

\* Faulty variant: a new row is written whatever became of the old one.
RotateByInsert(r) ==
  /\ At(r, "rotating")
  /\ session' = [Deleted({req[r].token}) EXCEPT ![made + 1] = [user |-> req[r].user, login |-> req[r].login]]
  /\ made' = made + 1 /\ To(r, "over")
  /\ UNCHANGED <<user, ended, writing, locked, world, flight>>

\* The row takes the new bearer, unless the old one is not there any more.
Rotate(r) ==
  /\ At(r, "rotating")
  /\ LET t == req[r].token
         there == session[t] # NoSession
     IN /\ session' = IF there THEN [Deleted({t}) EXCEPT ![made + 1] = session[t]] ELSE session
        /\ made' = IF there THEN made + 1 ELSE made
        /\ To(r, IF there THEN "over" ELSE "over")
  /\ UNCHANGED <<user, ended, writing, locked, world, flight>>

\* logout deletes the row that has the bearer of the request, if one still has.
Logout(r) ==
  /\ At(r, "deleting")
  /\ session' = Deleted({req[r].token}) /\ ended' = EndedWith({req[r].token})
  /\ To(r, "over")
  /\ UNCHANGED <<user, made, writing, locked, world, flight>>

-----------------------------------------------------------------------------
(* finish: exchange and access, then one transaction *)

\* The token of a new login is nobody else's, so its check is not shared.
Exchange(r) ==
  /\ At(r, "exchange")
  /\ \/ req[r].user \in granted /\ To(r, "upsert")
     \/ To(r, "over")
  /\ UNCHANGED <<db, world, flight>>

\* The upsert waits for whoever writes the row, and holds it until the commit.
Upsert(r) ==
  /\ At(r, "upsert")
  /\ LET u == req[r].user IN
       /\ writing[u] = NoRequest
       /\ IF user[u] = "disabled" THEN To(r, "over") /\ UNCHANGED writing
          ELSE To(r, "inserting") /\ writing' = [writing EXCEPT ![u] = r]
  /\ UNCHANGED <<user, session, made, ended, locked, world, flight>>

\* The session the browser had goes, the new one comes.
CommitLogin(r) ==
  /\ At(r, "inserting")
  /\ LET u == req[r].user
         old == {req[r].token} \ {0}
     IN /\ session' = [Deleted(old) EXCEPT ![made + 1] = [user |-> u, login |-> made + 1]]
        /\ ended' = EndedWith(old)
        /\ user' = [user EXCEPT ![u] = IF @ = "none" THEN "enabled" ELSE @]
        /\ writing' = [writing EXCEPT ![u] = NoRequest]
  /\ made' = made + 1 /\ To(r, "over")
  /\ UNCHANGED <<locked, world, flight>>

-----------------------------------------------------------------------------
(* revoke, one transaction *)

OtherAdmins(u) == {a \in Admins \ {u} : user[a] = "enabled"}

\* The actor is still enabled, and an administrator remains without the target.
MayChange(r) ==
  /\ user[req[r].user] = "enabled"
  /\ ~req[r].enable /\ req[r].target \in Admins => OtherAdmins(req[r].target) # {}

\* Faulty variant: nothing orders two changes of user access.
LockNothing(r) ==
  /\ At(r, "authorized") /\ req[r].kind = "revoke"
  /\ To(r, IF MayChange(r) THEN "changing" ELSE "over")
  /\ UNCHANGED <<db, world, flight>>

\* The advisory lock, then the checks.
LockAccess(r) ==
  /\ At(r, "authorized") /\ req[r].kind = "revoke" /\ locked = NoRequest
  /\ To(r, IF MayChange(r) THEN "changing" ELSE "over")
  /\ locked' = IF MayChange(r) THEN r ELSE NoRequest
  /\ UNCHANGED <<user, session, made, ended, writing, world, flight>>

\* The update waits for a login that holds the row; the delete sees what that login inserted.
CommitChange(r) ==
  /\ At(r, "changing")
  /\ LET u == req[r].target
         known == user[u] # "none"
         gone == IF known /\ ~req[r].enable THEN {t \in Tokens : session[t].user = u} ELSE {}
     IN /\ writing[u] = NoRequest
        /\ user' = IF known THEN [user EXCEPT ![u] = IF req[r].enable THEN "enabled" ELSE "disabled"]
                            ELSE user
        /\ session' = Deleted(gone) /\ ended' = EndedWith(gone)
        /\ To(r, IF known THEN "over" ELSE "over")
  /\ locked' = NoRequest
  /\ UNCHANGED <<made, writing, world, flight>>

-----------------------------------------------------------------------------
(* GitHub, time and failures *)

Grant(u) ==
  /\ u \notin granted /\ changes < MaxChanges /\ changes' = changes + 1
  /\ granted' = granted \cup {u}
  /\ req' = [r \in Requests |-> IF Checking(r) /\ req[r].user = u
                                THEN [req[r] EXCEPT !.granted = TRUE] ELSE req[r]]
  /\ UNCHANGED <<db, faults, flight>>

Withdraw(u) ==
  /\ u \in granted /\ changes < MaxChanges /\ changes' = changes + 1
  /\ granted' = granted \ {u}
  /\ UNCHANGED <<db, faults, flight, req>>

Expire(t) ==
  /\ session[t] # NoSession /\ Fault
  /\ session' = Deleted({t}) /\ ended' = EndedWith({t})
  /\ UNCHANGED <<user, made, writing, locked, granted, changes, flight, req>>

\* The process ends: its transactions roll back, its checks in flight are gone.
Restart ==
  /\ Fault
  /\ req' = [r \in Requests |-> IF Busy(r) THEN [Unused EXCEPT !.pc = "over"] ELSE req[r]]
  /\ flight' = [l \in Tokens |-> NoRequest]
  /\ locked' = NoRequest /\ writing' = [u \in Users |-> NoRequest]
  /\ UNCHANGED <<user, session, made, ended, granted, changes>>

-----------------------------------------------------------------------------
(* Specification *)

\* Some users have signed in, each in one browser; GitHub grants access to them so far.
number == CHOOSE f \in [Users -> 1 .. Cardinality(Users)] : \A u, v \in Users : u # v => f[u] # f[v]

Init ==
  /\ \E in \in SUBSET Users \ {{}} :
       /\ user = [u \in Users |-> IF u \in in THEN "enabled" ELSE "none"]
       /\ session = [t \in Tokens |-> IF \E u \in in : number[u] = t
                       THEN [user |-> CHOOSE u \in in : number[u] = t, login |-> t] ELSE NoSession]
       /\ granted = in
  /\ made = Cardinality(Users) /\ ended = {} /\ req = [r \in Requests |-> Unused]
  /\ flight = [l \in Tokens |-> NoRequest] /\ locked = NoRequest
  /\ writing = [u \in Users |-> NoRequest] /\ changes = 0 /\ faults = 0

Step(r) ==
  \/ ReadSession(r) \/ Lead(r) \/ Follow(r) \/ ReadGitHub(r) \/ Land(r) \/ Recheck(r)
  \/ ReadAgain(r) \/ Rotate(r) \/ Logout(r) \/ Callback(r) \/ Exchange(r) \/ Upsert(r) \/ CommitLogin(r)
  \/ LockAccess(r) \/ CommitChange(r)

Next ==
  \/ Restart
  \/ \E r \in Requests : Begin(r) \/ Arrive(r) \/ Step(r)
  \/ \E u \in Users : Grant(u) \/ Withdraw(u)
  \/ \E t \in Tokens : Expire(t)

Spec == Init /\ [][Next]_vars

\* Every request has a thread that goes on.
FairSpec == Spec /\ \A r \in Requests : WF_vars(Step(r))

-----------------------------------------------------------------------------
(* Properties *)

\* A revoked user has no session, not even one of a login that was under way; and
\* administrators who revoke each other at once leave one of them enabled.
RevocationComplete ==
  /\ \A t \in Tokens : session[t] # NoSession => user[session[t].user] = "enabled"
  /\ (\A a \in Admins : user[a] # "enabled") => \A a \in Admins : user[a] = "none"

\* A login has one bearer, however many tabs rotate it at once, and a login whose row was
\* deleted, by logout, revocation, a new login or its expiry, never has one again.
OneBearerPerLogin ==
  \A t \in Tokens : session[t] # NoSession =>
    /\ session[t].login \notin ended
    /\ \A s \in Tokens \ {t} : session[s].login # session[t].login

\* No request acts on a permission that GitHub withdrew before the check it shares began, nor
\* for a bearer that was rotated or deleted before GitHub answered.
AuthorizedOnCurrentAccess ==
  \A r \in Requests : At(r, "authorized") => req[r].granted /\ ~req[r].dead

\* No request waits for ever, for a check that another request leads or for a lock: time and
\* again all of them are over.
EveryRequestEnds == []<>(\A r \in Requests : ~Busy(r))
=============================================================================
