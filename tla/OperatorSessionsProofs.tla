------------------------ MODULE OperatorSessionsProofs ------------------------
(***************************************************************************)
(* The safety properties of OperatorSessions for any number of users,      *)
(* requests, changes on GitHub and restarts.                               *)
(*                                                                         *)
(* A row takes a bearer nobody had before, so a bearer that is gone stays  *)
(* gone; requests of one login are requests of one user, so what one check *)
(* says counts for all who share it; and what a transaction has read       *)
(* stays as it is while the transaction holds the row or the lock.         *)
(***************************************************************************)
EXTENDS OperatorSessions, FiniteSetTheorems, FunctionTheorems, TLAPS

-----------------------------------------------------------------------------
(* The inductive invariant *)

Places == {"unused", "over", "begun", "exchange", "upsert", "inserting", "session", "access",
           "leading", "read", "following", "recheck", "authorized", "rotating", "deleting",
           "changing"}

Request == [pc : Places, kind : Kinds \cup {"login"}, token : Nat, user : Users \cup {""},
            login : Nat, target : Users \cup {""}, enable : BOOLEAN, seen : BOOLEAN,
            granted : BOOLEAN, dead : BOOLEAN]

TypeOK ==
  /\ user \in [Users -> {"none", "enabled", "disabled"}]
  /\ session \in [Tokens -> [user : Users, login : Tokens] \cup {NoSession}]
  /\ made \in Nat /\ ended \subseteq Nat
  /\ granted \subseteq Users /\ {changes, faults} \subseteq Nat
  /\ flight \in [Tokens -> Requests \cup {NoRequest}]
  /\ locked \in Requests \cup {NoRequest}
  /\ writing \in [Users -> Requests \cup {NoRequest}]
  /\ req \in [Requests -> Request]

\* Every request that is not over may still need a bearer.
Pending == {r \in Requests : req[r].pc # "over"}

BearersOK == made + Cardinality(Pending) <= Cardinality(Users) + MaxRequests

Rows == {t \in Tokens : session[t] # NoSession}

\* A row belongs to an enabled user and has a bearer and a login that were issued.
RowOK(t) ==
  /\ t <= made /\ session[t].login <= made
  /\ session[t].login \notin ended
  /\ user[session[t].user] = "enabled"

SessionsOK ==
  /\ \A t \in Rows : RowOK(t)
  /\ \A s, t \in Rows : session[s].login = session[t].login => s = t
  /\ \A l \in ended : l <= made

\* Once an administrator has signed in, one is enabled.
AdminRemains ==
  (\A a \in Admins : user[a] # "enabled") => \A a \in Admins : user[a] = "none"

SignedIn == {"access", "leading", "read", "following", "recheck", "authorized", "rotating",
             "deleting"}

\* What request r, at k, has read and still counts on.
AccessOK(k) ==
  /\ k.pc \in {"access", "leading", "read", "following"} => k.user \in Users /\ k.login \in Tokens
  /\ k.pc \in {"leading", "read", "following"} /\ k.user \in granted => k.granted
  /\ k.pc = "read" /\ k.seen => k.granted
  /\ k.pc \in {"recheck", "authorized"} => k.granted
  /\ k.pc = "recheck" /\ k.dead => k.token \notin Rows
  /\ k.pc = "authorized" => ~k.dead
  /\ k.pc \in SignedIn => k.token # 0

LocksOK(k, r) ==
  /\ k.pc \in {"begun", "exchange", "upsert", "inserting"} => k.user \in Users
  /\ k.pc = "inserting" => writing[k.user] = r /\ user[k.user] # "disabled"
  /\ k.kind = "revoke" => k.target \in Users
  /\ k.pc = "changing" =>
       /\ locked = r /\ k.kind = "revoke"
       /\ ~k.enable /\ k.target \in Admins => OtherAdmins(k.target) # {}

LoginOK(k) ==
  k.login # 0 =>
    k.login <= made /\ \A t \in Rows : session[t].login = k.login => session[t].user = k.user

RequestOK(k, r) ==
  k.token <= made /\ AccessOK(k) /\ LocksOK(k, r) /\ LoginOK(k)

\* Requests of one login are requests of one user.
SameUser(j, k) == j.login # 0 /\ j.login = k.login => j.user = k.user

\* A check in flight has a leader, and who follows waits for it.
FlightOK ==
  /\ \A l \in Tokens : flight[l] # NoRequest =>
       req[flight[l]].pc \in {"leading", "read"} /\ req[flight[l]].login = l
  /\ \A r \in Requests : req[r].pc \in {"leading", "read"} => flight[req[r].login] = r
  /\ \A r \in Requests : req[r].pc = "following" =>
       /\ flight[req[r].login] # NoRequest
       /\ LET k == req[flight[req[r].login]] IN k.pc = "read" /\ k.seen => req[r].granted

IInv ==
  /\ TypeOK /\ BearersOK /\ SessionsOK /\ AdminRemains /\ FlightOK
  /\ \A r \in Requests : RequestOK(req[r], r)
  /\ \A q, r \in Requests : SameUser(req[q], req[r])

-----------------------------------------------------------------------------
(* Lemmas *)

\* The bounds are numbers, and the sets they bound are finite.
LEMMA Sizes ==
  /\ Cardinality(Users) \in Nat /\ MaxRequests \in Nat /\ Admins \subseteq Users
  /\ MaxChanges \in Nat /\ MaxFaults \in Nat
  /\ \A S : S \subseteq Requests => IsFiniteSet(S) /\ Cardinality(S) \in Nat
  /\ Cardinality(Requests) = MaxRequests
<1>1. /\ Cardinality(Users) \in Nat /\ MaxRequests \in Nat /\ Admins \subseteq Users
      /\ MaxChanges \in Nat /\ MaxFaults \in Nat
  BY SessionsAssumption, FS_CardinalityType
<1>2. IsFiniteSet(Requests) /\ Cardinality(Requests) = MaxRequests
  BY <1>1, FS_Interval DEF Requests
<1>3. \A S : S \subseteq Requests => IsFiniteSet(S) /\ Cardinality(S) \in Nat
  BY <1>2, FS_Subset, FS_CardinalityType
<1> QED BY <1>1, <1>2, <1>3

\* A bearer or login is issued as long as a request is under way.
LEMMA BearersInRange ==
  ASSUME TypeOK, BearersOK
  PROVE  /\ \A t \in Nat \ {0} : t <= made => t \in Tokens
         /\ \A r \in Requests : req[r].pc # "over" => made + 1 \in Tokens
<1>1. Pending \subseteq Requests
  BY DEF Pending
<1>2. IsFiniteSet(Pending) /\ Cardinality(Pending) \in Nat
  BY <1>1, Sizes
<1>3. \A t \in Nat \ {0} : t <= made => t \in Tokens
  BY <1>2, Sizes DEF TypeOK, BearersOK, Tokens
<1>4. ASSUME NEW r \in Requests, req[r].pc # "over" PROVE made + 1 \in Tokens
  <2>1. Cardinality(Pending) # 0
    BY <1>2, <1>4, FS_EmptySet DEF Pending
  <2> QED BY <2>1, <1>2, Sizes DEF TypeOK, BearersOK, Tokens
<1> QED BY <1>3, <1>4

\* No step starts a request again, and one that issues a bearer ends its request.
LEMMA BearersKept ==
  ASSUME TypeOK, BearersOK, Pending' \subseteq Pending,
         \/ made' = made
         \/ made' = made + 1 /\ \E r \in Pending : r \notin Pending'
  PROVE  BearersOK'
<1>1. Pending \subseteq Requests
  BY DEF Pending
<1>2. /\ IsFiniteSet(Pending) /\ Cardinality(Pending) \in Nat
      /\ Cardinality(Pending') \in Nat /\ Cardinality(Pending') <= Cardinality(Pending)
  BY <1>1, Sizes, FS_Subset
<1>3. CASE made' = made
  BY <1>2, <1>3, Sizes DEF TypeOK, BearersOK
<1>4. CASE made' = made + 1 /\ \E r \in Pending : r \notin Pending'
  <2>1. Pending' # Pending
    BY <1>4
  <2>2. Cardinality(Pending') # Cardinality(Pending)
    BY <2>1, <1>2, FS_Subset
  <2> QED BY <2>2, <1>2, <1>4, Sizes DEF TypeOK, BearersOK
<1> QED BY <1>3, <1>4

\* A request before it arrives.
LEMMA UnusedFields ==
  Unused \in Request /\ Unused.login = 0 /\ Unused.target = "" /\ Unused.user = ""
BY DEF Unused, Request, Places, Kinds

\* What To makes of a request.
Turned(k, pc) == IF pc = "over" THEN [Unused EXCEPT !.pc = "over"] ELSE [k EXCEPT !.pc = pc]

LEMMA Turns ==
  ASSUME TypeOK, NEW r \in Requests, NEW pc \in Places
  PROVE  /\ To(r, pc) <=> req' = [req EXCEPT ![r] = Turned(req[r], pc)]
         /\ Turned(req[r], pc) \in Request /\ Turned(req[r], pc).pc = pc
         /\ pc = "over" => Turned(req[r], pc) = [Unused EXCEPT !.pc = "over"]
         /\ pc # "over" => Turned(req[r], pc) = [req[r] EXCEPT !.pc = pc]
<1>1. req[r] \in Request /\ req \in [Requests -> Request]
  BY DEF TypeOK
<1>2. Unused \in Request /\ [Unused EXCEPT !.pc = "over"] \in Request
  BY DEF Unused, Request, Places, Kinds
<1>3. Turned(req[r], pc) \in Request /\ Turned(req[r], pc).pc = pc
  BY <1>1, <1>2 DEF Turned, Request, Unused
<1> QED BY <1>1, <1>3 DEF To, Turned

\* A request that is over counts on nothing.
LEMMA OverOK ==
  ASSUME TypeOK, NEW r, NEW k, k = [Unused EXCEPT !.pc = "over"]
  PROVE  /\ k \in Request /\ k.pc = "over"
         /\ RequestOK(k, r) /\ \A j : SameUser(k, j) /\ SameUser(j, k)
<1>1. /\ k \in Request /\ k.pc = "over" /\ k.login = 0 /\ k.token = 0 /\ k.kind = "use"
  BY DEF Unused, Request, Places, Kinds
<1>2. RequestOK(k, r)
  BY <1>1 DEF RequestOK, AccessOK, SignedIn, LocksOK, LoginOK, TypeOK
<1>3. \A j : SameUser(k, j) /\ SameUser(j, k)
  BY <1>1 DEF SameUser
<1> QED BY <1>1, <1>2, <1>3

\* What a request counts on depends on the database and on GitHub alone.
LEMMA Undisturbed ==
  ASSUME UNCHANGED <<user, session, made, granted, locked, writing>>,
         NEW r, NEW k, req'[r] = k, RequestOK(k, r)
  PROVE  RequestOK(req[r], r)'
<1>1. Rows' = Rows
  BY DEF Rows
<1>2. OtherAdmins(k.target)' = OtherAdmins(k.target)
  BY DEF OtherAdmins
<1>3. AccessOK(req[r])'
  BY <1>1 DEF RequestOK, AccessOK, SignedIn
<1>4. LocksOK(req[r], r)'
  <2>1. OtherAdmins(req[r].target)' = OtherAdmins(k.target)
    BY <1>2 DEF OtherAdmins
  <2> QED BY <2>1 DEF RequestOK, LocksOK
<1>5. LoginOK(req[r])'
  BY <1>1 DEF RequestOK, LoginOK
<1> QED BY <1>3, <1>4, <1>5 DEF RequestOK

\* A step of one request that leaves the database and GitHub alone.
LEMMA OneMoves ==
  ASSUME IInv, NEW r \in Requests, NEW k \in Request, req[r].pc # "over",
         UNCHANGED <<db, world>>, req' = [req EXCEPT ![r] = k],
         flight' \in [Tokens -> Requests \cup {NoRequest}],
         RequestOK(k, r), \A q \in Requests : SameUser(k, req[q]) /\ SameUser(req[q], k),
         FlightOK'
  PROVE  IInv'
<1>1. /\ TypeOK /\ BearersOK /\ SessionsOK /\ AdminRemains
      /\ \A q \in Requests : RequestOK(req[q], q)
      /\ \A p, q \in Requests : SameUser(req[p], req[q])
  BY DEF IInv
<1>2. /\ UNCHANGED <<user, session, made, ended, locked, writing, granted, changes, faults>>
  BY DEF db, world
<1>3. req' \in [Requests -> Request] /\ req'[r] = k /\ \A q \in Requests \ {r} : req'[q] = req[q]
  BY <1>1 DEF TypeOK
<1>4. TypeOK'
  BY <1>1, <1>2, <1>3 DEF TypeOK
<1>5. BearersOK'
  <2>1. Pending' \subseteq Pending
    BY <1>3 DEF Pending
  <2> QED BY <2>1, <1>1, <1>2, BearersKept
<1>6. SessionsOK' /\ AdminRemains'
  BY <1>1, <1>2 DEF SessionsOK, RowOK, Rows, AdminRemains
<1>7. ASSUME NEW q \in Requests PROVE RequestOK(req[q], q)'
  <2>1. PICK j : j = req'[q]
    OBVIOUS
  <2>2. RequestOK(j, q)
    BY <2>1, <1>1, <1>3
  <2> QED BY <2>1, <2>2, <1>2, Undisturbed
<1>8. ASSUME NEW p \in Requests, NEW q \in Requests PROVE SameUser(req[p], req[q])'
  <2>1. SameUser(req'[p], req'[q])
    BY <1>1, <1>3 DEF SameUser
  <2> QED BY <2>1 DEF SameUser
<1> QED BY <1>4, <1>5, <1>6, <1>7, <1>8 DEF IInv

\* A request that neither leads nor joins a check leaves the others in flight.
LEMMA FlightStays ==
  ASSUME IInv, UNCHANGED flight, NEW r \in Requests, NEW k,
         req' = [req EXCEPT ![r] = k],
         req[r].pc \notin {"leading", "read"}, k.pc \notin {"leading", "read"},
         k.pc = "following" =>
           /\ k.login \in Tokens /\ flight[k.login] # NoRequest
           /\ LET j == req[flight[k.login]] IN j.pc = "read" /\ j.seen => k.granted
  PROVE  FlightOK'
<1>0. TypeOK /\ FlightOK /\ \A q \in Requests : RequestOK(req[q], q)
  BY DEF IInv
<1>1. req'[r] = k /\ \A q \in Requests \ {r} : req'[q] = req[q]
  BY <1>0 DEF TypeOK
<1>2. \A l \in Tokens : flight[l] # NoRequest => flight[l] \in Requests \ {r}
  BY <1>0 DEF TypeOK, FlightOK
<1>3. \A l \in Tokens : flight[l] # NoRequest =>
        req'[flight[l]].pc \in {"leading", "read"} /\ req'[flight[l]].login = l
  BY <1>0, <1>1, <1>2 DEF FlightOK
<1>4. \A q \in Requests : req'[q].pc \in {"leading", "read"} => flight[req'[q].login] = q
  BY <1>0, <1>1 DEF FlightOK
<1>5. ASSUME NEW q \in Requests, req'[q].pc = "following"
      PROVE  /\ flight[req'[q].login] # NoRequest
             /\ LET j == req'[flight[req'[q].login]] IN j.pc = "read" /\ j.seen => req'[q].granted
  <2> DEFINE l == req'[q].login
             leader == flight[l]
  <2>1. /\ l \in Tokens /\ leader # NoRequest
        /\ req[leader].pc = "read" /\ req[leader].seen => req'[q].granted
    <3>1. CASE q = r
      BY <1>1, <1>5, <3>1
    <3>2. CASE q # r
      BY <1>0, <1>1, <1>5, <3>2 DEF FlightOK, RequestOK, AccessOK, SignedIn
    <3> QED BY <3>1, <3>2
  <2>2. leader \in Requests \ {r}
    BY <1>2, <2>1
  <2>3. req'[leader] = req[leader]
    BY <1>1, <2>2
  <2> QED BY <2>1, <2>3
<1> QED BY <1>3, <1>4, <1>5 DEF FlightOK

\* The steps that only lead a request on, or end it.
LEMMA TurnIInv ==
  ASSUME IInv, NEW r \in Requests, NEW pc \in Places \ {"leading", "read", "following"}, To(r, pc),
         req[r].pc \notin {"over", "leading", "read"}, UNCHANGED <<db, world, flight>>,
         pc # "over" => AccessOK(Turned(req[r], pc)) /\ LocksOK(Turned(req[r], pc), r)
  PROVE  IInv'
<1>1. /\ TypeOK /\ RequestOK(req[r], r) /\ req[r] \in Request
      /\ flight' \in [Tokens -> Requests \cup {NoRequest}]
      /\ \A q \in Requests : SameUser(req[r], req[q]) /\ SameUser(req[q], req[r])
  BY DEF IInv, TypeOK
<1>2. PICK k \in Request : k = Turned(req[r], pc)
  BY <1>1, Turns
<1>3. req' = [req EXCEPT ![r] = k] /\ k.pc = pc
  BY <1>1, <1>2, Turns
<1>4. RequestOK(k, r) /\ \A q \in Requests : SameUser(k, req[q]) /\ SameUser(req[q], k)
  <2>1. CASE pc = "over"
    <3>1. k = [Unused EXCEPT !.pc = "over"]
      BY <1>1, <1>2, <2>1, Turns
    <3> QED BY <1>1, <3>1, OverOK
  <2>2. CASE pc # "over"
    <3>1. k = [req[r] EXCEPT !.pc = pc]
      BY <1>1, <1>2, <2>2, Turns
    <3>2. k.token = req[r].token /\ k.login = req[r].login /\ k.user = req[r].user
      BY <1>1, <3>1 DEF Request
    <3> QED BY <1>1, <1>2, <2>2, <3>2 DEF RequestOK, LoginOK, SameUser
  <2> QED BY <2>1, <2>2
<1>5. FlightOK'
  BY <1>3, FlightStays
<1> QED BY <1>1, <1>3, <1>4, <1>5, OneMoves

\* The steps of a request without an effect on others.
LEMMA CallbackIInv ==
  ASSUME IInv, NEW r \in Requests, Callback(r) \/ Exchange(r) \/ Recheck(r) \/ ReadAgain(r)
  PROVE  IInv'
<1> DEFINE k(pc) == Turned(req[r], pc)
<1>1. /\ TypeOK /\ RequestOK(req[r], r) /\ req[r] \in Request
      /\ req[r].token \in Nat /\ req[r].token <= made
  BY DEF IInv, TypeOK, Request, RequestOK
<1>2. UNCHANGED <<db, world, flight>>
  BY DEF Callback, Exchange, Recheck, ReadAgain
<1>3. Live(req[r].token) => req[r].token \in Rows
  BY <1>1, BearersInRange DEF IInv, Live, Rows
<1>4. PICK pc \in {"over", "exchange", "upsert", "authorized", "rotating"} :
        /\ To(r, pc) /\ req[r].pc \notin {"over", "leading", "read"}
        /\ pc \in {"exchange", "upsert"} => req[r].pc \in {"begun", "exchange"}
        /\ pc = "authorized" => req[r].pc = "recheck" /\ Live(req[r].token)
        /\ pc = "rotating" => req[r].pc = "authorized"
  <2>1. CASE Callback(r)
    BY <2>1 DEF Callback, At
  <2>2. CASE Exchange(r)
    BY <2>2 DEF Exchange, At
  <2>3. CASE Recheck(r)
    BY <2>3 DEF Recheck, At
  <2>4. CASE ReadAgain(r)
    BY <2>4 DEF ReadAgain, At
  <2> QED BY <2>1, <2>2, <2>3, <2>4
<1>5. pc \in Places \ {"leading", "read", "following"}
  BY <1>4 DEF Places
<1>6. ASSUME pc # "over"
      PROVE  AccessOK(k(pc)) /\ LocksOK(k(pc), r)
  <2>1. k(pc) = [req[r] EXCEPT !.pc = pc] /\ req[r] \in Request
    BY <1>1, <1>5, <1>6, Turns
  <2>2. AccessOK(k(pc))
    BY <1>1, <1>3, <1>4, <1>6, <2>1 DEF RequestOK, AccessOK, SignedIn, Request
  <2>3. LocksOK(k(pc), r)
    BY <1>1, <1>4, <1>6, <2>1 DEF RequestOK, LocksOK, Request
  <2> QED BY <2>2, <2>3
<1> QED BY <1>2, <1>4, <1>5, <1>6, TurnIInv

\* A new request names a bearer that was issued, or none.
LEMMA ArriveIInv ==
  ASSUME IInv, NEW r \in Requests, Begin(r) \/ Arrive(r)
  PROVE  IInv'
<1>1. TypeOK /\ UNCHANGED <<db, world, flight>> /\ req[r].pc = "unused"
  BY DEF IInv, Begin, Arrive, Fresh, At
<1>2. PICK k \in Request :
        /\ req' = [req EXCEPT ![r] = k]
        /\ k.token <= made /\ k.login = 0 /\ k.pc \in {"begun", "session"}
        /\ k.pc = "begun" => k.user \in Users /\ k.kind = "login"
        /\ k.kind = "revoke" => k.target \in Users
  <2>1. CASE Begin(r)
    <3>1. PICK u \in Users, previous \in 0 .. made :
            req' = [req EXCEPT ![r] = [Unused EXCEPT !.pc = "begun", !.kind = "login", !.user = u,
                                                     !.token = previous]]
      BY <2>1 DEF Begin
    <3>2. PICK k : k = [Unused EXCEPT !.pc = "begun", !.kind = "login", !.user = u,
                                      !.token = previous]
      OBVIOUS
    <3>3. /\ k \in Request /\ k.token = previous /\ k.login = 0 /\ k.pc = "begun"
          /\ k.user = u /\ k.kind = "login"
      <4>1. previous \in Nat /\ "begun" \in Places
        BY <1>1 DEF TypeOK, Places
      <4> QED BY <3>2, <4>1, UnusedFields DEF Request
    <3>4. req' = [req EXCEPT ![r] = k]
      BY <3>1, <3>2, Zenon
    <3>5. /\ k.token <= made /\ k.pc \in {"begun", "session"}
          /\ k.pc = "begun" => k.user \in Users /\ k.kind = "login"
          /\ k.kind = "revoke" => k.target \in Users
      BY <1>1, <3>3 DEF TypeOK
    <3> QED BY <3>3, <3>4, <3>5, Zenon
  <2>2. CASE Arrive(r)
    <3>1. PICK kind \in Kinds, t \in 1 .. made :
            \E u \in IF kind = "revoke" THEN Users ELSE {""},
               e \in IF kind = "revoke" THEN BOOLEAN ELSE {FALSE} :
              req' = [req EXCEPT ![r] = [Unused EXCEPT !.pc = "session", !.kind = kind,
                                                       !.token = t, !.target = u, !.enable = e]]
      BY <2>2 DEF Arrive
    <3>2. t \in Nat /\ t <= made /\ "session" \in Places
      BY <1>1 DEF TypeOK, Places
    <3>3. PICK u \in Users \cup {""}, e \in BOOLEAN :
            /\ kind = "revoke" => u \in Users
            /\ req' = [req EXCEPT ![r] = [Unused EXCEPT !.pc = "session", !.kind = kind,
                                                        !.token = t, !.target = u, !.enable = e]]
      BY <3>1, Zenon
    <3>4. PICK j : j = [Unused EXCEPT !.pc = "session", !.kind = kind, !.token = t, !.target = u]
      OBVIOUS
    <3>5. /\ j \in Request /\ j.token = t /\ j.login = 0 /\ j.pc = "session"
          /\ j.kind = kind /\ j.target = u
      BY <3>2, <3>4, UnusedFields DEF Request
    <3>6. PICK k : k = [j EXCEPT !.enable = e]
      OBVIOUS
    <3>7. /\ k \in Request /\ k.token = t /\ k.login = 0 /\ k.pc = "session"
          /\ k.kind = kind /\ k.target = u
      BY <3>5, <3>6 DEF Request
    <3>8. req' = [req EXCEPT ![r] = k]
      BY <3>3, <3>4, <3>6, Zenon
    <3>9. /\ k.token <= made /\ k.pc \in {"begun", "session"}
          /\ k.pc = "begun" => k.user \in Users /\ k.kind = "login"
          /\ k.kind = "revoke" => k.target \in Users
      BY <3>2, <3>3, <3>7
    <3> QED BY <3>7, <3>8, <3>9, Zenon
  <2> QED BY <2>1, <2>2
<1>3. RequestOK(k, r) /\ \A q \in Requests : SameUser(k, req[q]) /\ SameUser(req[q], k)
  BY <1>2 DEF RequestOK, AccessOK, SignedIn, LocksOK, LoginOK, SameUser
<1>4. FlightOK'
  BY <1>1, <1>2, FlightStays
<1> QED BY <1>1, <1>2, <1>3, <1>4, OneMoves DEF TypeOK

\* A request takes user and login from its row.
LEMMA ReadSessionIInv ==
  ASSUME IInv, NEW r \in Requests, ReadSession(r)
  PROVE  IInv'
<1>1. /\ TypeOK /\ UNCHANGED <<db, world, flight>> /\ req[r].pc = "session"
      /\ RequestOK(req[r], r) /\ req[r] \in Request /\ SessionsOK
  BY DEF IInv, TypeOK, ReadSession, At
<1>2. CASE To(r, "over")
  BY <1>1, <1>2, TurnIInv DEF Places
<1>3. CASE ~To(r, "over")
  <2> DEFINE row == session[req[r].token]
  <2>1. /\ Live(req[r].token)
        /\ req' = [req EXCEPT ![r].pc = IF req[r].kind = "logout" THEN "deleting" ELSE "access",
                              ![r].user = row.user, ![r].login = row.login]
    BY <1>3 DEF ReadSession
  <2>2. req[r].token \in Rows
    BY <1>1, <2>1, BearersInRange DEF IInv, Live, Rows, RequestOK, Request
  <2>3. /\ row \in [user : Users, login : Tokens] /\ row.login <= made /\ row.login # 0
        /\ \A t \in Rows : session[t].login = row.login => session[t].user = row.user
    BY <1>1, <2>2 DEF TypeOK, Rows, SessionsOK, RowOK, Tokens
  <2>4. row.login \in Nat
    BY <2>3 DEF Tokens
  <2>4a. PICK pc \in {"deleting", "access"} :
           pc = IF req[r].kind = "logout" THEN "deleting" ELSE "access"
    OBVIOUS
  <2>5. PICK k \in Request :
          k = [req[r] EXCEPT !.pc = pc, !.user = row.user, !.login = row.login]
    BY <1>1, <2>3, <2>4 DEF Request, Places
  <2>5a. req' = [req EXCEPT ![r] = k]
    BY <1>1, <2>1, <2>4a, <2>5 DEF TypeOK
  <2>6. /\ k.user = row.user /\ k.login = row.login /\ k.token = req[r].token
        /\ k.kind = req[r].kind /\ k.target = req[r].target /\ k.pc \in {"deleting", "access"}
    BY <1>1, <2>5 DEF Request
  <2>6a. k.token # 0
    BY <2>1, <2>6 DEF Live
  <2>7. RequestOK(k, r)
    BY <1>1, <2>3, <2>6, <2>6a DEF RequestOK, AccessOK, SignedIn, LocksOK, LoginOK
  <2>8. \A q \in Requests : SameUser(k, req[q]) /\ SameUser(req[q], k)
    BY <2>2, <2>3, <2>6 DEF IInv, RequestOK, LoginOK, SameUser
  <2>9. FlightOK'
    BY <1>1, <2>5a, <2>6, FlightStays
  <2> QED BY <1>1, <2>5a, <2>7, <2>8, <2>9, OneMoves DEF TypeOK
<1> QED BY <1>2, <1>3

\* What FlightOK says of one login and of one request.
LEMMA Flights ==
  ASSUME IInv, NEW q \in Requests
  PROVE  /\ req[q].pc \in {"access", "leading", "read", "following"} => req[q].login \in Tokens
         /\ req[q].pc = "following" => flight[req[q].login] \in Requests
         /\ \A l \in Tokens : flight[l] = q => req[q].pc \in {"leading", "read"} /\ req[q].login = l
<1>1. TypeOK /\ FlightOK /\ RequestOK(req[q], q)
  BY DEF IInv
<1>2. req[q].pc \in {"access", "leading", "read", "following"} => req[q].login \in Tokens
  BY <1>1 DEF RequestOK, AccessOK, SignedIn
<1>3. req[q].pc = "following" => flight[req[q].login] \in Requests
  BY <1>1, <1>2 DEF FlightOK, TypeOK
<1>4. \A l \in Tokens : flight[l] = q => req[q].pc \in {"leading", "read"} /\ req[q].login = l
  <2>1. q # NoRequest
    BY Sizes DEF Requests, NoRequest
  <2> QED BY <1>1, <2>1 DEF FlightOK
<1> QED BY <1>2, <1>3, <1>4

\* A request leads a check when nobody does for its login.
LEMMA LeadIInv ==
  ASSUME IInv, NEW r \in Requests, Lead(r)
  PROVE  IInv'
<1> DEFINE l == req[r].login
<1>1. /\ TypeOK /\ FlightOK /\ UNCHANGED <<db, world>> /\ req[r].pc = "access"
      /\ RequestOK(req[r], r) /\ req[r] \in Request /\ l \in Tokens
      /\ flight[l] = NoRequest /\ flight' = [flight EXCEPT ![l] = r]
  BY DEF IInv, TypeOK, Lead, At, RequestOK, AccessOK, SignedIn
<1> DEFINE access == req[r].user \in granted
<1>2. PICK k : k = [req[r] EXCEPT !.pc = "leading", !.granted = access]
  OBVIOUS
<1>2a. access \in BOOLEAN /\ (access <=> req[r].user \in granted)
  OBVIOUS
<1>3. /\ k \in Request
      /\ k.pc = "leading" /\ k.login = l /\ k.token = req[r].token /\ k.user = req[r].user
      /\ k.kind = req[r].kind /\ k.target = req[r].target /\ k.granted = access
  <2> HIDE DEF access
  <2> QED BY <1>1, <1>2, <1>2a DEF Request, Places
<1>4. req' = [req EXCEPT ![r] = k]
  BY <1>1, <1>2 DEF TypeOK, Lead
<1>5. RequestOK(k, r) /\ \A q \in Requests : SameUser(k, req[q]) /\ SameUser(req[q], k)
  <2>1. k.user \in granted => k.granted
    BY <1>2a, <1>3
  <2>2. AccessOK(k)
    BY <1>1, <1>3, <2>1 DEF RequestOK, AccessOK, SignedIn
  <2>3. LocksOK(k, r) /\ LoginOK(k) /\ k.token <= made
    BY <1>1, <1>3 DEF RequestOK, LocksOK, LoginOK
  <2>4. \A q \in Requests : SameUser(k, req[q]) /\ SameUser(req[q], k)
    BY <1>3 DEF IInv, SameUser
  <2> QED BY <2>2, <2>3, <2>4 DEF RequestOK
<1>6. req'[r] = k /\ \A q \in Requests \ {r} : req'[q] = req[q]
  BY <1>1, <1>4 DEF TypeOK
<1>7. flight'[l] = r /\ \A i \in Tokens \ {l} : flight'[i] = flight[i]
  BY <1>1 DEF TypeOK
<1>8. FlightOK'
  <2>1. ASSUME NEW i \in Tokens, flight'[i] # NoRequest
        PROVE  req'[flight'[i]].pc \in {"leading", "read"} /\ req'[flight'[i]].login = i
    <3>1. CASE i = l
      BY <1>3, <1>6, <1>7, <3>1
    <3>2. CASE i # l
      <4>1. flight'[i] = flight[i] /\ flight[i] \in Requests
        BY <1>1, <1>7, <2>1, <3>2 DEF TypeOK
      <4>2. flight[i] # r
        BY <1>1, Flights
      <4> QED BY <1>1, <1>6, <2>1, <4>1, <4>2 DEF FlightOK
    <3> QED BY <3>1, <3>2
  <2>2. ASSUME NEW q \in Requests, req'[q].pc \in {"leading", "read"}
        PROVE  flight'[req'[q].login] = q
    <3>1. CASE q = r
      BY <1>3, <1>6, <1>7, <3>1
    <3>2. CASE q # r
      <4>1. req'[q] = req[q] /\ flight[req[q].login] = q /\ q # NoRequest /\ req[q].login \in Tokens
        BY <1>1, <1>6, <2>2, <3>2, Flights, Sizes DEF FlightOK, Requests, NoRequest
      <4> QED BY <1>1, <1>7, <4>1
    <3> QED BY <3>1, <3>2
  <2>3. ASSUME NEW q \in Requests, req'[q].pc = "following"
        PROVE  /\ flight'[req'[q].login] # NoRequest
               /\ LET j == req'[flight'[req'[q].login]] IN j.pc = "read" /\ j.seen => req'[q].granted
    <3>1. q # r /\ req'[q] = req[q]
      BY <1>3, <1>6, <2>3
    <3>2. req[q].login \in Tokens /\ flight[req[q].login] \in Requests
      BY <2>3, <3>1, Flights
    <3>3. flight[req[q].login] # NoRequest
      BY <1>1, <2>3, <3>1 DEF FlightOK
    <3>4. flight'[req[q].login] = flight[req[q].login] /\ flight[req[q].login] # r
      BY <1>1, <1>7, <3>2, <3>3, Flights
    <3>5. req'[flight[req[q].login]] = req[flight[req[q].login]]
      BY <1>6, <3>2, <3>4
    <3> QED BY <1>1, <2>3, <3>1, <3>3, <3>4, <3>5 DEF FlightOK
  <2> QED BY <2>1, <2>2, <2>3 DEF FlightOK
<1> QED BY <1>1, <1>3, <1>4, <1>5, <1>8, OneMoves DEF TypeOK

\* Who joins a check that has been answered was granted access when it was.
LEMMA FollowIInv ==
  ASSUME IInv, NEW r \in Requests, Follow(r)
  PROVE  IInv'
<1> DEFINE l == req[r].login
           leader == flight[l]
           access == req[r].user \in granted \/ (Checking(leader) /\ req[leader].granted)
<1>1. /\ TypeOK /\ UNCHANGED <<db, world, flight>> /\ req[r].pc = "access"
      /\ RequestOK(req[r], r) /\ req[r] \in Request /\ l \in Tokens
      /\ leader \in Requests /\ leader # NoRequest
  BY DEF IInv, TypeOK, Follow, At, RequestOK, AccessOK, SignedIn
<1>2. PICK k : k = [req[r] EXCEPT !.pc = "following", !.granted = access]
  OBVIOUS
<1>3. access \in BOOLEAN /\ (req[r].user \in granted => access)
  OBVIOUS
<1>4. req[leader].pc = "read" /\ req[leader].seen => access
  <2>1. RequestOK(req[leader], leader)
    BY <1>1 DEF IInv
  <2> QED BY <2>1 DEF RequestOK, AccessOK, SignedIn, Checking
<1>5. /\ k \in Request
      /\ k.pc = "following" /\ k.login = l /\ k.token = req[r].token /\ k.user = req[r].user
      /\ k.kind = req[r].kind /\ k.target = req[r].target /\ k.granted = access
  <2> HIDE DEF access
  <2> QED BY <1>1, <1>2, <1>3 DEF Request, Places
<1>6. req' = [req EXCEPT ![r] = k]
  BY <1>1, <1>2 DEF TypeOK, Follow
<1> HIDE DEF access
<1>7. AccessOK(k)
  BY <1>1, <1>3, <1>5 DEF RequestOK, AccessOK, SignedIn
<1>8. LocksOK(k, r) /\ LoginOK(k) /\ k.token <= made
  BY <1>1, <1>5 DEF RequestOK, LocksOK, LoginOK
<1>9. \A q \in Requests : SameUser(k, req[q]) /\ SameUser(req[q], k)
  BY <1>5 DEF IInv, SameUser
<1>10. FlightOK'
  BY <1>1, <1>4, <1>5, <1>6, FlightStays
<1> QED BY <1>1, <1>5, <1>6, <1>7, <1>8, <1>9, <1>10, OneMoves DEF TypeOK, RequestOK

\* The answer of GitHub holds for all who wait for it: they are the same user.
LEMMA ReadGitHubIInv ==
  ASSUME IInv, NEW r \in Requests, ReadGitHub(r)
  PROVE  IInv'
<1> DEFINE l == req[r].login
<1>1. /\ TypeOK /\ FlightOK /\ UNCHANGED <<db, world, flight>> /\ req[r].pc = "leading"
      /\ RequestOK(req[r], r) /\ req[r] \in Request /\ l \in Tokens /\ flight[l] = r
  BY DEF IInv, TypeOK, ReadGitHub, At, RequestOK, AccessOK, SignedIn, FlightOK
<1> DEFINE access == req[r].user \in granted
<1>2a. PICK answer \in {access, FALSE} :
         req' = [req EXCEPT ![r].pc = "read", ![r].seen = answer]
  BY DEF ReadGitHub
<1>2. answer \in BOOLEAN /\ (answer => req[r].user \in granted)
  <2>1. access \in BOOLEAN
    OBVIOUS
  <2>2. answer = access \/ answer = FALSE
    BY <1>2a, Zenon
  <2>3. answer \in BOOLEAN /\ (answer => access)
    BY <2>1, <2>2, Zenon
  <2> QED BY <2>3
<1>3. PICK k : k = [req[r] EXCEPT !.pc = "read", !.seen = answer]
  OBVIOUS
<1>4. /\ k \in Request
      /\ k.pc = "read" /\ k.login = l /\ k.token = req[r].token /\ k.user = req[r].user
      /\ k.kind = req[r].kind /\ k.target = req[r].target
      /\ k.granted = req[r].granted /\ k.seen = answer
  BY <1>1, <1>2, <1>3 DEF Request, Places
<1>5. req' = [req EXCEPT ![r] = k]
  BY <1>1, <1>2a, <1>3 DEF TypeOK
<1>6. AccessOK(k)
  BY <1>1, <1>2, <1>4 DEF RequestOK, AccessOK, SignedIn
<1>7. LocksOK(k, r) /\ LoginOK(k) /\ k.token <= made
  BY <1>1, <1>4 DEF RequestOK, LocksOK, LoginOK
<1>8. \A q \in Requests : SameUser(k, req[q]) /\ SameUser(req[q], k)
  BY <1>4 DEF IInv, SameUser
<1>9. req'[r] = k /\ \A q \in Requests \ {r} : req'[q] = req[q]
  BY <1>1, <1>5 DEF TypeOK
<1>10. FlightOK'
  <2>1. ASSUME NEW i \in Tokens, flight[i] # NoRequest
        PROVE  req'[flight[i]].pc \in {"leading", "read"} /\ req'[flight[i]].login = i
    <3>1. flight[i] \in Requests /\ req[flight[i]].pc \in {"leading", "read"} /\ req[flight[i]].login = i
      BY <1>1, <2>1 DEF FlightOK, TypeOK
    <3>2. CASE flight[i] = r
      BY <1>4, <1>9, <3>1, <3>2
    <3>3. CASE flight[i] # r
      BY <1>9, <3>1, <3>3
    <3> QED BY <3>2, <3>3
  <2>2. ASSUME NEW q \in Requests, req'[q].pc \in {"leading", "read"}
        PROVE  flight[req'[q].login] = q
    <3>1. CASE q = r
      BY <1>1, <1>4, <1>9, <3>1
    <3>2. CASE q # r
      BY <1>1, <1>9, <2>2, <3>2 DEF FlightOK
    <3> QED BY <3>1, <3>2
  <2>3. ASSUME NEW q \in Requests, req'[q].pc = "following"
        PROVE  /\ flight[req'[q].login] # NoRequest
               /\ LET j == req'[flight[req'[q].login]] IN j.pc = "read" /\ j.seen => req'[q].granted
    <3>1. q # r /\ req'[q] = req[q]
      BY <1>4, <1>9, <2>3
    <3>2. req[q].login \in Tokens /\ flight[req[q].login] \in Requests
      BY <2>3, <3>1, Flights
    <3>3. flight[req[q].login] # NoRequest
      BY <1>1, <2>3, <3>1 DEF FlightOK
    <3>4. CASE flight[req[q].login] = r
      <4>1. req[q].login = l /\ l # 0
        BY <1>1, <3>2, <3>4, Flights DEF Tokens
      <4>2. req[q].user = req[r].user
        BY <4>1 DEF IInv, SameUser
      <4>3. req[r].user \in granted => req[q].granted
        BY <2>3, <3>1, <4>2 DEF IInv, RequestOK, AccessOK, SignedIn
      <4> QED BY <1>2, <1>4, <1>9, <3>1, <3>3, <3>4, <4>3
    <3>5. CASE flight[req[q].login] # r
      <4>1. req'[flight[req[q].login]] = req[flight[req[q].login]]
        BY <1>9, <3>2, <3>5
      <4> QED BY <1>1, <2>3, <3>1, <3>3, <4>1 DEF FlightOK
    <3> QED BY <3>4, <3>5
  <2> QED BY <1>1, <2>1, <2>2, <2>3 DEF FlightOK
<1> QED BY <1>1, <1>4, <1>5, <1>6, <1>7, <1>8, <1>10, OneMoves DEF TypeOK, RequestOK

-----------------------------------------------------------------------------
(* Transactions that write sessions *)

\* A transaction deletes rows, and gives a bearer nobody had to a new login or to a row that
\* loses its own.
Rewritten ==
  /\ made' \in {made, made + 1}
  /\ \A t \in Rows' :
       \/ t \in Rows /\ session'[t] = session[t]
       \/ /\ t = made + 1 /\ made' = made + 1
          /\ \/ session'[t].login = made + 1
             \/ \E s \in Rows \ Rows' : session'[t] = session[s]
  /\ \A l \in ended' \ ended : \E s \in Rows : l = session[s].login
  /\ \A t \in Rows' : session'[t].login \notin ended' \ ended

\* A login stays with its one row, or ends.
LEMMA SessionsStay ==
  ASSUME IInv, TypeOK', Rewritten,
         \A t \in Rows' : user'[session'[t].user] = "enabled"
  PROVE  SessionsOK'
<1>1. TypeOK /\ SessionsOK /\ made \in Nat /\ made' \in Nat /\ made <= made'
  BY DEF IInv, TypeOK, Rewritten
<1>2. \A t \in Rows : t \in Nat /\ t <= made /\ session[t].login \in Nat
                      /\ session[t].login <= made /\ session[t].login \notin ended
  BY <1>1, Sizes DEF TypeOK, SessionsOK, RowOK, Rows, Tokens
<1>3. \A l \in ended : l \in Nat /\ l <= made
  BY <1>1 DEF TypeOK, SessionsOK
<1>4. ASSUME NEW t \in Rows' PROVE RowOK(t)'
  <2>1. t <= made' /\ session'[t].login <= made' /\ session'[t].login \notin ended
    <3>1. CASE t \in Rows /\ session'[t] = session[t]
      BY <1>1, <1>2, <3>1
    <3>2. CASE t = made + 1 /\ made' = made + 1 /\ session'[t].login = made + 1
      BY <1>1, <1>3, <3>2
    <3>3. ASSUME t = made + 1, made' = made + 1, NEW s \in Rows, session'[t] = session[s]
          PROVE  t <= made' /\ session'[t].login <= made' /\ session'[t].login \notin ended
      BY <1>1, <1>2, <3>3
    <3> QED BY <3>1, <3>2, <3>3 DEF Rewritten
  <2>2. session'[t].login \notin ended'
    BY <2>1 DEF Rewritten
  <2> QED BY <2>1, <2>2 DEF RowOK
<1>5. ASSUME NEW s \in Rows', NEW t \in Rows', session'[s].login = session'[t].login, s # t
      PROVE  FALSE
  <2>1. ASSUME NEW a \in Rows', NEW b \in Rows', session'[a].login = session'[b].login, a # b,
               a = made + 1
        PROVE  FALSE
    <3>1. b \in Rows /\ session'[b] = session[b]
      BY <2>1 DEF Rewritten
    <3>2. a \notin Rows
      BY <1>1, <1>2, <2>1
    <3>3. CASE session'[a].login = made + 1
      BY <1>1, <1>2, <2>1, <3>1, <3>3
    <3>4. ASSUME NEW c \in Rows \ Rows', session'[a] = session[c]
          PROVE  FALSE
      BY <1>1, <2>1, <3>1, <3>4 DEF SessionsOK
    <3> QED BY <2>1, <3>2, <3>3, <3>4 DEF Rewritten
  <2>2. CASE s = made + 1 \/ t = made + 1
    BY <1>5, <2>1, <2>2
  <2>3. CASE s # made + 1 /\ t # made + 1
    BY <1>1, <1>5, <2>3 DEF Rewritten, SessionsOK
  <2> QED BY <2>2, <2>3
<1>6. ASSUME NEW l \in ended' PROVE l <= made'
  <2>1. l \in Nat /\ l <= made
    BY <1>2, <1>3 DEF Rewritten
  <2> QED BY <1>1, <2>1
<1> QED BY <1>4, <1>5, <1>6 DEF SessionsOK

\* What a request has read of its bearer and login stays true.
LEMMA RequestStays ==
  ASSUME IInv, Rewritten, UNCHANGED granted, NEW r \in Requests, NEW k \in Request, req'[r] = k,
         RequestOK(k, r), LocksOK(req[r], r)'
  PROVE  RequestOK(req[r], r)'
<1>1. /\ made \in Nat /\ made' \in {made, made + 1} /\ k.token \in Nat /\ k.token <= made
      /\ k.login \in Nat
  BY DEF IInv, TypeOK, Request, RequestOK, Rewritten
<1>2. k.token \in Rows' => k.token \in Rows
  BY <1>1 DEF Rewritten
<1>3. AccessOK(req[r])'
  BY <1>2 DEF RequestOK, AccessOK
<1>4. LoginOK(k)'
  <2>1. ASSUME k.login # 0 PROVE k.login <= made
    BY <2>1 DEF RequestOK, LoginOK
  <2>2. ASSUME k.login # 0, NEW t \in Rows', session'[t].login = k.login
        PROVE  session'[t].user = k.user
    <3>1. session'[t].login # made + 1
      BY <1>1, <2>1, <2>2
    <3> QED BY <2>2, <3>1 DEF Rewritten, RequestOK, LoginOK
  <2> QED BY <1>1, <2>1, <2>2 DEF LoginOK
<1>5. LoginOK(req[r])'
  BY <1>4 DEF LoginOK
<1> QED BY <1>1, <1>3, <1>5 DEF RequestOK

\* A request leaves a transaction, or waits in it for what another one holds.
LEMMA TransactionKeeps ==
  ASSUME IInv, NEW r \in Requests, NEW pc \in {"over", "inserting", "changing"}, To(r, pc),
         req[r].pc \notin {"over", "leading", "read"}, UNCHANGED <<world, flight>>,
         made' = made \/ pc = "over", Rewritten,
         user' \in [Users -> {"none", "enabled", "disabled"}],
         session' \in [Tokens -> [user : Users, login : Tokens] \cup {NoSession}],
         ended' \subseteq Nat, locked' \in Requests \cup {NoRequest},
         writing' \in [Users -> Requests \cup {NoRequest}],
         \A t \in Rows' : user'[session'[t].user] = "enabled",
         AdminRemains', \A q \in Requests : LocksOK(req[q], q)'
  PROVE  IInv'
<1>1. /\ TypeOK /\ BearersOK /\ RequestOK(req[r], r) /\ req[r] \in Request /\ pc \in Places
      /\ made \in Nat /\ made' \in Nat /\ made' \in {made, made + 1}
      /\ \A q \in Requests : SameUser(req[r], req[q]) /\ SameUser(req[q], req[r])
  BY DEF IInv, TypeOK, Places, Rewritten
<1>2. PICK k \in Request : k = Turned(req[r], pc)
  BY <1>1, Turns
<1>3. req' = [req EXCEPT ![r] = k] /\ k.pc = pc
  BY <1>1, <1>2, Turns
<1>4. req' \in [Requests -> Request] /\ req'[r] = k /\ \A q \in Requests \ {r} : req'[q] = req[q]
  BY <1>1, <1>3 DEF TypeOK
<1>5. /\ \A q \in Requests : SameUser(k, req[q]) /\ SameUser(req[q], k)
      /\ k.token <= made /\ LoginOK(k) /\ AccessOK(k)
  <2>1. CASE pc = "over"
    <3>1. k = [Unused EXCEPT !.pc = "over"]
      BY <1>1, <1>2, <2>1, Turns
    <3> QED BY <1>1, <3>1, OverOK DEF RequestOK
  <2>2. CASE pc # "over"
    <3>1. k = [req[r] EXCEPT !.pc = pc]
      BY <1>1, <1>2, <2>2, Turns
    <3>2. k.token = req[r].token /\ k.login = req[r].login /\ k.user = req[r].user
      BY <1>1, <3>1 DEF Request
    <3>3. AccessOK(k)
      BY <1>3 DEF AccessOK, SignedIn
    <3> QED BY <1>1, <3>2, <3>3 DEF RequestOK, LoginOK, SameUser
  <2> QED BY <2>1, <2>2
<1>6. TypeOK'
  BY <1>1, <1>4 DEF TypeOK, world
<1>7. BearersOK'
  <2>1. Pending' \subseteq Pending
    BY <1>4 DEF Pending
  <2>2. pc = "over" => r \in Pending /\ r \notin Pending'
    BY <1>3, <1>4 DEF Pending
  <2> QED BY <2>1, <2>2, <1>1, BearersKept DEF Rewritten
<1>8. SessionsOK'
  BY <1>6, SessionsStay
<1>9. FlightOK'
  BY <1>3, FlightStays
<1>10. ASSUME NEW q \in Requests PROVE RequestOK(req[q], q)'
  <2>1. CASE q = r
    <3>1. LoginOK(k)'
      <4>1. /\ made \in Nat /\ made' \in {made, made + 1} /\ k.login \in Nat
        BY <1>1 DEF Request, Rewritten
      <4>2. ASSUME k.login # 0, NEW t \in Rows', session'[t].login = k.login
            PROVE  session'[t].user = k.user
        <5>1. session'[t].login # made + 1
          BY <1>5, <4>1, <4>2 DEF LoginOK
        <5> QED BY <1>5, <4>2, <5>1 DEF Rewritten, LoginOK
      <4> QED BY <1>5, <4>1, <4>2 DEF LoginOK
    <3>2. AccessOK(k)'
      BY <1>3 DEF AccessOK, SignedIn
    <3>3. k.token <= made'
      <4>1. k.token \in Nat
        BY DEF Request
      <4> QED BY <1>1, <1>5, <4>1
    <3>4. LoginOK(req[r])' /\ AccessOK(req[r])' /\ req'[r].token <= made'
      BY <1>4, <3>1, <3>2, <3>3 DEF LoginOK, AccessOK, Rows
    <3> QED BY <2>1, <3>4 DEF RequestOK
  <2>2. CASE q # r
    <3>1. PICK j \in Request : j = req[q]
      BY <1>1 DEF TypeOK
    <3>2. RequestOK(j, q) /\ req'[q] = j
      BY <1>4, <2>2, <3>1 DEF IInv
    <3> QED BY <3>1, <3>2, RequestStays DEF world
  <2> QED BY <2>1, <2>2
<1>11. ASSUME NEW p \in Requests, NEW q \in Requests PROVE SameUser(req[p], req[q])'
  <2>1. SameUser(req'[p], req'[q])
    BY <1>4, <1>5 DEF SameUser, IInv
  <2> QED BY <2>1 DEF SameUser
<1> QED BY <1>6, <1>7, <1>8, <1>9, <1>10, <1>11 DEF IInv

\* Deleting rows ends their logins and leaves the other rows alone.
LEMMA Deletes ==
  ASSUME IInv, NEW ts \in SUBSET Tokens, session' = Deleted(ts), ended' = EndedWith(ts),
         UNCHANGED made
  PROVE  /\ Rewritten /\ Rows' = Rows \ ts
         /\ \A t \in Rows' : session'[t] = session[t]
         /\ session' \in [Tokens -> [user : Users, login : Tokens] \cup {NoSession}]
         /\ ended' \subseteq Nat
<1>1. TypeOK /\ SessionsOK
  BY DEF IInv
<1>2. Rows' = Rows \ ts /\ \A t \in Rows' : session'[t] = session[t]
  BY DEF Rows, Deleted
<1>3. ASSUME NEW l \in ended' \ ended PROVE \E s \in Rows \cap ts : l = session[s].login
  <2>1. PICK s \in ts : l = session[s].login /\ l # 0
    BY <1>3 DEF EndedWith
  <2>2. NoSession.login = 0
    BY DEF NoSession
  <2>3. session[s] # NoSession
    BY <2>1, <2>2
  <2> QED BY <2>1, <2>3 DEF Rows
<1>4. \A t \in Rows' : session'[t].login \notin ended' \ ended
  BY <1>1, <1>2, <1>3 DEF SessionsOK
<1>5. Rewritten
  BY <1>2, <1>3, <1>4 DEF Rewritten
<1>6. session' \in [Tokens -> [user : Users, login : Tokens] \cup {NoSession}]
  BY <1>1 DEF Deleted, TypeOK
<1>7. ended' \subseteq Nat
  <2>1. \A s \in Rows : session[s].login \in Nat
    BY <1>1 DEF TypeOK, Rows, Tokens
  <2>2. ended \subseteq Nat
    BY <1>1 DEF TypeOK
  <2>3. ASSUME NEW l \in ended' PROVE l \in Nat
    <3>1. CASE l \in ended
      BY <2>2, <3>1
    <3>2. CASE l \notin ended
      <4>1. PICK z \in Rows : l = session[z].login
        BY <1>3, <2>3, <3>2
      <4> QED BY <2>1, <4>1
    <3> QED BY <3>1, <3>2
  <2> QED BY <2>3
<1> QED BY <1>2, <1>5, <1>6, <1>7

\* The locks of the others stay when a request gives up its own.
LEMMA OthersHold ==
  ASSUME IInv, NEW r \in Requests, To(r, "over"),
         \A q \in Requests \ {r} : req[q].pc = "inserting" =>
           writing'[req[q].user] = q /\ user'[req[q].user] # "disabled",
         \A q \in Requests \ {r} : req[q].pc = "changing" =>
           locked' = q /\ \A a \in Admins : user[a] = "enabled" => user'[a] = "enabled"
  PROVE  \A q \in Requests : LocksOK(req[q], q)'
<1>1. TypeOK /\ \A q \in Requests : RequestOK(req[q], q)
  BY DEF IInv
<1>2. PICK k : k = [Unused EXCEPT !.pc = "over"]
  OBVIOUS
<1>3. k.pc = "over" /\ k.kind = "use"
  BY <1>2 DEF Unused
<1>4. req'[r] = k /\ \A q \in Requests \ {r} : req'[q] = req[q]
  BY <1>1, <1>2 DEF To, TypeOK
<1>5. LocksOK(req[r], r)'
  BY <1>3, <1>4 DEF LocksOK
<1>6. ASSUME NEW q \in Requests \ {r} PROVE LocksOK(req[q], q)'
  <2>1. PICK j : j = req[q]
    OBVIOUS
  <2>2. req'[q] = j /\ LocksOK(j, q)
    BY <1>1, <1>4, <2>1 DEF RequestOK
  <2>3. j.pc = "changing" /\ ~j.enable /\ j.target \in Admins => OtherAdmins(j.target)' # {}
    BY <2>1, <2>2 DEF LocksOK, OtherAdmins
  <2>4. LocksOK(j, q)'
    BY <2>1, <2>2, <2>3 DEF LocksOK
  <2> QED BY <2>2, <2>4 DEF LocksOK, OtherAdmins
<1> QED BY <1>5, <1>6

\* The new bearer of a row is nobody else's, and takes its login along.
LEMMA RotateIInv ==
  ASSUME IInv, NEW r \in Requests, Rotate(r)
  PROVE  IInv'
<1> DEFINE t == req[r].token
<1>1. /\ TypeOK /\ SessionsOK /\ RequestOK(req[r], r) /\ req[r].pc = "rotating"
      /\ To(r, "over") /\ UNCHANGED <<user, ended, writing, locked, world, flight>>
      /\ t \in Nat \ {0} /\ t <= made /\ made \in Nat
  BY DEF IInv, TypeOK, Rotate, At, RequestOK, AccessOK, SignedIn, Request
<1>2. t \in Tokens /\ made + 1 \in Tokens
  BY <1>1, BearersInRange DEF IInv
<1>3. \A q \in Requests : LocksOK(req[q], q)'
  BY <1>1, OthersHold DEF IInv, RequestOK, LocksOK
<1>4. AdminRemains'
  BY <1>1 DEF IInv, AdminRemains
<1>5. /\ Rewritten /\ made' \in {made, made + 1}
      /\ session' \in [Tokens -> [user : Users, login : Tokens] \cup {NoSession}]
      /\ \A s \in Rows' : user[session'[s].user] = "enabled"
  <2>1. CASE session[t] = NoSession
    <3>1. session' = session /\ made' = made
      BY <2>1 DEF Rotate
    <3>2. Rows' = Rows
      BY <3>1 DEF Rows
    <3> QED BY <1>1, <3>1, <3>2 DEF Rewritten, TypeOK, SessionsOK, RowOK
  <2>2. CASE session[t] # NoSession
    <3>1. session' = [Deleted({t}) EXCEPT ![made + 1] = session[t]] /\ made' = made + 1
      BY <2>2 DEF Rotate
    <3>2. /\ session'[made + 1] = session[t] /\ session'[t] = NoSession
          /\ \A s \in Tokens \ {t, made + 1} : session'[s] = session[s]
      BY <1>1, <1>2, <3>1 DEF Deleted
    <3>3. t \in Rows /\ t \notin Rows'
      BY <1>2, <2>2, <3>2 DEF Rows
    <3>4. \A s \in Rows' : s = made + 1 \/ (s \in Rows /\ session'[s] = session[s])
      BY <3>2, <3>3 DEF Rows
    <3>5. Rewritten
      BY <1>1, <3>1, <3>2, <3>3, <3>4 DEF Rewritten
    <3>6. session' \in [Tokens -> [user : Users, login : Tokens] \cup {NoSession}]
      BY <1>1, <1>2, <3>1 DEF Deleted, TypeOK
    <3>7. \A s \in Rows : user[session[s].user] = "enabled"
      BY <1>1 DEF SessionsOK, RowOK
    <3>8. \A s \in Rows' : user[session'[s].user] = "enabled"
      BY <3>2, <3>3, <3>4, <3>7
    <3> QED BY <1>1, <3>1, <3>5, <3>6, <3>8
  <2> QED BY <2>1, <2>2
<1> QED BY <1>1, <1>3, <1>4, <1>5, TransactionKeeps DEF TypeOK

\* The login that ends is the one that has the bearer.
LEMMA LogoutIInv ==
  ASSUME IInv, NEW r \in Requests, Logout(r)
  PROVE  IInv'
<1> DEFINE t == req[r].token
<1>1. /\ TypeOK /\ SessionsOK /\ RequestOK(req[r], r) /\ req[r].pc = "deleting"
      /\ To(r, "over") /\ UNCHANGED <<user, made, writing, locked, world, flight>>
      /\ session' = Deleted({t}) /\ ended' = EndedWith({t})
      /\ t \in Nat \ {0} /\ t <= made
  BY DEF IInv, TypeOK, Logout, At, RequestOK, AccessOK, SignedIn, Request
<1>2. {t} \in SUBSET Tokens
  BY <1>1, BearersInRange DEF IInv
<1>3. \A q \in Requests : LocksOK(req[q], q)'
  BY <1>1, OthersHold DEF IInv, RequestOK, LocksOK
<1>4. AdminRemains'
  BY <1>1 DEF IInv, AdminRemains
<1>5. /\ Rewritten /\ Rows' = Rows \ {t} /\ \A s \in Rows' : session'[s] = session[s]
      /\ session' \in [Tokens -> [user : Users, login : Tokens] \cup {NoSession}]
      /\ ended' \subseteq Nat
  BY <1>1, <1>2, Deletes
<1>6. \A s \in Rows' : user'[session'[s].user] = "enabled"
  BY <1>1, <1>5 DEF SessionsOK, RowOK
<1> QED BY <1>1, <1>3, <1>4, <1>5, <1>6, TransactionKeeps DEF TypeOK

\* The row of the user is held by the login that inserts, so no other login counts on it.
LEMMA CommitLoginIInv ==
  ASSUME IInv, NEW r \in Requests, CommitLogin(r)
  PROVE  IInv'
<1> DEFINE u == req[r].user
           old == {req[r].token} \ {0}
<1>1. /\ TypeOK /\ SessionsOK /\ AdminRemains /\ RequestOK(req[r], r) /\ req[r].pc = "inserting"
      /\ To(r, "over") /\ UNCHANGED <<locked, world, flight>> /\ made' = made + 1
      /\ session' = [Deleted(old) EXCEPT ![made + 1] = [user |-> u, login |-> made + 1]]
      /\ ended' = EndedWith(old)
      /\ user' = [user EXCEPT ![u] = IF @ = "none" THEN "enabled" ELSE @]
      /\ writing' = [writing EXCEPT ![u] = NoRequest]
      /\ req[r].token \in Nat /\ req[r].token <= made /\ made \in Nat
      /\ u \in Users /\ writing[u] = r /\ user[u] # "disabled"
      /\ user[u] \in {"none", "enabled", "disabled"}
  BY DEF IInv, TypeOK, CommitLogin, At, RequestOK, LocksOK, Request
<1>2. old \in SUBSET Tokens /\ made + 1 \in Tokens
  BY <1>1, BearersInRange DEF IInv
<1>3. /\ user'[u] = "enabled" /\ \A v \in Users \ {u} : user'[v] = user[v]
      /\ user' \in [Users -> {"none", "enabled", "disabled"}]
  BY <1>1 DEF TypeOK
<1>4. /\ writing' \in [Users -> Requests \cup {NoRequest}]
      /\ \A v \in Users \ {u} : writing'[v] = writing[v]
  BY <1>1 DEF TypeOK
<1>5. \A q \in Requests : LocksOK(req[q], q)'
  <2>1. ASSUME NEW q \in Requests \ {r}, req[q].pc = "inserting"
        PROVE  writing'[req[q].user] = q /\ user'[req[q].user] # "disabled"
    <3>1. req[q].user \in Users /\ writing[req[q].user] = q /\ user[req[q].user] # "disabled"
      BY <2>1 DEF IInv, RequestOK, LocksOK
    <3> QED BY <1>1, <1>3, <1>4, <3>1
  <2>2. \A q \in Requests \ {r} : req[q].pc = "changing" =>
          locked' = q /\ \A a \in Admins : user[a] = "enabled" => user'[a] = "enabled"
    BY <1>1, <1>3, Sizes DEF IInv, RequestOK, LocksOK
  <2> QED BY <1>1, <2>1, <2>2, OthersHold
<1>6. AdminRemains'
  BY <1>1, <1>3, Sizes DEF AdminRemains
<1>7. /\ session'[made + 1] = [user |-> u, login |-> made + 1]
      /\ \A s \in Tokens \ {made + 1} : session'[s] = IF s \in old THEN NoSession ELSE session[s]
      /\ session' \in [Tokens -> [user : Users, login : Tokens] \cup {NoSession}]
  BY <1>1, <1>2 DEF Deleted, TypeOK
<1>8. \A s \in Rows' : s = made + 1 \/ (s \in Rows /\ session'[s] = session[s] /\ s \notin old)
  BY <1>7 DEF Rows
<1>9. ASSUME NEW l \in ended' \ ended PROVE \E s \in Rows \cap old : l = session[s].login
  <2>1. PICK s \in old : l = session[s].login /\ l # 0
    BY <1>1, <1>9 DEF EndedWith
  <2>2. NoSession.login = 0
    BY DEF NoSession
  <2>3. session[s] # NoSession
    BY <2>1, <2>2
  <2> QED BY <1>2, <2>1, <2>3 DEF Rows
<1>10. \A s \in Rows : session[s].login \in Nat /\ session[s].login <= made
  BY <1>1 DEF TypeOK, SessionsOK, RowOK, Rows, Tokens
<1>11. ASSUME NEW s \in Rows', session'[s].login \in ended' \ ended PROVE FALSE
  <2>1. PICK z \in Rows \cap old : session'[s].login = session[z].login
    BY <1>9, <1>11
  <2>2. CASE s = made + 1
    BY <1>1, <1>7, <1>10, <2>1, <2>2
  <2>3. CASE s # made + 1
    <3>1. s \in Rows /\ session[s].login = session[z].login /\ s \notin old
      BY <1>8, <2>1, <2>3
    <3>2. s = z
      BY <1>1, <2>1, <3>1 DEF SessionsOK
    <3> QED BY <2>1, <3>1, <3>2
  <2> QED BY <2>2, <2>3
<1>12. Rewritten
  <2>1. session'[made + 1].login = made + 1
    BY <1>7
  <2>2. \A l \in ended' \ ended : \E s \in Rows : l = session[s].login
    BY <1>9
  <2> QED BY <1>1, <1>8, <1>11, <2>1, <2>2 DEF Rewritten
<1>13. ended' \subseteq Nat
  <2>1. ended \subseteq Nat
    BY <1>1 DEF TypeOK
  <2>2. ASSUME NEW l \in ended' PROVE l \in Nat
    BY <1>9, <1>10, <2>1, <2>2
  <2> QED BY <2>2
<1>14. ASSUME NEW s \in Rows' PROVE user'[session'[s].user] = "enabled"
  <2>1. CASE s = made + 1
    BY <1>3, <1>7, <2>1
  <2>2. CASE s # made + 1
    <3>0. s \in Rows /\ session'[s] = session[s]
      BY <1>8, <2>2
    <3>1. session[s].user \in Users /\ user[session[s].user] = "enabled"
      BY <1>1, <3>0 DEF SessionsOK, RowOK, TypeOK, Rows
    <3> QED BY <1>3, <3>0, <3>1
  <2> QED BY <2>1, <2>2
<1> QED BY <1>1, <1>3, <1>4, <1>5, <1>6, <1>7, <1>12, <1>13, <1>14, TransactionKeeps DEF TypeOK

\* No login holds the row of the target, and nobody else changes user access.
LEMMA CommitChangeIInv ==
  ASSUME IInv, NEW r \in Requests, CommitChange(r)
  PROVE  IInv'
<1> DEFINE u == req[r].target
           known == user[u] # "none"
           gone == IF known /\ ~req[r].enable THEN {t \in Tokens : session[t].user = u} ELSE {}
<1>1. /\ TypeOK /\ SessionsOK /\ AdminRemains /\ RequestOK(req[r], r) /\ req[r].pc = "changing"
      /\ To(r, "over") /\ UNCHANGED <<made, writing, world, flight>>
      /\ session' = Deleted(gone) /\ ended' = EndedWith(gone)
      /\ user' = IF known THEN [user EXCEPT ![u] = IF req[r].enable THEN "enabled" ELSE "disabled"]
                          ELSE user
      /\ locked' = NoRequest
      /\ u \in Users /\ writing[u] = NoRequest /\ locked = r
  BY DEF IInv, TypeOK, CommitChange, At, RequestOK, LocksOK
<1>2. /\ \A v \in Users \ {u} : user'[v] = user[v]
      /\ user' \in [Users -> {"none", "enabled", "disabled"}]
      /\ ~known => user'[u] = user[u]
      /\ known => user'[u] = IF req[r].enable THEN "enabled" ELSE "disabled"
  BY <1>1 DEF TypeOK
<1>3. gone \in SUBSET Tokens
  OBVIOUS
<1>4. \A q \in Requests : LocksOK(req[q], q)'
  <2>1. ASSUME NEW q \in Requests \ {r}, req[q].pc = "inserting"
        PROVE  writing'[req[q].user] = q /\ user'[req[q].user] # "disabled"
    <3>1. /\ req[q].user \in Users /\ writing[req[q].user] = q /\ user[req[q].user] # "disabled"
          /\ q # NoRequest
      BY <2>1, Sizes DEF IInv, RequestOK, LocksOK, Requests, NoRequest
    <3> QED BY <1>1, <1>2, <3>1
  <2>2. \A q \in Requests \ {r} : req[q].pc # "changing"
    BY <1>1 DEF IInv, RequestOK, LocksOK
  <2> QED BY <1>1, <2>1, <2>2, OthersHold
<1>5. AdminRemains'
  <2>1. CASE ~known
    BY <1>1, <1>2, <2>1, Sizes DEF AdminRemains
  <2>2. CASE known /\ req[r].enable
    BY <1>1, <1>2, <2>2, Sizes DEF AdminRemains
  <2>3. CASE known /\ ~req[r].enable /\ u \in Admins
    <3>1. PICK a \in Admins \ {u} : user[a] = "enabled"
      BY <1>1, <2>3 DEF RequestOK, LocksOK, OtherAdmins
    <3>2. user'[a] = "enabled"
      BY <1>2, <3>1, Sizes
    <3> QED BY <3>1, <3>2 DEF AdminRemains
  <2>4. CASE u \notin Admins
    BY <1>1, <1>2, <2>4, Sizes DEF AdminRemains
  <2> QED BY <2>1, <2>2, <2>3, <2>4
<1>6. /\ Rewritten /\ Rows' = Rows \ gone /\ \A s \in Rows' : session'[s] = session[s]
      /\ session' \in [Tokens -> [user : Users, login : Tokens] \cup {NoSession}]
      /\ ended' \subseteq Nat
  <2> HIDE DEF gone
  <2> QED BY <1>1, <1>3, Deletes
<1>7. ASSUME NEW s \in Rows' PROVE user'[session'[s].user] = "enabled"
  <2>1. s \in Rows /\ s \notin gone /\ s \in Tokens /\ session'[s] = session[s]
    BY <1>6 DEF Rows
  <2>2. session[s].user \in Users /\ user[session[s].user] = "enabled"
    BY <1>1, <2>1 DEF SessionsOK, RowOK, TypeOK, Rows
  <2> QED BY <1>2, <2>1, <2>2
<1> QED BY <1>1, <1>2, <1>4, <1>5, <1>6, <1>7, TransactionKeeps DEF TypeOK

\* A login that waits for the row of its user holds it until it commits.
LEMMA UpsertIInv ==
  ASSUME IInv, NEW r \in Requests, Upsert(r)
  PROVE  IInv'
<1> DEFINE u == req[r].user
<1>1. /\ TypeOK /\ SessionsOK /\ req[r].pc = "upsert" /\ u \in Users /\ writing[u] = NoRequest
      /\ req[r] \in Request /\ RequestOK(req[r], r)
      /\ UNCHANGED <<user, session, made, ended, locked, world, flight>>
  BY DEF IInv, TypeOK, Upsert, At, RequestOK, LocksOK
<1>2. Rewritten /\ \A t \in Rows' : user'[session'[t].user] = "enabled"
  BY <1>1 DEF Rewritten, Rows, SessionsOK, RowOK
<1>3. AdminRemains'
  BY <1>1 DEF IInv, AdminRemains
<1>4. CASE To(r, "over") /\ UNCHANGED writing
  <2>1. \A q \in Requests : LocksOK(req[q], q)'
    BY <1>1, <1>4, OthersHold DEF IInv, RequestOK, LocksOK
  <2> QED BY <1>1, <1>2, <1>3, <1>4, <2>1, TransactionKeeps DEF TypeOK
<1>5. CASE user[u] # "disabled" /\ To(r, "inserting") /\ writing' = [writing EXCEPT ![u] = r]
  <2>1. req' = [req EXCEPT ![r].pc = "inserting"]
    BY <1>5 DEF To
  <2>2. /\ req'[r] = [req[r] EXCEPT !.pc = "inserting"]
        /\ \A q \in Requests \ {r} : req'[q] = req[q]
    BY <1>1, <2>1 DEF TypeOK
  <2>3. /\ writing'[u] = r /\ \A v \in Users \ {u} : writing'[v] = writing[v]
        /\ writing' \in [Users -> Requests \cup {NoRequest}]
    BY <1>1, <1>5 DEF TypeOK
  <2>4. LocksOK(req[r], r)'
    <3>1. /\ req'[r].pc = "inserting" /\ req'[r].user = u
          /\ req'[r].kind = req[r].kind /\ req'[r].target = req[r].target
      BY <1>1, <2>2 DEF Request
    <3>2. req[r].kind = "revoke" => req[r].target \in Users
      BY <1>1 DEF RequestOK, LocksOK
    <3> QED BY <1>1, <1>5, <2>3, <3>1, <3>2 DEF LocksOK
  <2>5. ASSUME NEW q \in Requests \ {r} PROVE LocksOK(req[q], q)'
    <3>1. PICK j : j = req[q]
      OBVIOUS
    <3>2. req'[q] = j /\ LocksOK(j, q) /\ q # NoRequest
      BY <2>2, <3>1, Sizes DEF IInv, RequestOK, Requests, NoRequest
    <3>3. LocksOK(j, q)'
      BY <1>1, <2>3, <3>2 DEF LocksOK, OtherAdmins
    <3> QED BY <3>2, <3>3 DEF LocksOK, OtherAdmins
  <2>6. \A q \in Requests : LocksOK(req[q], q)'
    BY <2>4, <2>5
  <2> QED BY <1>1, <1>2, <1>3, <1>5, <2>3, <2>6, TransactionKeeps DEF TypeOK
<1> QED BY <1>4, <1>5 DEF Upsert

\* Nobody else changes user access while the request holds what it checked.
LEMMA LockAccessIInv ==
  ASSUME IInv, NEW r \in Requests, LockAccess(r)
  PROVE  IInv'
<1>1. /\ TypeOK /\ SessionsOK /\ req[r].pc = "authorized" /\ req[r].kind = "revoke"
      /\ locked = NoRequest /\ req[r] \in Request /\ RequestOK(req[r], r)
      /\ UNCHANGED <<user, session, made, ended, writing, world, flight>>
  BY DEF IInv, TypeOK, LockAccess, At
<1>2. Rewritten /\ \A t \in Rows' : user'[session'[t].user] = "enabled"
  BY <1>1 DEF Rewritten, Rows, SessionsOK, RowOK
<1>3. AdminRemains'
  BY <1>1 DEF IInv, AdminRemains
<1>4. CASE To(r, "over") /\ locked' = NoRequest
  <2>1. \A q \in Requests : LocksOK(req[q], q)'
    BY <1>1, <1>4, OthersHold DEF IInv, RequestOK, LocksOK
  <2> QED BY <1>1, <1>2, <1>3, <1>4, <2>1, TransactionKeeps DEF TypeOK
<1>5. CASE MayChange(r) /\ To(r, "changing") /\ locked' = r
  <2>1. req' = [req EXCEPT ![r].pc = "changing"]
    BY <1>5 DEF To
  <2>2. /\ req'[r] = [req[r] EXCEPT !.pc = "changing"]
        /\ \A q \in Requests \ {r} : req'[q] = req[q]
    BY <1>1, <2>1 DEF TypeOK
  <2>3. LocksOK(req[r], r)'
    <3>1. /\ req'[r].pc = "changing" /\ req'[r].enable = req[r].enable
          /\ req'[r].kind = req[r].kind /\ req'[r].target = req[r].target
      BY <1>1, <2>2 DEF Request
    <3>2. req[r].target \in Users
      BY <1>1 DEF RequestOK, LocksOK
    <3>3. ~req[r].enable /\ req[r].target \in Admins => OtherAdmins(req[r].target) # {}
      BY <1>5 DEF MayChange
    <3> QED BY <1>1, <1>5, <3>1, <3>2, <3>3 DEF LocksOK, OtherAdmins
  <2>4. ASSUME NEW q \in Requests \ {r} PROVE LocksOK(req[q], q)'
    <3>1. PICK j : j = req[q]
      OBVIOUS
    <3>2. req'[q] = j /\ LocksOK(j, q) /\ q # NoRequest
      BY <2>2, <3>1, Sizes DEF IInv, RequestOK, Requests, NoRequest
    <3>3. LocksOK(j, q)'
      BY <1>1, <3>2 DEF LocksOK, OtherAdmins
    <3> QED BY <3>2, <3>3 DEF LocksOK, OtherAdmins
  <2>5. \A q \in Requests : LocksOK(req[q], q)'
    BY <2>3, <2>4
  <2> QED BY <1>1, <1>2, <1>3, <1>5, <2>5, TransactionKeeps DEF TypeOK
<1> QED BY <1>4, <1>5 DEF LockAccess

-----------------------------------------------------------------------------
(* Steps that concern many requests at once *)

\* One answer counts for all who waited for it, and nobody waits for it any more.
LEMMA LandIInv ==
  ASSUME IInv, NEW r \in Requests, Land(r)
  PROVE  IInv'
<1> DEFINE l == req[r].login
           who == {r} \cup Followers(r)
<1>1. /\ TypeOK /\ BearersOK /\ SessionsOK /\ AdminRemains /\ FlightOK
      /\ \A q \in Requests : RequestOK(req[q], q) /\ req[q] \in Request
      /\ \A p, q \in Requests : SameUser(req[p], req[q])
      /\ UNCHANGED <<db, world>> /\ req[r].pc = "read" /\ l \in Tokens /\ flight[l] = r
      /\ flight' = [flight EXCEPT ![l] = NoRequest] /\ Landed(r, who)
  BY DEF IInv, TypeOK, Land, At, RequestOK, AccessOK, FlightOK
<1>2. UNCHANGED <<user, session, made, ended, locked, writing, granted, changes, faults>>
  BY <1>1 DEF db, world
<1>3. \A q \in who : q \in Requests /\ req[q].pc \in {"read", "following"} /\ req[q].login = l
                     /\ (req[r].seen => req[q].granted)
  BY <1>1 DEF Followers, At, FlightOK, RequestOK, AccessOK
<1>4. DOMAIN req' = Requests /\ \A q \in Requests \ who : req'[q] = req[q]
  BY <1>1 DEF Landed
<1>5. ASSUME NEW q \in who
      PROVE  /\ req'[q] \in Request /\ req'[q].pc \in {"recheck", "over"} /\ RequestOK(req'[q], q)
             /\ req'[q].login = 0 \/ (req'[q].login = req[q].login /\ req'[q].user = req[q].user)
  <2>1. q \in Requests /\ req[q] \in Request /\ RequestOK(req[q], q)
        /\ req[q].token # 0
    BY <1>1, <1>3 DEF RequestOK, AccessOK, SignedIn
  <2>2. CASE ~req[r].seen
    <3>1. PICK k : k = [Unused EXCEPT !.pc = "over"]
      OBVIOUS
    <3>2. req'[q] = k
      BY <1>1, <2>1, <2>2, <3>1 DEF Landed
    <3>3. k \in Request /\ k.pc = "over" /\ RequestOK(k, q) /\ k.login = 0
      BY <1>1, <3>1, OverOK, UnusedFields DEF Unused
    <3> QED BY <3>2, <3>3
  <2>3. CASE req[r].seen
    <3> DEFINE dead == ~Live(req[q].token)
    <3>1. dead \in BOOLEAN
      OBVIOUS
    <3>2. dead => req[q].token \notin Rows
      BY <1>1, <2>1 DEF Live, Rows, SessionsOK, RowOK
    <3>3. PICK k : k = [req[q] EXCEPT !.pc = "recheck", !.dead = dead]
      OBVIOUS
    <3>4. req'[q] = k
      BY <1>1, <2>1, <2>3, <3>3 DEF Landed
    <3> HIDE DEF dead
    <3>5. /\ k \in Request /\ k.pc = "recheck" /\ k.dead = dead /\ k.granted = req[q].granted
          /\ k.token = req[q].token /\ k.login = req[q].login /\ k.user = req[q].user
          /\ k.kind = req[q].kind /\ k.target = req[q].target
      BY <2>1, <3>1, <3>3 DEF Request, Places
    <3>6. req[q].granted
      BY <1>3, <2>3
    <3>7. AccessOK(k)
      BY <2>1, <3>2, <3>5, <3>6 DEF AccessOK
    <3>8. LocksOK(k, q) /\ LoginOK(k) /\ k.token <= made
      BY <2>1, <3>5 DEF RequestOK, LocksOK, LoginOK
    <3> QED BY <3>4, <3>5, <3>7, <3>8 DEF RequestOK
  <2> QED BY <2>2, <2>3
<1>6. req' \in [Requests -> Request]
  BY <1>1, <1>3, <1>4, <1>5 DEF Landed
<1>7. TypeOK'
  BY <1>1, <1>2, <1>6 DEF TypeOK
<1>8. BearersOK'
  <2>1. Pending' \subseteq Pending
    BY <1>3, <1>4 DEF Pending
  <2> QED BY <1>1, <1>2, <2>1, BearersKept
<1>9. SessionsOK' /\ AdminRemains'
  BY <1>1, <1>2 DEF SessionsOK, RowOK, Rows, AdminRemains
<1>10. ASSUME NEW q \in Requests PROVE RequestOK(req[q], q)'
  <2>1. PICK j : j = req'[q]
    OBVIOUS
  <2>2. RequestOK(j, q)
    BY <1>1, <1>4, <1>5, <2>1
  <2> QED BY <1>2, <2>1, <2>2, Undisturbed
<1>11. ASSUME NEW p \in Requests, NEW q \in Requests PROVE SameUser(req[p], req[q])'
  <2>1. \A i \in Requests :
          req'[i].login = 0 \/ (req'[i].login = req[i].login /\ req'[i].user = req[i].user)
    BY <1>4, <1>5
  <2>2. SameUser(req'[p], req'[q])
    BY <1>1, <2>1 DEF SameUser
  <2> QED BY <2>2 DEF SameUser
<1>12. flight'[l] = NoRequest /\ \A i \in Tokens \ {l} : flight'[i] = flight[i]
  BY <1>1 DEF TypeOK
<1>13. FlightOK'
  <2>1. ASSUME NEW i \in Tokens, flight'[i] # NoRequest
        PROVE  /\ flight'[i] = flight[i] /\ flight[i] \in Requests \ who
               /\ req'[flight'[i]] = req[flight[i]]
               /\ req'[flight'[i]].pc \in {"leading", "read"} /\ req'[flight'[i]].login = i
    <3>1. i # l /\ flight'[i] = flight[i] /\ flight[i] \in Requests
      BY <1>1, <1>12, <2>1 DEF TypeOK
    <3>2. req[flight[i]].pc \in {"leading", "read"} /\ req[flight[i]].login = i
      BY <1>1, <2>1, <3>1 DEF FlightOK
    <3>3. flight[i] \notin who
      BY <1>3, <3>1, <3>2
    <3> QED BY <1>4, <3>1, <3>2, <3>3
  <2>2. ASSUME NEW q \in Requests, req'[q].pc \in {"leading", "read", "following"}
        PROVE  req'[q] = req[q] /\ req[q].login \in Tokens \ {l}
    <3>1. q \notin who /\ req'[q] = req[q]
      BY <1>4, <1>5, <2>2
    <3>2. req[q].login \in Tokens
      BY <2>2, <3>1, Flights
    <3>3. req[q].login # l
      BY <1>1, <2>2, <3>1 DEF Followers, At, FlightOK
    <3> QED BY <3>1, <3>2, <3>3
  <2>3. ASSUME NEW q \in Requests, req'[q].pc \in {"leading", "read"}
        PROVE  flight'[req'[q].login] = q
    BY <1>1, <1>12, <2>2, <2>3 DEF FlightOK
  <2>4. ASSUME NEW q \in Requests, req'[q].pc = "following"
        PROVE  /\ flight'[req'[q].login] # NoRequest
               /\ LET j == req'[flight'[req'[q].login]] IN j.pc = "read" /\ j.seen => req'[q].granted
    <3>1. req'[q] = req[q] /\ req[q].login \in Tokens \ {l}
      BY <2>2, <2>4
    <3>2. flight'[req[q].login] = flight[req[q].login] /\ flight[req[q].login] # NoRequest
      BY <1>1, <1>12, <2>4, <3>1 DEF FlightOK
    <3>3. req'[flight'[req[q].login]] = req[flight[req[q].login]]
      BY <2>1, <3>1, <3>2
    <3>4. LET j == req[flight[req[q].login]] IN j.pc = "read" /\ j.seen => req[q].granted
      BY <1>1, <2>4, <3>1 DEF FlightOK
    <3> QED BY <3>1, <3>2, <3>3, <3>4
  <2> QED BY <2>1, <2>3, <2>4 DEF FlightOK
<1> QED BY <1>7, <1>8, <1>9, <1>10, <1>11, <1>13 DEF IInv

\* A request under way whose user is granted access notes it.
LEMMA GrantIInv ==
  ASSUME IInv, NEW u \in Users, Grant(u)
  PROVE  IInv'
<1>1. /\ TypeOK /\ BearersOK /\ SessionsOK /\ AdminRemains /\ FlightOK
      /\ \A q \in Requests : RequestOK(req[q], q) /\ req[q] \in Request
      /\ \A p, q \in Requests : SameUser(req[p], req[q])
      /\ granted' = granted \cup {u}
      /\ changes' = changes + 1 /\ UNCHANGED <<db, faults, flight>>
  BY DEF IInv, TypeOK, Grant
<1>2. UNCHANGED <<user, session, made, ended, locked, writing, faults, flight>> /\ Rows' = Rows
  BY <1>1 DEF db, Rows
<1>3. /\ req' = [q \in Requests |-> IF Checking(q) /\ req[q].user = u
                                    THEN [req[q] EXCEPT !.granted = TRUE] ELSE req[q]]
  BY DEF Grant
<1>4. ASSUME NEW q \in Requests
      PROVE  /\ req'[q] \in Request /\ RequestOK(req'[q], q)
             /\ req'[q].pc = req[q].pc /\ req'[q].login = req[q].login
             /\ req'[q].user = req[q].user /\ req'[q].seen = req[q].seen
             /\ req[q].granted => req'[q].granted
             /\ Checking(q) /\ req[q].user = u => req'[q].granted
  <2>1. req[q] \in Request /\ RequestOK(req[q], q)
    BY <1>1
  <2>2. CASE Checking(q) /\ req[q].user = u
    <3>1. PICK k : k = [req[q] EXCEPT !.granted = TRUE]
      OBVIOUS
    <3>2. req'[q] = k
      BY <1>3, <2>2, <3>1
    <3>3. /\ k \in Request /\ k.granted /\ k.pc = req[q].pc /\ k.login = req[q].login
          /\ k.user = req[q].user /\ k.seen = req[q].seen /\ k.token = req[q].token
          /\ k.kind = req[q].kind /\ k.target = req[q].target /\ k.dead = req[q].dead
          /\ k.enable = req[q].enable
      BY <2>1, <3>1 DEF Request
    <3>4. AccessOK(k) /\ LocksOK(k, q) /\ LoginOK(k) /\ k.token <= made
      BY <2>1, <3>3 DEF RequestOK, AccessOK, LocksOK, LoginOK
    <3> QED BY <3>2, <3>3, <3>4 DEF RequestOK
  <2>3. CASE ~(Checking(q) /\ req[q].user = u)
    <3>1. req'[q] = req[q]
      BY <1>3, <2>3
    <3> QED BY <2>1, <2>3, <3>1
  <2> QED BY <2>2, <2>3
<1>5. req' \in [Requests -> Request]
  BY <1>3, <1>4
<1>6. TypeOK'
  BY <1>1, <1>2, <1>5 DEF TypeOK
<1>7. BearersOK'
  <2>1. Pending' = Pending
    BY <1>4 DEF Pending
  <2> QED BY <1>1, <1>2, <2>1 DEF BearersOK
<1>8. SessionsOK' /\ AdminRemains'
  BY <1>1, <1>2 DEF SessionsOK, RowOK, AdminRemains
<1>9. ASSUME NEW q \in Requests PROVE RequestOK(req[q], q)'
  <2>1. PICK k : k = req'[q]
    OBVIOUS
  <2>2. RequestOK(k, q)
    BY <1>4, <2>1
  <2>3. k.pc \in {"leading", "read", "following"} /\ k.user = u => k.granted
    BY <1>4, <2>1 DEF Checking
  <2>4. AccessOK(k)'
    BY <1>1, <1>2, <2>2, <2>3 DEF RequestOK, AccessOK
  <2>5. LocksOK(k, q)' /\ LoginOK(k)'
    BY <1>2, <2>2 DEF RequestOK, LocksOK, LoginOK, OtherAdmins
  <2>6. AccessOK(req[q])' /\ LocksOK(req[q], q)' /\ LoginOK(req[q])'
    BY <2>1, <2>4, <2>5 DEF AccessOK, LocksOK, LoginOK, OtherAdmins, Rows
  <2> QED BY <1>2, <2>1, <2>2, <2>6 DEF RequestOK
<1>10. ASSUME NEW p \in Requests, NEW q \in Requests PROVE SameUser(req[p], req[q])'
  BY <1>1, <1>4 DEF SameUser
<1>11. FlightOK'
  <2>1. \A i \in Tokens : flight[i] # NoRequest => flight[i] \in Requests
    BY <1>1 DEF TypeOK
  <2>2. ASSUME NEW q \in Requests, req'[q].pc = "following"
        PROVE  /\ flight[req'[q].login] # NoRequest
               /\ LET j == req'[flight[req'[q].login]] IN j.pc = "read" /\ j.seen => req'[q].granted
    <3>1. req[q].pc = "following" /\ req'[q].login = req[q].login
      BY <1>4, <2>2
    <3>2. flight[req[q].login] \in Requests
      BY <3>1, Flights
    <3> QED BY <1>1, <1>4, <3>1, <3>2 DEF FlightOK
  <2>3. \A i \in Tokens : flight[i] # NoRequest =>
          req'[flight[i]].pc \in {"leading", "read"} /\ req'[flight[i]].login = i
    BY <1>1, <1>4, <2>1 DEF FlightOK
  <2>4. \A q \in Requests : req'[q].pc \in {"leading", "read"} => flight[req'[q].login] = q
    BY <1>1, <1>4 DEF FlightOK
  <2> QED BY <1>2, <2>2, <2>3, <2>4 DEF FlightOK
<1> QED BY <1>6, <1>7, <1>8, <1>9, <1>10, <1>11 DEF IInv

\* What was granted during a check stays noted when GitHub withdraws it.
LEMMA WithdrawIInv ==
  ASSUME IInv, NEW u \in Users, Withdraw(u)
  PROVE  IInv'
<1>1. /\ TypeOK /\ BearersOK /\ SessionsOK /\ AdminRemains /\ FlightOK
      /\ \A q \in Requests : RequestOK(req[q], q)
      /\ \A p, q \in Requests : SameUser(req[p], req[q])
      /\ granted' = granted \ {u} /\ changes' = changes + 1
      /\ UNCHANGED <<user, session, made, ended, locked, writing, faults, flight, req>>
  BY DEF IInv, Withdraw, db
<1>2. TypeOK'
  BY <1>1 DEF TypeOK
<1>3. Rows' = Rows /\ Pending' = Pending
  BY <1>1 DEF Rows, Pending
<1>4. BearersOK' /\ SessionsOK' /\ AdminRemains' /\ FlightOK'
  BY <1>1, <1>3 DEF BearersOK, SessionsOK, RowOK, AdminRemains, FlightOK
<1>5. ASSUME NEW q \in Requests PROVE RequestOK(req[q], q)'
  <2>1. AccessOK(req[q])'
    BY <1>1, <1>3 DEF RequestOK, AccessOK
  <2>2. LocksOK(req[q], q)' /\ LoginOK(req[q])'
    BY <1>1, <1>3 DEF RequestOK, LocksOK, LoginOK, OtherAdmins
  <2> QED BY <1>1, <2>1, <2>2 DEF RequestOK
<1>6. \A p, q \in Requests : SameUser(req[p], req[q])'
  BY <1>1 DEF SameUser
<1> QED BY <1>2, <1>4, <1>5, <1>6 DEF IInv

\* A row that expires is gone like one that is deleted.
LEMMA ExpireIInv ==
  ASSUME IInv, NEW t \in Tokens, Expire(t)
  PROVE  IInv'
<1>1. /\ TypeOK /\ BearersOK /\ SessionsOK /\ AdminRemains /\ FlightOK
      /\ \A q \in Requests : RequestOK(req[q], q) /\ req[q] \in Request
      /\ \A p, q \in Requests : SameUser(req[p], req[q])
      /\ session' = Deleted({t}) /\ ended' = EndedWith({t}) /\ faults' = faults + 1
      /\ UNCHANGED <<user, made, locked, writing, granted, changes, flight, req>>
  BY DEF IInv, TypeOK, Expire, Fault
<1>2. /\ Rewritten /\ Rows' = Rows \ {t} /\ \A s \in Rows' : session'[s] = session[s]
      /\ session' \in [Tokens -> [user : Users, login : Tokens] \cup {NoSession}]
      /\ ended' \subseteq Nat
  BY <1>1, Deletes
<1>3. TypeOK'
  <2>1. faults \in Nat
    BY <1>1 DEF TypeOK
  <2>2. faults' \in Nat
    BY <1>1, <2>1
  <2>3. /\ session' \in [Tokens -> [user : Users, login : Tokens] \cup {NoSession}]
        /\ ended' \subseteq Nat
    BY <1>2
  <2> QED BY <1>1, <2>2, <2>3 DEF TypeOK
<1>4. SessionsOK'
  <2>1. \A s \in Rows' : user'[session'[s].user] = "enabled"
    BY <1>1, <1>2 DEF SessionsOK, RowOK
  <2> QED BY <1>2, <1>3, <2>1, SessionsStay
<1>5. BearersOK' /\ AdminRemains' /\ FlightOK'
  BY <1>1 DEF BearersOK, Pending, AdminRemains, FlightOK
<1>6. ASSUME NEW q \in Requests PROVE RequestOK(req[q], q)'
  <2>1. LocksOK(req[q], q)'
    BY <1>1 DEF RequestOK, LocksOK, OtherAdmins
  <2>2. PICK k \in Request : k = req[q]
    BY <1>1
  <2>3. RequestOK(k, q) /\ req'[q] = k
    BY <1>1, <2>2
  <2> QED BY <1>1, <1>2, <2>1, <2>2, <2>3, RequestStays
<1>7. \A p, q \in Requests : SameUser(req[p], req[q])'
  BY <1>1 DEF SameUser
<1> QED BY <1>3, <1>4, <1>5, <1>6, <1>7 DEF IInv

\* A restart leaves no request under way, so nobody counts on a lock or a check.
LEMMA RestartIInv ==
  ASSUME IInv, Restart
  PROVE  IInv'
<1>1. /\ TypeOK /\ BearersOK /\ SessionsOK /\ AdminRemains
      /\ \A q \in Requests : RequestOK(req[q], q) /\ req[q] \in Request
      /\ \A p, q \in Requests : SameUser(req[p], req[q])
      /\ flight' = [l \in Tokens |-> NoRequest]
      /\ locked' = NoRequest /\ writing' = [u \in Users |-> NoRequest] /\ faults' = faults + 1
      /\ UNCHANGED <<user, session, made, ended, granted, changes>>
      /\ req' = [q \in Requests |-> IF Busy(q) THEN [Unused EXCEPT !.pc = "over"] ELSE req[q]]
  BY DEF IInv, TypeOK, Restart, Fault
<1>2. Rows' = Rows
  BY <1>1 DEF Rows
<1>3. ASSUME NEW q \in Requests
      PROVE  /\ req'[q] \in Request /\ RequestOK(req'[q], q)
             /\ req'[q].pc \in {"unused", "over", "authorized"}
             /\ req'[q].pc # "over" => req[q].pc # "over"
             /\ req'[q].login = 0 \/ req'[q] = req[q]
  <2>1. CASE Busy(q)
    <3>1. PICK k : k = [Unused EXCEPT !.pc = "over"]
      OBVIOUS
    <3>2. k \in Request /\ RequestOK(k, q) /\ k.pc = "over" /\ k.login = 0
      BY <1>1, <3>1, OverOK, UnusedFields DEF Unused
    <3> QED BY <1>1, <2>1, <3>1, <3>2
  <2>2. CASE ~Busy(q)
    BY <1>1, <2>2 DEF Busy, At
  <2> QED BY <2>1, <2>2
<1>4. TypeOK'
  BY <1>1, <1>3 DEF TypeOK
<1>5. BearersOK'
  <2>1. Pending' \subseteq Pending
    BY <1>3 DEF Pending
  <2> QED BY <1>1, <2>1, BearersKept
<1>6. SessionsOK' /\ AdminRemains'
  BY <1>1, <1>2 DEF SessionsOK, RowOK, AdminRemains
<1>7. FlightOK'
  BY <1>1, <1>3 DEF FlightOK
<1>8. ASSUME NEW q \in Requests PROVE RequestOK(req[q], q)'
  <2>1. PICK k : k = req'[q]
    OBVIOUS
  <2>2. RequestOK(k, q) /\ k.pc \in {"unused", "over", "authorized"}
    BY <1>3, <2>1
  <2>3. AccessOK(k)' /\ LoginOK(k)'
    BY <1>1, <1>2, <2>2 DEF RequestOK, AccessOK, LoginOK
  <2>4. LocksOK(k, q)'
    BY <2>2 DEF RequestOK, LocksOK
  <2>5. AccessOK(req[q])' /\ LocksOK(req[q], q)' /\ LoginOK(req[q])'
    BY <2>1, <2>3, <2>4 DEF AccessOK, LocksOK, LoginOK, OtherAdmins, Rows
  <2> QED BY <1>1, <2>1, <2>2, <2>5 DEF RequestOK
<1>9. ASSUME NEW p \in Requests, NEW q \in Requests PROVE SameUser(req[p], req[q])'
  <2>1. \A i \in Requests : req'[i].login = 0 \/ req'[i] = req[i]
    BY <1>3
  <2>2. SameUser(req[p], req[q])
    BY <1>1
  <2>3. SameUser(req'[p], req'[q])
    BY <2>1, <2>2 DEF SameUser
  <2> QED BY <2>3 DEF SameUser
<1> QED BY <1>4, <1>5, <1>6, <1>7, <1>8, <1>9 DEF IInv

-----------------------------------------------------------------------------
(* Theorems *)

\* The users can be numbered, so each who has signed in has a bearer of its own.
LEMMA Numbered ==
  /\ number \in [Users -> 1 .. Cardinality(Users)]
  /\ \A u, v \in Users : u # v => number[u] # number[v]
<1> DEFINE n == Cardinality(Users)
<1>1. ExistsBijection(1 .. n, Users)
  BY SessionsAssumption, FS_CardinalityType
<1>2. PICK f \in Bijection(Users, 1 .. n) : TRUE
  BY <1>1, Fun_ExistsBijSymmetric, Fun_ExistsBij
<1>3. f \in [Users -> 1 .. n] /\ \A u, v \in Users : u # v => f[u] # f[v]
  BY Fun_BijectionProperties
<1> QED BY <1>3 DEF number

\* The operators who have signed in have a session each, and nothing is under way.
LEMMA InitIInv == Init => IInv
<1> SUFFICES ASSUME Init PROVE IInv
  OBVIOUS
<1> DEFINE row(in, t) == CHOOSE u \in in : number[u] = t
<1>1. PICK in \in SUBSET Users \ {{}} :
        /\ user = [u \in Users |-> IF u \in in THEN "enabled" ELSE "none"]
        /\ session = [t \in Tokens |-> IF \E u \in in : number[u] = t
                        THEN [user |-> row(in, t), login |-> t] ELSE NoSession]
        /\ granted = in
  BY DEF Init
<1>2. /\ made = Cardinality(Users) /\ ended = {} /\ req = [r \in Requests |-> Unused]
      /\ flight = [l \in Tokens |-> NoRequest] /\ locked = NoRequest
      /\ writing = [u \in Users |-> NoRequest] /\ changes = 0 /\ faults = 0
  BY DEF Init
<1>3. made \in Nat /\ made = Cardinality(Users)
  BY <1>2, Sizes
<1>4. ASSUME NEW t \in Tokens
      PROVE  \/ session[t] = NoSession
             \/ /\ session[t].user \in in /\ session[t].login = t /\ t <= made /\ t \in Nat \ {0}
                /\ session[t] \in [user : Users, login : Tokens]
  <2>1. CASE ~\E u \in in : number[u] = t
    BY <1>1, <2>1
  <2>2. CASE \E u \in in : number[u] = t
    <3>1. row(in, t) \in in /\ number[row(in, t)] = t
      BY <2>2
    <3>2. session[t] = [user |-> row(in, t), login |-> t]
      BY <1>1, <2>2
    <3>3. t \in 1 .. Cardinality(Users)
      BY <1>1, <3>1, Numbered
    <3> HIDE DEF row
    <3> QED BY <1>1, <1>3, <3>1, <3>2, <3>3
  <2> QED BY <2>1, <2>2
<1>5. TypeOK
  <2>1. user \in [Users -> {"none", "enabled", "disabled"}]
    BY <1>1
  <2>2. session \in [Tokens -> [user : Users, login : Tokens] \cup {NoSession}]
    <3>1. DOMAIN session = Tokens /\ session = [t \in Tokens |-> session[t]]
      BY <1>1
    <3> QED BY <1>4, <3>1
  <2>3. req \in [Requests -> Request]
    BY <1>2, UnusedFields
  <2> QED BY <1>1, <1>2, <1>3, <2>1, <2>2, <2>3 DEF TypeOK
<1>6. BearersOK
  <2>1. Pending \subseteq Requests
    BY DEF Pending
  <2>2. IsFiniteSet(Requests) /\ Cardinality(Pending) \in Nat
    BY <2>1, Sizes
  <2>3. Cardinality(Pending) <= MaxRequests
    BY <2>1, <2>2, Sizes, FS_Subset
  <2> QED BY <1>3, <2>2, <2>3, Sizes DEF BearersOK
<1>7. SessionsOK
  <2>1. \A t \in Rows : t \in Tokens /\ session[t].user \in in /\ session[t].login = t /\ t <= made
    BY <1>4 DEF Rows
  <2>2. \A t \in Rows : user[session[t].user] = "enabled"
    BY <1>1, <2>1
  <2> QED BY <1>2, <2>1, <2>2 DEF SessionsOK, RowOK
<1>8. AdminRemains
  BY <1>1, Sizes DEF AdminRemains
<1>9. \A r \in Requests : req[r] = Unused /\ req[r].pc = "unused" /\ req[r].kind = "use"
                          /\ req[r].token = 0 /\ req[r].login = 0
  BY <1>2 DEF Unused
<1>10. FlightOK
  BY <1>2, <1>9 DEF FlightOK
<1>11. ASSUME NEW r \in Requests PROVE RequestOK(req[r], r)
  BY <1>3, <1>9 DEF RequestOK, AccessOK, SignedIn, LocksOK, LoginOK
<1>12. \A q, r \in Requests : SameUser(req[q], req[r])
  BY <1>9 DEF SameUser
<1> QED BY <1>5, <1>6, <1>7, <1>8, <1>10, <1>11, <1>12 DEF IInv

\* What is true of sessions, checks and locks stays true in every step.
LEMMA NextIInv == IInv /\ [Next]_vars => IInv'
<1> SUFFICES ASSUME IInv, [Next]_vars PROVE IInv'
  OBVIOUS
<1>1. CASE UNCHANGED vars
  <2>1. UNCHANGED <<user, session, made, ended, writing, locked, granted, changes, faults,
                    flight, req>>
    BY <1>1 DEF vars, db, world
  <2>2. Rows' = Rows /\ Pending' = Pending
    BY <2>1 DEF Rows, Pending
  <2>3. TypeOK' /\ BearersOK' /\ SessionsOK' /\ AdminRemains' /\ FlightOK'
    BY <2>1, <2>2 DEF IInv, TypeOK, BearersOK, SessionsOK, RowOK, AdminRemains, FlightOK
  <2>4. ASSUME NEW r \in Requests PROVE RequestOK(req[r], r)'
    <3>1. PICK k : k = req[r]
      OBVIOUS
    <3>2. req'[r] = k /\ RequestOK(k, r)
      BY <2>1, <3>1 DEF IInv
    <3> QED BY <2>1, <3>2, Undisturbed
  <2>5. \A q, r \in Requests : SameUser(req[q], req[r])'
    BY <2>1 DEF IInv, SameUser
  <2> QED BY <2>3, <2>4, <2>5 DEF IInv
<1>2. CASE Restart
  BY <1>2, RestartIInv
<1>3. ASSUME NEW r \in Requests, Begin(r) \/ Arrive(r) \/ Step(r)
      PROVE  IInv'
  <2>1. CASE Begin(r) \/ Arrive(r)
    BY <2>1, ArriveIInv
  <2>2. CASE Step(r)
    BY <2>2, CallbackIInv, ReadSessionIInv, LeadIInv, FollowIInv, ReadGitHubIInv, LandIInv,
       RotateIInv, LogoutIInv, UpsertIInv, CommitLoginIInv, LockAccessIInv, CommitChangeIInv
       DEF Step
  <2> QED BY <1>3, <2>1, <2>2
<1>4. ASSUME NEW u \in Users, Grant(u) \/ Withdraw(u)
      PROVE  IInv'
  BY <1>4, GrantIInv, WithdrawIInv
<1>5. ASSUME NEW t \in Tokens, Expire(t)
      PROVE  IInv'
  BY <1>5, ExpireIInv
<1> QED BY <1>1, <1>2, <1>3, <1>4, <1>5 DEF Next

\* IInv holds in every state the API process reaches, whatever its requests do.
THEOREM InductiveInvariant == Spec => []IInv
<1>1. Init => IInv
  BY InitIInv
<1>2. IInv /\ [Next]_vars => IInv'
  BY NextIInv
<1> QED BY <1>1, <1>2, PTL DEF Spec

\* Once an operator is disabled no row of browser_sessions names it, not even one of a login that
\* was under way when revoke committed; and revocations that cross never disable the last
\* administrator who had signed in.
THEOREM RevocationIsComplete == Spec => []RevocationComplete
<1>1. IInv => RevocationComplete
  BY DEF IInv, SessionsOK, RowOK, Rows, AdminRemains, RevocationComplete
<1> QED BY <1>1, InductiveInvariant, PTL

\* However many requests rotate, log out and sign in at once, a login has one bearer at most, and
\* none for ever after its row was deleted.
THEOREM OneBearer == Spec => []OneBearerPerLogin
<1>1. ASSUME IInv PROVE OneBearerPerLogin
  <2>1. ASSUME NEW t \in Tokens, session[t] # NoSession
        PROVE  /\ t \in Rows /\ session[t].login \notin ended /\ session[t].login # 0
    BY <1>1, <2>1 DEF IInv, TypeOK, SessionsOK, RowOK, Rows, Tokens
  <2>2. ASSUME NEW t \in Tokens, NEW s \in Tokens \ {t}, session[t] # NoSession
        PROVE  session[s].login # session[t].login
    <3>1. CASE session[s] = NoSession
      <4>1. NoSession.login = 0
        BY DEF NoSession
      <4> QED BY <2>1, <2>2, <3>1, <4>1
    <3>2. CASE session[s] # NoSession
      BY <1>1, <2>1, <2>2, <3>2 DEF IInv, SessionsOK
    <3> QED BY <3>1, <3>2
  <2> QED BY <2>1, <2>2 DEF OneBearerPerLogin
<1> QED BY <1>1, InductiveInvariant, PTL

\* A request is authorized only if GitHub granted access since the check began that answered it,
\* its own or one it joined, and only if its bearer was valid when that check ended.
THEOREM AuthorizedOnlyOnAccess == Spec => []AuthorizedOnCurrentAccess
<1>1. IInv => AuthorizedOnCurrentAccess
  BY DEF IInv, RequestOK, AccessOK, AuthorizedOnCurrentAccess, At
<1> QED BY <1>1, InductiveInvariant, PTL
=============================================================================
