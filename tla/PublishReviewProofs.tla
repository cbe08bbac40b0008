------------------------- MODULE PublishReviewProofs -------------------------
(***************************************************************************)
(* Theorems about PublishReview for every number of attempts, faults and   *)
(* changes.                                                                *)
(***************************************************************************)
EXTENDS PublishReview, FiniteSetTheorems, TLAPS

-----------------------------------------------------------------------------
(* The inductive invariant *)

\* Every call that is made or may still take effect.
Making == {attempt[a] : a \in Attempts} \cup orphans

\* Attempts start in order; an orphan is the one call of an attempt that is gone.
AttemptsOK ==
  /\ \A a \in Attempts :
       /\ attempt[a].by = a
       /\ attempt[a].call = "none" <=> a > server.attempt
       /\ attempt[a].call = "none" => reviews[a] = "none"
  /\ \A k \in orphans : attempt[k.by].call = "gone" /\ k.call # "claim"
  /\ \A k, l \in orphans : k.by = l.by => k = l

\* An attempt past the claim holds it.
ClaimOK ==
  \A a \in Attempts : Live(a) => (attempt[a].call # "claim" <=> claim = a)

\* What a call knows of GitHub.
Unstaged(k) ==
  k.call \in {"claim", "prepare", "refuse", "find", "head", "create"} => reviews[k.by] = "none"

Staged(k) ==
  k.call \in {"check", "submit", "delete", "success"} =>
    /\ k.review \in Attempts
    /\ reviews[k.review] # "none"
    /\ k.call = "success" => k.review \in Public
    /\ k.call # "success" /\ reviews[k.review] = "pending" => Public = {}

CallsOK == \A k \in Making : Unstaged(k) /\ Staged(k)

\* Nothing is on its way to GitHub that could submit a review beside the one
\* an attempt is about to stage.
StagingOK ==
  \A a \in Attempts : attempt[a].call \in {"head", "create"} =>
    /\ Public = {}
    /\ \A k \in orphans : k.call = "submit" => reviews[k.review] # "pending"

ReviewsOK ==
  /\ \A r, s \in With("pending") : r = s
  /\ \A r, s \in Public : r = s

VerdictOK ==
  /\ action.status = "published" => action.review \in Public
  /\ \A a \in Attempts : attempt[a].call = "ok" => Public # {}
  /\ server.outcome = "published" => Public # {}

IInv ==
  /\ TypeOK /\ AttemptsOK /\ ClaimOK /\ CallsOK /\ StagingOK /\ ReviewsOK /\ VerdictOK

-----------------------------------------------------------------------------
(* The effect of one call *)

\* The records a call can lead to.
Nexts == [by : Attempts, call : Calls \cup Results, blocked : BOOLEAN, review : 0 .. MaxAttempts]

\* The three ways a call changes the reviews.
Stages(k) ==
  /\ k.call = "create" /\ With("pending") = {}
  /\ reviews' = [reviews EXCEPT ![k.by] = "pending"]

Posts(k) ==
  /\ k.call = "submit" /\ reviews[k.review] = "pending"
  /\ reviews' = [reviews EXCEPT ![k.review] = "submitted"]

Drops(k) ==
  /\ k.call = "delete" /\ reviews[k.review] = "pending"
  /\ reviews' = [reviews EXCEPT ![k.review] = "deleted"]

\* Every call makes one of these changes or none.
LEMMA TakeChanges ==
  ASSUME NEW k, NEW next, Take(k, next)
  PROVE  Stages(k) \/ Posts(k) \/ Drops(k) \/ UNCHANGED reviews
  BY DEF Take, Prepare, Find, ReadHead, Create, CheckHead, Submit, Delete, RecordSuccess,
         RecordFailed, Refuse, Stages, Posts, Drops

\* The calls that are made are well-formed.
LEMMA MakingTypes ==
  ASSUME TypeOK, AttemptsOK, NEW k \in Making
  PROVE  /\ k.by \in Attempts /\ k.review \in 0 .. MaxAttempts
         /\ k = [by |-> k.by, call |-> k.call, blocked |-> k.blocked, review |-> k.review]
  BY DEF TypeOK, AttemptsOK, Making, Call

\* Two calls of the same attempt that can have an effect are the same call.
LEMMA OneCallEach ==
  ASSUME TypeOK, AttemptsOK, NEW k \in Making, NEW l \in Making, k.by = l.by,
         k.call \in Calls, l.call \in Calls
  PROVE  k = l
  <1>1. CASE k \in orphans /\ l \in orphans
    BY <1>1 DEF AttemptsOK
  <1>2. CASE \E a, b \in Attempts : k = attempt[a] /\ l = attempt[b]
    BY <1>2 DEF AttemptsOK
  <1>3. ASSUME NEW a \in Attempts, NEW m \in orphans, attempt[a].by = m.by,
               attempt[a].call \in Calls
        PROVE  FALSE
    BY <1>3 DEF AttemptsOK, Calls
  <1> QED BY <1>1, <1>2, <1>3 DEF Making

\* The calls of a review that the reviews' changes respect: no review is lost,
\* none is made but by its own attempt, and the calls of the other attempts
\* still know what they knew.
LEMMA ChangeKeepsReviews ==
  ASSUME IInv, NEW k \in Making, Stages(k) \/ Posts(k) \/ Drops(k) \/ UNCHANGED reviews
  PROVE  /\ reviews' \in [Attempts -> {"none", "pending", "submitted", "edited", "deleted"}]
         /\ \A r \in Attempts : reviews[r] # "none" => reviews'[r] # "none"
         /\ \A r \in Attempts : r # k.by /\ reviews[r] = "none" => reviews'[r] = "none"
         /\ Public \subseteq Public'
         /\ ReviewsOK'
  <1> USE MakingTypes DEF IInv
  <1>1. CASE Stages(k)
    <2>1. reviews[k.by] = "none" /\ k.by \in Attempts
      BY <1>1 DEF CallsOK, Unstaged, Stages
    <2>2. Public' = Public
      BY <2>1, <1>1 DEF Stages, Public, With, TypeOK
    <2>3. With("pending")' = {k.by}
      BY <2>1, <1>1 DEF Stages, With, TypeOK
    <2> QED BY <1>1, <2>1, <2>2, <2>3 DEF Stages, TypeOK, ReviewsOK
  <1>2. CASE Posts(k)
    <2>1. k.review \in Attempts /\ Public = {}
      BY <1>2 DEF CallsOK, Staged, Posts
    <2>2. Public' = {k.review}
      BY <2>1, <1>2 DEF Posts, Public, With, TypeOK
    <2>3. With("pending")' \subseteq With("pending")
      BY <2>1, <1>2 DEF Posts, With, TypeOK
    <2> QED BY <1>2, <2>1, <2>2, <2>3 DEF Posts, TypeOK, ReviewsOK
  <1>3. CASE Drops(k)
    <2>1. k.review \in Attempts
      BY <1>3 DEF CallsOK, Staged, Drops
    <2>2. Public' = Public
      BY <2>1, <1>3 DEF Drops, Public, With, TypeOK
    <2>3. With("pending")' \subseteq With("pending")
      BY <2>1, <1>3 DEF Drops, With, TypeOK
    <2> QED BY <1>3, <2>1, <2>2, <2>3 DEF Drops, TypeOK, ReviewsOK
  <1>4. CASE UNCHANGED reviews
    BY <1>4 DEF ReviewsOK, Public, With, TypeOK
  <1> QED BY <1>1, <1>2, <1>3, <1>4

LEMMA ChangeKeepsCalls ==
  ASSUME IInv, NEW k \in Making, Stages(k) \/ Posts(k) \/ Drops(k) \/ UNCHANGED reviews,
         NEW l \in Making, l.by # k.by \/ UNCHANGED reviews \/ ~Stages(k)
  PROVE  Unstaged(l)' /\ Staged(l)'
  <1> USE MakingTypes DEF IInv
  <1>0. Unstaged(l) /\ Staged(l)
    BY DEF CallsOK
  <1>1. CASE Stages(k)
    <2>1. reviews[k.by] = "none" /\ k.by \in Attempts
      BY <1>1 DEF CallsOK, Unstaged, Stages
    <2>2. Public' = Public
      BY <2>1, <1>1 DEF Stages, Public, With, TypeOK
    <2>3. \A r \in Attempts : reviews[r] # "none" => reviews'[r] = reviews[r]
      BY <2>1, <1>1 DEF Stages, TypeOK
    <2>4. l.by # k.by
      BY <1>1, <2>1 DEF Stages, TypeOK
    <2> QED BY <1>0, <1>1, <2>1, <2>2, <2>3, <2>4 DEF Stages, TypeOK, Unstaged, Staged
  <1>2. CASE Posts(k)
    <2>1. k.review \in Attempts /\ Public = {}
      BY <1>2 DEF CallsOK, Staged, Posts
    <2>2. Public' = {k.review}
      BY <2>1, <1>2 DEF Posts, Public, With, TypeOK
    <2>3. With("pending")' = {}
      BY <2>1, <1>2 DEF Posts, With, TypeOK, ReviewsOK
    <2>4. \A r \in Attempts : reviews'[r] # "pending" /\ (reviews[r] = "none" <=> reviews'[r] = "none")
      BY <2>1, <2>3, <1>2 DEF Posts, With, TypeOK
    <2> QED BY <1>0, <2>1, <2>2, <2>4 DEF Unstaged, Staged
  <1>3. CASE Drops(k)
    <2>1. k.review \in Attempts
      BY <1>3 DEF CallsOK, Staged, Drops
    <2>2. Public' = Public
      BY <2>1, <1>3 DEF Drops, Public, With, TypeOK
    <2>3. \A r \in Attempts : /\ reviews[r] = "none" <=> reviews'[r] = "none"
                              /\ reviews'[r] = "pending" => reviews[r] = "pending"
      BY <2>1, <1>3 DEF Drops, TypeOK
    <2> QED BY <1>0, <2>1, <2>2, <2>3 DEF Unstaged, Staged
  <1>4. CASE UNCHANGED reviews
    BY <1>0, <1>4 DEF Unstaged, Staged, Public, With
  <1> QED BY <1>1, <1>2, <1>3, <1>4

\* An attempt that is about to stage a draft stays alone with it.
LEMMA ChangeKeepsStaging ==
  ASSUME IInv, NEW k \in Making, Stages(k) \/ Posts(k) \/ Drops(k) \/ UNCHANGED reviews,
         NEW b \in Attempts, attempt[b].call \in {"head", "create"}, b # k.by
  PROVE  /\ Public' = {}
         /\ \A l \in orphans : l.call = "submit" => reviews'[l.review] # "pending"
  <1> USE MakingTypes DEF IInv
  <1>0. Public = {} /\ \A l \in orphans : l.call = "submit" => reviews[l.review] # "pending"
    BY DEF StagingOK
  <1>1. CASE Stages(k)
    <2>1. reviews[k.by] = "none" /\ k.by \in Attempts
      BY <1>1 DEF CallsOK, Unstaged, Stages
    <2>2. Public' = Public
      BY <2>1, <1>1 DEF Stages, Public, With, TypeOK
    <2>3. \A l \in orphans : l.call = "submit" => l.review # k.by
      BY <2>1 DEF CallsOK, Making, Staged
    <2> QED BY <1>0, <1>1, <2>1, <2>2, <2>3 DEF Stages, TypeOK, CallsOK, Making, Staged
  <1>2. CASE Posts(k)
    <2>1. k \notin orphans
      BY <1>0, <1>2 DEF Posts
    <2>2. PICK a \in Attempts : k = attempt[a]
      BY <2>1 DEF Making
    <2>3. a = k.by
      BY <2>2 DEF AttemptsOK
    <2> QED BY <1>2, <2>2, <2>3 DEF Posts, ClaimOK, Live, Calls
  <1>3. CASE Drops(k)
    <2>1. k.review \in Attempts
      BY <1>3 DEF CallsOK, Staged, Drops
    <2>2. Public' = Public
      BY <2>1, <1>3 DEF Drops, Public, With, TypeOK
    <2> QED BY <1>0, <1>3, <2>1, <2>2 DEF Drops, TypeOK, CallsOK, Making, Staged
  <1>4. CASE UNCHANGED reviews
    BY <1>0, <1>4 DEF Public, With
  <1> QED BY <1>1, <1>2, <1>3, <1>4

\* The receipt a call writes names a review that is there.
LEMMA TakeKeepsReceipt ==
  ASSUME IInv, NEW k \in Making, NEW next, Take(k, next) \/ UNCHANGED <<reviews, action>>
  PROVE  /\ action' \in [status : {"none", "publishing", "published", "failed"},
                         review : 0 .. MaxAttempts]
         /\ action'.status = "published" => action'.review \in Public'
  <1> USE MakingTypes DEF IInv
  <1>1. Public \subseteq Public'
    BY TakeChanges, ChangeKeepsReviews
  <1>2. CASE UNCHANGED action
    BY <1>1, <1>2 DEF TypeOK, VerdictOK
  <1>3. CASE action' = [action EXCEPT !.status = "publishing"]
    BY <1>3 DEF TypeOK
  <1>4. CASE action' = [action EXCEPT !.status = "failed"]
    BY <1>4 DEF TypeOK
  <1>5. CASE RecordSuccess(k, next)
    <2>1. k.review \in Public
      BY <1>5 DEF RecordSuccess, CallsOK, Staged
    <2> QED BY <1>1, <1>5, <2>1 DEF RecordSuccess
  <1> QED
    BY <1>2, <1>3, <1>4, <1>5
    DEF Take, Prepare, Find, ReadHead, Create, CheckHead, Submit, Delete, RecordFailed, Refuse

\* What an attempt knows after a call of its own.
LEMMA TakeNext ==
  ASSUME IInv, NEW a \in Attempts, NEW k, k = attempt[a], NEW next \in Nexts, next.by = a,
         Take(k, next)
  PROVE  /\ Unstaged(next)' /\ Staged(next)'
         /\ next.call \in {"head", "create"} =>
              /\ Public' = {}
              /\ \A l \in orphans : l.call = "submit" => reviews'[l.review] # "pending"
         /\ next.call = "ok" => Public' # {}
  <1> USE DEF IInv
  <1>1. k \in Making /\ k.by = a /\ k.call # "claim"
    BY DEF Making, AttemptsOK, Take, Prepare, Find, ReadHead, Create, CheckHead, Submit, Delete,
           RecordSuccess, RecordFailed, Refuse
  <1>2. Unstaged(k) /\ Staged(k)
    BY <1>1 DEF CallsOK
  <1>3. CASE Prepare(k, next)
    <2>1. UNCHANGED reviews /\ k.call = "prepare"
      BY <1>3 DEF Prepare
    <2>2. Public' = Public /\ Unstaged(k) = (reviews[k.by] = "none")
      BY <2>1 DEF Public, With, Unstaged
    <2>3. next \in {To(k, "refuse"), To(k, "ok"), To(k, "find"),
                   [To(k, "find") EXCEPT !.blocked = TRUE]}
      BY <1>3 DEF Prepare
    <2>4. next.call \in {"refuse", "ok", "find"} /\ next.by = k.by
      BY <1>1, <2>3, MakingTypes DEF To
    <2>5. Unstaged(next)' /\ Staged(next)'
      BY <1>2, <2>1, <2>2, <2>4 DEF Unstaged, Staged
    <2>6. next.call = "ok" => action.status = "published"
      BY <1>1, <1>3, MakingTypes DEF Prepare, To
    <2>7. next.call = "ok" => Public # {}
      BY <2>6 DEF VerdictOK
    <2> QED
      BY <2>2, <2>4, <2>5, <2>7
  <1>4. CASE Find(k, next)
    <2>1. UNCHANGED reviews /\ k.call = "find"
      BY <1>4 DEF Find
    <2>2. Public' = Public
      BY <2>1 DEF Public, With
    <2>3. CASE \E r \in With("submitted") : next = [To(k, "success") EXCEPT !.review = r]
      BY <1>1, <2>1, <2>2, <2>3, MakingTypes DEF To, Unstaged, Staged, Public, With, TypeOK
    <2>4. CASE next = To(k, "reject")
      BY <1>1, <2>1, <2>4, MakingTypes DEF To, Unstaged, Staged
    <2>5. CASE Public = {} /\ \E r \in With("pending") : next = [To(k, "check") EXCEPT !.review = r]
      BY <1>1, <2>1, <2>2, <2>5, MakingTypes DEF To, Unstaged, Staged, With, TypeOK
    <2>6. CASE /\ Public \cup With("pending") = {}
               /\ next = To(k, IF k.blocked THEN "block" ELSE "head")
      <3>1. \A l \in orphans : l.call = "submit" => reviews'[l.review] # "pending"
        BY <2>1, <2>6 DEF CallsOK, Making, Staged, With
      <3> QED BY <1>1, <1>2, <2>1, <2>2, <2>6, <3>1, MakingTypes DEF To, Unstaged, Staged
    <2> QED BY <1>4, <2>3, <2>4, <2>5, <2>6 DEF Find
  <1>5. CASE ReadHead(k, next)
    <2>1. Public' = {} /\ \A l \in orphans : l.call = "submit" => reviews'[l.review] # "pending"
      BY <1>5 DEF ReadHead, StagingOK, Public, With
    <2> QED BY <1>1, <1>2, <1>5, <2>1, MakingTypes DEF ReadHead, To, Unstaged, Staged
  <1>6. CASE Create(k, next)
    <2>1. Public = {} /\ reviews[a] = "none"
      BY <1>1, <1>2, <1>6 DEF Create, StagingOK, Unstaged
    <2>2. CASE With("pending") = {}
      <3>1. reviews' = [reviews EXCEPT ![a] = "pending"] /\ next = [To(k, "check") EXCEPT !.review = a]
        BY <1>1, <1>6, <2>2 DEF Create
      <3>2. Public' = {}
        BY <2>1, <3>1 DEF Public, With, TypeOK
      <3> QED BY <1>1, <2>1, <3>1, <3>2, MakingTypes DEF To, Unstaged, Staged, TypeOK
    <2>3. CASE With("pending") # {}
      BY <1>1, <1>6, <2>3, MakingTypes DEF Create, To, Unstaged, Staged
    <2> QED BY <2>2, <2>3
  <1>7. CASE CheckHead(k, next)
    BY <1>1, <1>2, <1>7, MakingTypes DEF CheckHead, To, Unstaged, Staged, Public, With
  <1>8. CASE Submit(k, next)
    <2>1. k.review \in Attempts
      BY <1>2, <1>8 DEF Submit, Staged
    <2>2. reviews[k.review] = "pending" => k.review \in Public' /\ reviews'[k.review] # "none"
      BY <2>1, <1>8 DEF Submit, Public, With, TypeOK
    <2> QED BY <1>1, <1>8, <2>1, <2>2, MakingTypes DEF Submit, To, Unstaged, Staged
  <1>9. CASE Delete(k, next)
    BY <1>1, <1>9, MakingTypes DEF Delete, To, Unstaged, Staged
  <1>10. CASE RecordSuccess(k, next)
    BY <1>1, <1>2, <1>10, MakingTypes DEF RecordSuccess, To, Unstaged, Staged, Public, With
  <1>11. CASE RecordFailed(k, next) \/ Refuse(k, next)
    BY <1>1, <1>11, MakingTypes DEF RecordFailed, Refuse, To, Unstaged, Staged
  <1> QED
    BY <1>3, <1>4, <1>5, <1>6, <1>7, <1>8, <1>9, <1>10, <1>11 DEF Take

-----------------------------------------------------------------------------
(* The steps *)

\* Nothing has been staged when the first attempt starts.
LEMMA InitIInv == ASSUME Init PROVE IInv
  <1> USE PublishAssumption DEF Init
  <1>1. Public = {} /\ With("pending") = {}
    BY DEF Public, With, Attempts
  <1>2. TypeOK
    <2>1. 1 \in Attempts /\ 0 \in 0 .. MaxAttempts
      BY DEF Attempts
    <2>2. \A a \in Attempts :
            attempt[a] \in [by : Attempts, call : Calls \cup Results \cup {"none", "gone"},
                            blocked : BOOLEAN, review : 0 .. MaxAttempts]
      BY <2>1 DEF Started, NotStarted, Calls
    <2>3. attempt \in [Attempts -> [by : Attempts, call : Calls \cup Results \cup {"none", "gone"},
                                    blocked : BOOLEAN, review : 0 .. MaxAttempts]]
      BY <2>2
    <2> QED BY <2>1, <2>3 DEF TypeOK, NoAction
  <1>3. AttemptsOK /\ ClaimOK
    BY DEF AttemptsOK, ClaimOK, Live, Started, NotStarted, Attempts, Calls
  <1>4. CallsOK
    BY DEF CallsOK, Making, Unstaged, Staged, Started, NotStarted, Attempts
  <1>5. StagingOK /\ ReviewsOK /\ VerdictOK
    BY <1>1 DEF StagingOK, ReviewsOK, VerdictOK, Started, NotStarted, NoAction
  <1> QED BY <1>2, <1>3, <1>4, <1>5 DEF IInv

\* The state of GitHub as the calls know it, when only the calls have changed.
LEMMA AcquireClaimIInv ==
  ASSUME IInv, NEW a \in Attempts, AcquireClaim(a)
  PROVE  IInv'
  <1> USE DEF IInv, AcquireClaim, To
  <1>1. attempt' = [attempt EXCEPT ![a].call = "prepare"] /\ attempt[a].by = a
    BY DEF AttemptsOK, TypeOK
  <1>2. TypeOK'
    BY <1>1 DEF TypeOK, Live, Calls, Attempts
  <1>3. AttemptsOK'
    BY <1>1 DEF AttemptsOK, TypeOK
  <1>4. ClaimOK'
    BY <1>1 DEF ClaimOK, TypeOK, Live, Calls, Attempts
  <1>5. CallsOK'
    <2>1. Public' = Public
      BY DEF Public, With
    <2>2. \A k \in Making : k \in Making => Unstaged(k)' /\ Staged(k)'
      BY <2>1 DEF CallsOK, Unstaged, Staged
    <2>3. \A k \in Making' : k \in Making \/ k = attempt'[a]
      BY <1>1 DEF Making, TypeOK
    <2>4. Unstaged(attempt[a])
      BY DEF CallsOK, Making
    <2>5. \A k : k = attempt'[a] => Unstaged(k)' /\ Staged(k)'
      BY <1>1, <2>4 DEF Unstaged, Staged, TypeOK
    <2> QED BY <2>2, <2>3, <2>5 DEF CallsOK
  <1>6. StagingOK' /\ ReviewsOK' /\ VerdictOK'
    BY <1>1 DEF StagingOK, ReviewsOK, VerdictOK, Public, With, TypeOK
  <1> QED BY <1>2, <1>3, <1>4, <1>5, <1>6

\* An attempt takes an effect and goes on with its next call, be it the one the
\* effect leads to or the one an exception leads to.
LEMMA GoesOnIInv ==
  ASSUME IInv, NEW a \in Attempts, NEW next \in Nexts, next.by = a, next.call # "claim",
         attempt[a].call \in Calls \ {"claim"} \/ next.call \in Results,
         attempt[a].call \in Calls,
         NEW k, k = attempt[a],
         NEW m, Take(k, m) \/ UNCHANGED <<reviews, action>>,
         Release(a, next), attempt' = [attempt EXCEPT ![a] = next],
         UNCHANGED <<awaiting, stored, remote, orphans, server, changes>>,
         faults' \in 0 .. MaxFaults,
         Unstaged(next)' /\ Staged(next)',
         next.call \in {"head", "create"} =>
           /\ Public' = {}
           /\ \A l \in orphans : l.call = "submit" => reviews'[l.review] # "pending",
         next.call = "ok" => Public' # {}
  PROVE  IInv'
  <1> USE DEF IInv
  <1>1. k \in Making /\ k.by = a
    BY DEF Making, AttemptsOK
  <1>2. Stages(k) \/ Posts(k) \/ Drops(k) \/ UNCHANGED reviews
    BY TakeChanges
  <1>3. /\ reviews' \in [Attempts -> {"none", "pending", "submitted", "edited", "deleted"}]
        /\ \A r \in Attempts : r # k.by /\ reviews[r] = "none" => reviews'[r] = "none"
        /\ Public \subseteq Public'
        /\ ReviewsOK'
    BY <1>1, <1>2, ChangeKeepsReviews
  <1>4. /\ action' \in [status : {"none", "publishing", "published", "failed"},
                        review : 0 .. MaxAttempts]
        /\ action'.status = "published" => action'.review \in Public'
    BY <1>1, TakeKeepsReceipt
  <1>5. attempt' \in [Attempts -> [by : Attempts, call : Calls \cup Results \cup {"none", "gone"},
                                   blocked : BOOLEAN, review : 0 .. MaxAttempts]]
    BY DEF TypeOK, Nexts
  <1>6. claim' \in 0 .. MaxAttempts /\ (claim' # 0 => Live(claim)') /\ ClaimOK'
    <2>1. claim \in 0 .. MaxAttempts /\ attempt \in [Attempts -> [by : Attempts,
             call : Calls \cup Results \cup {"none", "gone"},
             blocked : BOOLEAN, review : 0 .. MaxAttempts]]
      BY DEF TypeOK
    <2>2. CASE next.call \in Results
      <3>1. \A b \in Attempts : b # a => attempt'[b] = attempt[b]
        BY <2>1
      <3>2. ~Live(a)'
        BY <2>1, <2>2 DEF Live, Calls, Results
      <3>3. claim' = IF claim = a THEN 0 ELSE claim
        BY <2>2 DEF Release
      <3>4. claim' \in 0 .. MaxAttempts /\ claim' # a /\ (claim' # 0 => claim' = claim)
        BY <3>3, PublishAssumption DEF TypeOK, Attempts
      <3>5. claim' # 0 => claim' \in Attempts /\ Live(claim)'
        BY <3>1, <3>4 DEF TypeOK, Live, Attempts
      <3>6. ASSUME NEW b \in Attempts, Live(b)'
            PROVE  attempt'[b].call # "claim" <=> claim' = b
        <4>1. b # a /\ Live(b) /\ attempt'[b] = attempt[b]
          BY <3>1, <3>2, <3>6 DEF Live
        <4> QED BY <4>1, <3>3 DEF ClaimOK, Attempts
      <3> QED BY <3>4, <3>5, <3>6 DEF ClaimOK
    <2>3. CASE next.call \notin Results
      <3>1. claim' = claim /\ claim = a /\ Live(a)' /\ attempt'[a].call # "claim"
        BY <2>1, <2>3 DEF Release, ClaimOK, Live, Nexts, Calls, Results
      <3> QED BY <2>1, <3>1 DEF ClaimOK, TypeOK, Live, Attempts
    <2> QED BY <2>2, <2>3
  <1>7. TypeOK'
    BY <1>3, <1>4, <1>5, <1>6 DEF TypeOK
  <1>8. AttemptsOK'
    <2>1. next.call \notin {"none", "gone"} /\ attempt[a].call \notin {"none", "gone"}
      BY DEF Nexts, Calls, Results
    <2> QED BY <1>1, <1>3, <2>1 DEF AttemptsOK, TypeOK
  <1>9. CallsOK'
    <2>1. ASSUME NEW l \in Making', l # next
          PROVE  l \in Making /\ (l.by # a \/ l.call \notin Calls)
      <3>1. CASE l \in orphans
        BY <3>1 DEF Making, AttemptsOK, Calls
      <3>2. CASE \E b \in Attempts : b # a /\ l = attempt[b]
        BY <3>2 DEF Making, AttemptsOK
      <3> QED BY <2>1, <3>1, <3>2 DEF Making, TypeOK
    <2>2. ASSUME NEW l \in Making, l.by # a \/ l.call \notin Calls
          PROVE  Unstaged(l)' /\ Staged(l)'
      <3>1. CASE l.by # a
        BY <1>1, <1>2, <3>1, ChangeKeepsCalls
      <3>2. CASE l.call \notin Calls
        BY <3>2 DEF Unstaged, Staged, Calls
      <3> QED BY <2>2, <3>1, <3>2
    <2> QED BY <2>1, <2>2 DEF CallsOK
  <1>10. StagingOK'
    <2>1. ASSUME NEW b \in Attempts, b # a, attempt'[b].call \in {"head", "create"}
          PROVE  /\ Public' = {}
                 /\ \A l \in orphans : l.call = "submit" => reviews'[l.review] # "pending"
      BY <1>1, <1>2, <2>1, ChangeKeepsStaging DEF TypeOK
    <2> QED BY <2>1 DEF StagingOK, TypeOK
  <1>11. VerdictOK'
    BY <1>3, <1>4 DEF VerdictOK, TypeOK
  <1> QED BY <1>3, <1>7, <1>6, <1>8, <1>9, <1>10, <1>11

LEMMA MakeCallIInv ==
  ASSUME IInv, NEW a \in Attempts, MakeCall(a)
  PROVE  IInv'
  <1>1. PICK next \in [by : {a}, call : Calls \cup Results, blocked : BOOLEAN,
                       review : 0 .. MaxAttempts] :
          /\ Take(attempt[a], next)
          /\ Release(a, next)
          /\ attempt' = [attempt EXCEPT ![a] = next]
    BY DEF MakeCall
  <1>2. PICK k : k = attempt[a]
    OBVIOUS
  <1>3. next \in Nexts /\ next.by = a /\ Take(k, next)
    BY <1>1, <1>2 DEF Nexts
  <1>4. next.call # "claim" /\ k.call \in Calls \ {"claim"}
    BY <1>3 DEF Take, Prepare, Find, ReadHead, Create, CheckHead, Submit, Delete, RecordSuccess,
                RecordFailed, Refuse, To, Calls
  <1>5. faults' \in 0 .. MaxFaults
    BY DEF MakeCall, IInv, TypeOK
  <1>6. UNCHANGED <<awaiting, stored, remote, orphans, server, changes>>
    BY DEF MakeCall
  <1>7. /\ Unstaged(next)' /\ Staged(next)'
        /\ next.call \in {"head", "create"} =>
             /\ Public' = {}
             /\ \A l \in orphans : l.call = "submit" => reviews'[l.review] # "pending"
        /\ next.call = "ok" => Public' # {}
    BY <1>2, <1>3, TakeNext
  <1> QED BY <1>1, <1>2, <1>3, <1>4, <1>5, <1>6, <1>7, GoesOnIInv

LEMMA CallFailsIInv ==
  ASSUME IInv, NEW a \in Attempts, CallFails(a)
  PROVE  IInv'
  <1> DEFINE next == Raised(attempt[a])
  <1>1. attempt[a].call \in Calls /\ attempt[a].by = a /\ attempt[a] \in Making
    BY DEF CallFails, Live, IInv, AttemptsOK, Making
  <1>2. PICK k : k = attempt[a]
    OBVIOUS
  <1>3. PICK n : n = next
    OBVIOUS
  <1>4. n \in Nexts /\ n.by = a /\ n.call \in {"failure", "error"}
    <2>1. k = [by |-> a, call |-> k.call, blocked |-> k.blocked, review |-> k.review]
      BY <1>1, <1>2, MakingTypes DEF IInv
    <2>2. k.blocked \in BOOLEAN /\ k.review \in 0 .. MaxAttempts
      BY <1>2 DEF IInv, TypeOK
    <2> QED BY <1>2, <1>3, <2>1, <2>2 DEF Raised, To, Nexts, Calls, Results
  <1>5. k.call \in Calls \ {"claim"} \/ n.call \in Results
    BY <1>1, <1>2, <1>3 DEF Raised, To, Results
  <1>6. PICK m : Take(k, m) \/ UNCHANGED <<reviews, action>>
    BY <1>2 DEF CallFails
  <1>7. Release(a, n) /\ attempt' = [attempt EXCEPT ![a] = n]
    BY <1>3 DEF CallFails
  <1>8. UNCHANGED <<awaiting, stored, remote, orphans, server, changes>>
    BY DEF CallFails
  <1>9. faults' \in 0 .. MaxFaults
    BY PublishAssumption DEF CallFails, Fault, IInv, TypeOK
  <1>10. Unstaged(n)' /\ Staged(n)'
    BY <1>4 DEF Unstaged, Staged
  <1> QED BY <1>1, <1>2, <1>4, <1>5, <1>6, <1>7, <1>8, <1>9, <1>10, GoesOnIInv

\* The claim is released and the call becomes an orphan.
LEMMA CancelledIInv ==
  ASSUME IInv, NEW a \in Attempts, Cancelled(a)
  PROVE  IInv'
  <1> USE DEF IInv
  <1>1. /\ attempt' = [attempt EXCEPT ![a].call = "gone"]
        /\ attempt[a].by = a /\ attempt[a].call \in Calls
        /\ attempt \in [Attempts -> [by : Attempts, call : Calls \cup Results \cup {"none", "gone"},
                                     blocked : BOOLEAN, review : 0 .. MaxAttempts]]
    BY DEF Cancelled, To, Live, AttemptsOK, TypeOK
  <1>2. attempt'[a].call = "gone" /\ \A b \in Attempts : b # a => attempt'[b] = attempt[b]
    BY <1>1
  <1>3. orphans' \subseteq orphans \cup {attempt[a]} /\ UNCHANGED <<reviews, action, server>>
    BY DEF Cancelled
  <1>4. claim' = (IF claim = a THEN 0 ELSE claim)
    BY <1>2 DEF Cancelled, Release
  <1>5. TypeOK'
    <2>1. attempt' \in [Attempts -> [by : Attempts, call : Calls \cup Results \cup {"none", "gone"},
                                     blocked : BOOLEAN, review : 0 .. MaxAttempts]]
      BY <1>1
    <2>2. orphans' \subseteq Call
      BY <1>1, <1>3 DEF TypeOK, Call
    <2>3. claim' \in 0 .. MaxAttempts /\ (claim' # 0 => Live(claim)')
      BY <1>2, <1>4, PublishAssumption DEF TypeOK, Live, Attempts
    <2> QED BY <2>1, <2>2, <2>3 DEF TypeOK, Cancelled
  <1>6. AttemptsOK'
    <2>1. \A k \in orphans : k.by # a
      BY <1>1 DEF AttemptsOK, Calls
    <2>2. \A k \in orphans' : attempt'[k.by].call = "gone" /\ k.call # "claim"
      BY <1>1, <1>2, <2>1 DEF AttemptsOK, Cancelled, TypeOK, Call
    <2>3. \A k, l \in orphans' : k.by = l.by => k = l
      BY <1>1, <1>3, <2>1 DEF AttemptsOK
    <2>4. \A b \in Attempts : /\ attempt'[b].by = b
                              /\ attempt'[b].call = "none" <=> b > server.attempt
                              /\ attempt'[b].call = "none" => reviews[b] = "none"
      BY <1>1, <1>2 DEF AttemptsOK, Calls
    <2> QED BY <1>3, <2>2, <2>3, <2>4 DEF AttemptsOK
  <1>7. ClaimOK'
    BY <1>2, <1>4 DEF ClaimOK, Live, Calls, Attempts
  <1>8. CallsOK'
    <2>1. Public' = Public
      BY <1>3 DEF Public, With
    <2>2. \A k \in Making : Unstaged(k)' /\ Staged(k)'
      BY <1>3, <2>1 DEF CallsOK, Unstaged, Staged
    <2>3. \A k : k = attempt'[a] => Unstaged(k)' /\ Staged(k)'
      BY <1>2 DEF Unstaged, Staged
    <2>4. \A k \in Making' : k \in Making \/ k = attempt'[a]
      BY <1>2, <1>3 DEF Making
    <2> QED BY <2>2, <2>3, <2>4 DEF CallsOK
  <1>9. StagingOK'
    <2>1. ASSUME NEW b \in Attempts, attempt'[b].call \in {"head", "create"}, attempt[a].call = "submit"
          PROVE  FALSE
      BY <1>1, <1>2, <2>1 DEF ClaimOK, Live, Calls
    <2> QED BY <1>2, <1>3, <2>1 DEF StagingOK, Public, With
  <1>10. ReviewsOK' /\ VerdictOK'
    BY <1>2, <1>3 DEF ReviewsOK, VerdictOK, Public, With
  <1> QED BY <1>5, <1>6, <1>7, <1>8, <1>9, <1>10

\* An orphan takes its effect behind the back of whoever holds the claim.
LEMMA OrphanLandsIInv ==
  ASSUME IInv, OrphanLands
  PROVE  IInv'
  <1> USE DEF IInv
  <1>0. PICK k \in orphans : (\E next : Take(k, next)) /\ orphans' = orphans \ {k}
    BY DEF OrphanLands
  <1>1. PICK next : Take(k, next) /\ orphans' = orphans \ {k}
    BY <1>0
  <1>2. UNCHANGED <<awaiting, stored, remote, claim, attempt, server, faults, changes>>
    BY DEF OrphanLands
  <1>3. k \in Making /\ attempt[k.by].call = "gone" /\ k.by \in Attempts
    BY DEF Making, AttemptsOK, TypeOK, Call
  <1>4. Stages(k) \/ Posts(k) \/ Drops(k) \/ UNCHANGED reviews
    BY <1>1, TakeChanges
  <1>5. /\ reviews' \in [Attempts -> {"none", "pending", "submitted", "edited", "deleted"}]
        /\ \A r \in Attempts : r # k.by /\ reviews[r] = "none" => reviews'[r] = "none"
        /\ Public \subseteq Public'
        /\ ReviewsOK'
    BY <1>3, <1>4, ChangeKeepsReviews
  <1>6. /\ action' \in [status : {"none", "publishing", "published", "failed"},
                        review : 0 .. MaxAttempts]
        /\ action'.status = "published" => action'.review \in Public'
    BY <1>1, <1>3, TakeKeepsReceipt
  <1>7. TypeOK'
    BY <1>1, <1>2, <1>5, <1>6 DEF TypeOK, Live
  <1>8. AttemptsOK'
    BY <1>1, <1>2, <1>3, <1>5 DEF AttemptsOK
  <1>9. ClaimOK'
    BY <1>2 DEF ClaimOK, Live
  <1>10. CallsOK'
    <2>1. ASSUME NEW l \in Making'
          PROVE  l \in Making /\ (l.by # k.by \/ l.call \notin Calls)
      <3>1. CASE l \in orphans'
        BY <1>1, <3>1 DEF Making, AttemptsOK
      <3>2. CASE \E b \in Attempts : l = attempt[b]
        BY <1>3, <3>2 DEF Making, AttemptsOK, Calls
      <3> QED BY <1>2, <3>1, <3>2 DEF Making
    <2>2. ASSUME NEW l \in Making, l.by # k.by \/ l.call \notin Calls
          PROVE  Unstaged(l)' /\ Staged(l)'
      <3>1. CASE l.by # k.by
        BY <1>3, <1>4, <3>1, ChangeKeepsCalls
      <3>2. CASE l.call \notin Calls
        BY <3>2 DEF Unstaged, Staged, Calls
      <3> QED BY <2>2, <3>1, <3>2
    <2> QED BY <2>1, <2>2 DEF CallsOK
  <1>11. StagingOK'
    <2>1. ASSUME NEW b \in Attempts, attempt[b].call \in {"head", "create"}
          PROVE  /\ Public' = {}
                 /\ \A l \in orphans : l.call = "submit" => reviews'[l.review] # "pending"
      <3>1. b # k.by
        BY <1>3, <2>1
      <3> QED BY <1>3, <1>4, <2>1, <3>1, ChangeKeepsStaging
    <2> QED BY <1>1, <1>2, <2>1 DEF StagingOK
  <1>12. VerdictOK'
    BY <1>2, <1>5, <1>6 DEF VerdictOK
  <1> QED BY <1>5, <1>7, <1>8, <1>9, <1>10, <1>11, <1>12

\* The server starts the next attempt or ends the activity.
LEMMA NextAttemptIInv ==
  ASSUME IInv, NextAttempt(server.attempt), faults' \in 0 .. MaxFaults,
         UNCHANGED <<awaiting, stored, remote, reviews, action, claim, orphans, changes>>
  PROVE  IInv'
  <1> USE DEF IInv
  <1> DEFINE n == server.attempt + 1
  <1>1. Public' = Public /\ With("pending")' = With("pending")
    BY DEF Public, With
  <1>2. CASE server.attempt < MaxAttempts
    <2>0. server.attempt \in Attempts
      BY DEF TypeOK
    <2>1. n \in Attempts /\ server.attempt \in Attempts /\ n > server.attempt
      BY <1>2, <2>0, PublishAssumption DEF Attempts
    <2>2. server' = [server EXCEPT !.attempt = n] /\ attempt' = [attempt EXCEPT ![n] = Started(n)]
      BY <1>2 DEF NextAttempt
    <2>3. attempt[n].call = "none" /\ reviews[n] = "none"
      BY <2>1 DEF AttemptsOK
    <2>4. Started(n) \in [by : Attempts, call : Calls \cup Results \cup {"none", "gone"},
                          blocked : BOOLEAN, review : 0 .. MaxAttempts]
      <3>1. 0 \in 0 .. MaxAttempts
        BY PublishAssumption
      <3> QED BY <2>1, <3>1 DEF Started, NotStarted, Calls
    <2>5. /\ attempt'[n] = Started(n) /\ Started(n).by = n /\ Started(n).call = "claim"
          /\ \A b \in Attempts : b # n => attempt'[b] = attempt[b]
      BY <2>1, <2>2 DEF TypeOK, Started, NotStarted
    <2>6. claim # n
      BY <2>1, <2>3 DEF TypeOK, Live, Calls, Attempts
    <2>7. TypeOK'
      <3>1. attempt' \in [Attempts -> [by : Attempts, call : Calls \cup Results \cup {"none", "gone"},
                                       blocked : BOOLEAN, review : 0 .. MaxAttempts]]
        BY <2>2, <2>4 DEF TypeOK
      <3>2. server' \in [attempt : Attempts, outcome : {"running", "published", "failed"}]
        BY <2>1, <2>2 DEF TypeOK
      <3>3. claim # 0 => Live(claim)'
        BY <2>5, <2>6 DEF TypeOK, Live, Attempts
      <3> QED BY <3>1, <3>2, <3>3 DEF TypeOK
    <2>8. AttemptsOK'
      <3>1. ASSUME NEW b \in Attempts
            PROVE  /\ attempt'[b].by = b
                   /\ attempt'[b].call = "none" <=> b > server'.attempt
                   /\ attempt'[b].call = "none" => reviews[b] = "none"
        <4>1. server'.attempt = n
          BY <2>2 DEF TypeOK
        <4> QED BY <2>1, <2>5, <4>1 DEF AttemptsOK, Attempts
      <3>2. \A k \in orphans : k.by # n
        BY <2>3 DEF AttemptsOK
      <3> QED BY <2>5, <3>1, <3>2 DEF AttemptsOK, TypeOK, Call
    <2>9. ClaimOK'
      BY <2>5, <2>6 DEF ClaimOK, Live
    <2>10. CallsOK'
      <3>1. \A k \in Making : Unstaged(k)' /\ Staged(k)'
        BY <1>1 DEF CallsOK, Unstaged, Staged
      <3>2. \A k : k = Started(n) => Unstaged(k)' /\ Staged(k)'
        BY <2>3, <2>5 DEF Unstaged, Staged
      <3>3. \A k \in Making' : k \in Making \/ k = Started(n)
        BY <2>5 DEF Making
      <3> QED BY <3>1, <3>2, <3>3 DEF CallsOK
    <2>11. StagingOK' /\ ReviewsOK' /\ VerdictOK'
      BY <1>1, <2>2, <2>5 DEF StagingOK, ReviewsOK, VerdictOK, TypeOK
    <2> QED BY <2>7, <2>8, <2>9, <2>10, <2>11
  <1>3. CASE ~(server.attempt < MaxAttempts)
    <2>1. server' = [server EXCEPT !.outcome = "failed"] /\ UNCHANGED attempt
      BY <1>3 DEF NextAttempt
    <2> QED BY <1>1, <2>1 DEF TypeOK, AttemptsOK, ClaimOK, Live, CallsOK, Making, Unstaged, Staged,
                              StagingOK, ReviewsOK, VerdictOK
  <1> QED BY <1>2, <1>3

LEMMA AttemptEndsIInv ==
  ASSUME IInv, AttemptEnds
  PROVE  IInv'
  <1> USE DEF IInv
  <1>1. CASE attempt[server.attempt].call = "error"
    BY <1>1, NextAttemptIInv DEF AttemptEnds, TypeOK
  <1>2. CASE attempt[server.attempt].call \in {"ok", "fatal"}
    <2>1. /\ UNCHANGED attempt
          /\ \/ server' = [server EXCEPT !.outcome = "published"]
                  /\ attempt[server.attempt].call = "ok"
             \/ server' = [server EXCEPT !.outcome = "failed"]
      BY <1>2 DEF AttemptEnds
    <2>2. Public' = Public /\ With("pending")' = With("pending")
      BY DEF AttemptEnds, Public, With
    <2>3. server'.attempt = server.attempt /\ server'.attempt \in Attempts
          /\ (server'.outcome = "published" => Public # {})
      BY <2>1 DEF TypeOK, VerdictOK
    <2>4. server' \in [attempt : Attempts, outcome : {"running", "published", "failed"}]
      BY <2>1 DEF TypeOK
    <2> QED BY <2>1, <2>2, <2>3, <2>4
            DEF AttemptEnds, TypeOK, AttemptsOK, ClaimOK, Live, CallsOK, Making, Unstaged, Staged,
                StagingOK, ReviewsOK, VerdictOK
  <1> QED BY <1>1, <1>2 DEF AttemptEnds, Results

\* The steps that neither make a call nor touch an attempt.
LEMMA EnvironmentIInv ==
  ASSUME IInv, RecordTerminal \/ PushHead \/ ReceivePush \/ UNCHANGED vars
  PROVE  IInv'
  <1>1. UNCHANGED <<reviews, action, claim, attempt, orphans, server, faults>>
    BY DEF RecordTerminal, PushHead, ReceivePush, vars
  <1>2. awaiting' \in BOOLEAN /\ stored' \in BOOLEAN /\ remote' \in BOOLEAN
    BY DEF IInv, TypeOK, RecordTerminal, PushHead, ReceivePush, vars
  <1>3. changes' \in 0 .. MaxChanges
    BY PublishAssumption DEF IInv, TypeOK, RecordTerminal, PushHead, Change, ReceivePush, vars
  <1> QED
    BY <1>1, <1>2, <1>3
    DEF IInv, TypeOK, AttemptsOK, ClaimOK, Live, CallsOK, Making, Unstaged, Staged,
        StagingOK, ReviewsOK, VerdictOK, Public, With

LEMMA EditReviewIInv ==
  ASSUME IInv, EditReview
  PROVE  IInv'
  <1> USE DEF IInv
  <1>1. PICK r \in With("submitted") : reviews' = [reviews EXCEPT ![r] = "edited"]
    BY DEF EditReview
  <1>2. r \in Attempts /\ reviews[r] = "submitted"
    BY DEF With
  <1>3. Public' = Public /\ With("pending")' = With("pending")
    BY <1>1, <1>2 DEF Public, With, TypeOK
  <1>4. \A s \in Attempts : /\ reviews[s] = "none" <=> reviews'[s] = "none"
                            /\ reviews[s] = "pending" <=> reviews'[s] = "pending"
    BY <1>1, <1>2 DEF TypeOK
  <1>5. UNCHANGED <<awaiting, stored, remote, action, claim, attempt, orphans, server, faults>>
    BY DEF EditReview
  <1>6. TypeOK'
    BY <1>1, <1>2, <1>5, PublishAssumption DEF TypeOK, EditReview, Change, Live
  <1>7. AttemptsOK' /\ ClaimOK'
    BY <1>4, <1>5 DEF AttemptsOK, ClaimOK, Live
  <1>8. CallsOK'
    BY <1>3, <1>4, <1>5, MakingTypes DEF CallsOK, Making, Unstaged, Staged
  <1>9. StagingOK'
    BY <1>3, <1>4, <1>5, MakingTypes DEF StagingOK, CallsOK, Making, Staged
  <1>10. ReviewsOK' /\ VerdictOK'
    BY <1>3, <1>5 DEF ReviewsOK, VerdictOK
  <1> QED BY <1>6, <1>7, <1>8, <1>9, <1>10

LEMMA NextIInv ==
  ASSUME IInv, [Next]_vars
  PROVE  IInv'
  <1>1. CASE \E a \in Attempts : Progress(a) \/ CallFails(a) \/ Cancelled(a)
    BY <1>1, AcquireClaimIInv, MakeCallIInv, CallFailsIInv, CancelledIInv DEF Progress
  <1>2. CASE OrphanLands
    BY <1>2, OrphanLandsIInv
  <1>3. CASE AttemptEnds
    BY <1>3, AttemptEndsIInv
  <1>4. CASE GiveUp
    <2>1. faults' \in 0 .. MaxFaults
      BY <1>4, PublishAssumption DEF GiveUp, Fault, IInv, TypeOK
    <2> QED BY <1>4, <2>1, NextAttemptIInv DEF GiveUp
  <1>5. CASE RecordTerminal \/ PushHead \/ ReceivePush \/ UNCHANGED vars
    BY <1>5, EnvironmentIInv
  <1>6. CASE EditReview
    BY <1>6, EditReviewIInv
  <1> QED BY <1>1, <1>2, <1>3, <1>4, <1>5, <1>6 DEF Next

-----------------------------------------------------------------------------
(* Theorems *)

\* The strengthening is an invariant of every behaviour of the publication.
THEOREM InductiveInvariant == Spec => []IInv
  <1>1. Init => IInv
    BY InitIInv
  <1>2. IInv /\ [Next]_vars => IInv'
    BY NextIInv
  <1> QED BY <1>1, <1>2, PTL DEF Spec

\* Rows, calls and reviews keep their shape, and the claim belongs to a running
\* attempt (_acquire_publish_claim and _close_claim_connection).
THEOREM TypeCorrect == Spec => []TypeOK
  <1>1. IInv => TypeOK
    BY DEF IInv
  <1> QED BY <1>1, InductiveInvariant, PTL

\* The remote identity in external_actions is that of a review on GitHub,
\* whatever calls were lost, repeated or late (_record_success).
THEOREM ReceiptTrue == Spec => []ReceiptNamesReview
  <1>1. IInv => ReceiptNamesReview
    BY DEF IInv, VerdictOK, ReceiptNamesReview
  <1> QED BY <1>1, InductiveInvariant, PTL

\* The size of a set without two members.
LEMMA AtMostOne ==
  ASSUME NEW S, \A r, s \in S : r = s
  PROVE  (S = {} => Cardinality(S) = 0) /\ (S # {} => Cardinality(S) = 1)
  <1>1. S = {} => Cardinality(S) = 0
    BY FS_EmptySet
  <1>2. ASSUME NEW r \in S PROVE Cardinality(S) = 1
    <2>1. S = {r}
      OBVIOUS
    <2> QED BY <2>1, FS_Singleton
  <1> QED BY <1>1, <1>2

\* A step of the publication posts the first review, concludes, or is a stutter
\* of the contract.
LEMMA StepContract ==
  ASSUME IInv, [Next]_vars
  PROVE  [Contract!Next]_<<Cardinality(Public), server.outcome>>
  <1>0. /\ Public = {} => Cardinality(Public) = 0
        /\ Public # {} => Cardinality(Public) = 1
        /\ Public' = {} => Cardinality(Public') = 0
        /\ Public' # {} => Cardinality(Public') = 1
    <2>1. (\A r, s \in Public : r = s) /\ (\A r, s \in Public' : r = s)
      BY NextIInv DEF IInv, ReviewsOK
    <2> QED BY <2>1, AtMostOne
  <1>1. ASSUME NEW k \in Making, NEW m, Take(k, m) \/ UNCHANGED <<reviews, action>>
        PROVE  Public \subseteq Public'
    BY <1>1, TakeChanges, ChangeKeepsReviews
  <1>2. ASSUME Public \subseteq Public', UNCHANGED server
        PROVE  [Contract!Next]_<<Cardinality(Public), server.outcome>>
    <2>1. CASE Public = {} /\ Public' # {}
      <3>1. Cardinality(Public) = 0 /\ Cardinality(Public') = 1
        BY <1>0, <2>1
      <3> QED BY <1>2, <3>1 DEF Contract!Next, Contract!Post
    <2>2. CASE Public' = {}
      BY <1>2, <2>2
    <2>3. CASE Public # {} /\ Public' # {}
      <3>1. Cardinality(Public) = 1 /\ Cardinality(Public') = 1
        BY <1>0, <2>3
      <3> QED BY <1>2, <3>1
    <2> QED BY <2>1, <2>2, <2>3
  <1>3. ASSUME NEW a \in Attempts, Progress(a) \/ CallFails(a) \/ Cancelled(a)
        PROVE  Public \subseteq Public' /\ UNCHANGED server
    <2>1. attempt[a] \in Making
      BY DEF Making
    <2>2. CASE MakeCall(a) \/ CallFails(a)
      BY <1>1, <2>1, <2>2 DEF MakeCall, CallFails
    <2>3. CASE AcquireClaim(a) \/ Cancelled(a)
      BY <2>3 DEF AcquireClaim, Cancelled, Public, With
    <2> QED BY <1>3, <2>2, <2>3 DEF Progress
  <1>4. CASE OrphanLands
    BY <1>1, <1>2, <1>4 DEF OrphanLands, Making
  <1>5. CASE EditReview
    <2>1. Public \subseteq Public'
      BY <1>5 DEF EditReview, Public, With, IInv, TypeOK
    <2> QED BY <1>2, <1>5, <2>1 DEF EditReview
  <1>6. CASE RecordTerminal \/ PushHead \/ ReceivePush \/ UNCHANGED vars
    BY <1>6 DEF RecordTerminal, PushHead, ReceivePush, vars, Public, With
  <1>7. CASE AttemptEnds \/ GiveUp
    <2>1. UNCHANGED Public
      BY <1>7 DEF AttemptEnds, GiveUp, Public, With
    <2>2. CASE server'.outcome = server.outcome
      BY <2>1, <2>2
    <2>3. CASE server'.outcome # server.outcome
      <3>1. /\ server.outcome = "running"
            /\ \/ server'.outcome = "published" /\ Public # {}
               \/ server'.outcome = "failed"
        BY <1>7, <2>3 DEF AttemptEnds, GiveUp, NextAttempt, IInv, TypeOK, VerdictOK, Results
      <3>2. Public # {} => Cardinality(Public) = 1
        BY <1>0
      <3> QED BY <2>1, <3>1, <3>2 DEF Contract!Next, Contract!Conclude
    <2> QED BY <2>2, <2>3
  <1> QED BY <1>2, <1>3, <1>4, <1>5, <1>6, <1>7 DEF Next

\* However often the publish activity is retried, abandoned or cancelled, one
\* review appears at most, and the workflow is told of a success only when it
\* is on GitHub: the publication implements its contract.
THEOREM PublishesOnce == Spec => ImplementsContract
  <1>1. Init => Contract!Init
    <2>1. ASSUME Init PROVE Public = {}
      BY <2>1 DEF Init, Public, With
    <2> QED BY <2>1, FS_EmptySet DEF Init, Contract!Init
  <1>2. IInv /\ [Next]_vars => [Contract!Next]_<<Cardinality(Public), server.outcome>>
    BY StepContract
  <1> QED BY <1>1, <1>2, InductiveInvariant, PTL DEF Spec, ImplementsContract, Contract!Spec

-----------------------------------------------------------------------------
(* After the authorization is lost *)

\* A call that stages nothing, and after which the attempt stages nothing unless
\* a preparation with an authorization comes in between.
Cautious(k) ==
  /\ k.call \notin {"head", "create"}
  /\ k.call = "find" => k.blocked

StagesNothing(a) ==
  /\ reviews[a] = "none"
  /\ Cautious(attempt[a])
  /\ \A k \in orphans : k.by = a => Cautious(k)

\* Without an authorization an attempt goes from cautious calls to cautious calls.
LEMMA TakeCautious ==
  ASSUME TypeOK, AttemptsOK, ~(awaiting /\ stored), NEW k \in Making, NEW next, Take(k, next),
         Cautious(k)
  PROVE  Cautious(next)
  <1>1. k = [by |-> k.by, call |-> k.call, blocked |-> k.blocked, review |-> k.review]
    BY MakingTypes
  <1>2. CASE Prepare(k, next)
    <2>1. \/ next = To(k, "refuse") \/ next = To(k, "ok")
          \/ next = [To(k, "find") EXCEPT !.blocked = TRUE]
      BY <1>2 DEF Prepare, TypeOK
    <2> QED
      BY <1>1, <2>1 DEF To, Cautious
  <1>3. CASE Find(k, next)
    <2>1. k.blocked
      BY <1>3 DEF Find, Cautious
    <2> QED
      BY <1>1, <1>3, <2>1 DEF Find, To, Cautious
  <1>4. ~ReadHead(k, next) /\ ~Create(k, next)
    BY DEF ReadHead, Create, Cautious
  <1>5. CASE \/ CheckHead(k, next) \/ Submit(k, next) \/ Delete(k, next)
             \/ RecordSuccess(k, next) \/ RecordFailed(k, next) \/ Refuse(k, next)
    BY <1>1, <1>5 DEF CheckHead, Submit, Delete, RecordSuccess, RecordFailed, Refuse, To, Cautious
  <1> QED
    BY <1>2, <1>3, <1>4, <1>5 DEF Take

\* An attempt's review is staged by a call of its own.
LEMMA TakeStages ==
  ASSUME IInv, NEW a \in Attempts, reviews[a] = "none", NEW k \in Making, NEW next,
         Take(k, next), k.by = a => Cautious(k)
  PROVE  reviews'[a] = "none"
  <1>1. Stages(k) \/ Posts(k) \/ Drops(k) \/ UNCHANGED reviews
    BY TakeChanges
  <1>2. k.by # a => reviews'[a] = "none"
    BY <1>1, ChangeKeepsReviews
  <1>3. ~Stages(k) \/ k.by # a
    BY DEF Stages, Cautious
  <1>4. reviews \in [Attempts -> {"none", "pending", "submitted", "edited", "deleted"}]
    BY DEF IInv, TypeOK
  <1> QED
    BY <1>1, <1>2, <1>3, <1>4 DEF Posts, Drops

\* An attempt that has not prepared has no call on its way.
LEMMA UnpreparedStagesNothing ==
  ASSUME IInv, NEW a \in Attempts, Unprepared(a)
  PROVE  StagesNothing(a)
  <1>1. reviews[a] = "none"
    <2>1. attempt[a].call = "none" => reviews[a] = "none"
      BY DEF IInv, AttemptsOK
    <2>2. Unstaged(attempt[a]) /\ attempt[a].by = a
      BY DEF IInv, CallsOK, Making, AttemptsOK
    <2> QED
      BY <2>1, <2>2 DEF Unprepared, Unstaged
  <1>2. \A k \in orphans : k.by # a
    BY DEF IInv, AttemptsOK, Unprepared
  <1> QED
    BY <1>1, <1>2 DEF Unprepared, StagesNothing, Cautious

\* While the authorization is lost no step lets the attempt stage a review.
LEMMA NextStagesNothing ==
  ASSUME IInv, NEW a \in Attempts, StagesNothing(a), ~(awaiting /\ stored), [Next]_vars
  PROVE  StagesNothing(a)'
  <1>0. /\ attempt \in [Attempts -> [by : Attempts, call : Calls \cup Results \cup {"none", "gone"},
                                     blocked : BOOLEAN, review : 0 .. MaxAttempts]]
        /\ server.attempt \in Attempts /\ TypeOK /\ AttemptsOK
        /\ \A b \in Attempts : attempt[b] \in Making /\ attempt[b].by = b
        /\ orphans \subseteq Making
    BY DEF IInv, TypeOK, AttemptsOK, Making
  \* One attempt moves on.
  <1>1. ASSUME NEW b \in Attempts, NEW next, attempt' = [attempt EXCEPT ![b] = next],
               b = a => Cautious(next), reviews'[a] = "none",
               \A k \in orphans' : k \in orphans \/ k = attempt[b]
        PROVE  StagesNothing(a)'
    <2>1. Cautious(attempt[a])'
      BY <1>0, <1>1 DEF StagesNothing, Cautious
    <2>2. \A k \in orphans' : k.by = a => Cautious(k)
      BY <1>0, <1>1 DEF StagesNothing
    <2> QED
      BY <1>1, <2>1, <2>2 DEF StagesNothing, Cautious
  <1>2. ASSUME UNCHANGED attempt, orphans' \subseteq orphans, reviews'[a] = "none"
        PROVE  StagesNothing(a)'
    BY <1>2 DEF StagesNothing, Cautious
  <1>3. ASSUME NEW b \in Attempts, NEW c, c \notin {"head", "create", "find"}
        PROVE  Cautious(To(attempt[b], c))
    BY <1>0, <1>3 DEF To, Cautious
  <1>4. reviews[a] = "none"
    BY DEF StagesNothing
  <1>5. ASSUME NEW b \in Attempts, AcquireClaim(b) PROVE StagesNothing(a)'
    <2>1. attempt' = [attempt EXCEPT ![b] = To(attempt[b], "prepare")]
          /\ UNCHANGED <<reviews, orphans>>
      BY <1>5 DEF AcquireClaim
    <2> QED
      BY <1>1, <1>3, <1>4, <2>1
  <1>6. ASSUME NEW b \in Attempts, MakeCall(b) PROVE StagesNothing(a)'
    <2>1. PICK next : Take(attempt[b], next) /\ attempt' = [attempt EXCEPT ![b] = next]
      BY <1>6 DEF MakeCall
    <2>2. UNCHANGED orphans
      BY <1>6 DEF MakeCall
    <2>3. b = a => Cautious(attempt[b])
      BY DEF StagesNothing
    <2>4. b = a => Cautious(next)
      BY <1>0, <2>1, <2>3, TakeCautious
    <2>5. reviews'[a] = "none"
      BY <1>0, <1>4, <2>1, <2>3, TakeStages
    <2> QED
      BY <1>1, <2>1, <2>2, <2>4, <2>5
  <1>7. ASSUME NEW b \in Attempts, CallFails(b) PROVE StagesNothing(a)'
    <2>1. attempt' = [attempt EXCEPT ![b] = Raised(attempt[b])] /\ UNCHANGED orphans
      BY <1>7 DEF CallFails
    <2>2. Cautious(Raised(attempt[b]))
      BY <1>3 DEF Raised
    <2>3. b = a => Cautious(attempt[b])
      BY DEF StagesNothing
    <2>4. UNCHANGED reviews \/ \E next : Take(attempt[b], next)
      BY <1>7 DEF CallFails
    <2>5. reviews'[a] = "none"
      BY <1>0, <1>4, <2>3, <2>4, TakeStages
    <2> QED
      BY <1>1, <2>1, <2>2, <2>5
  <1>8. ASSUME NEW b \in Attempts, Cancelled(b) PROVE StagesNothing(a)'
    <2>1. \A k \in orphans' : k \in orphans \/ k = attempt[b]
      BY <1>8 DEF Cancelled
    <2>2. attempt' = [attempt EXCEPT ![b] = To(attempt[b], "gone")] /\ UNCHANGED reviews
      BY <1>8 DEF Cancelled
    <2> QED
      BY <1>1, <1>3, <1>4, <2>1, <2>2
  <1>9. CASE OrphanLands
    <2>1. PICK k \in orphans : (\E next : Take(k, next)) /\ orphans' = orphans \ {k}
      BY <1>9 DEF OrphanLands
    <2>2. k.by = a => Cautious(k)
      BY DEF StagesNothing
    <2>3. reviews'[a] = "none"
      BY <1>0, <1>4, <2>1, <2>2, TakeStages
    <2>4. UNCHANGED attempt
      BY <1>9 DEF OrphanLands
    <2> QED
      BY <1>2, <2>1, <2>3, <2>4
  <1>10. ASSUME NEW b \in Attempts, NextAttempt(b), UNCHANGED <<reviews, orphans>>
         PROVE  StagesNothing(a)'
    <2>1. CASE b < MaxAttempts
      <3>1. b + 1 \in Attempts
        BY <2>1, PublishAssumption DEF Attempts
      <3>2. Cautious(Started(b + 1))
        BY DEF Started, NotStarted, Cautious
      <3>3. attempt' = [attempt EXCEPT ![b + 1] = Started(b + 1)]
        BY <1>10, <2>1 DEF NextAttempt
      <3> QED
        BY <1>1, <1>4, <1>10, <3>1, <3>2, <3>3
    <2>2. CASE ~(b < MaxAttempts)
      BY <1>2, <1>4, <1>10, <2>2 DEF NextAttempt
    <2> QED
      BY <2>1, <2>2
  <1>11. CASE AttemptEnds \/ GiveUp
    <2>1. UNCHANGED <<reviews, orphans>>
      BY <1>11 DEF AttemptEnds, GiveUp
    <2>2. UNCHANGED attempt \/ NextAttempt(server.attempt)
      <3>1. CASE GiveUp
        BY <3>1 DEF GiveUp
      <3>2. CASE AttemptEnds
        <4>1. attempt[server.attempt].call \in Results
          BY <3>2 DEF AttemptEnds
        <4>2. CASE attempt[server.attempt].call = "error"
          BY <3>2, <4>2 DEF AttemptEnds
        <4>3. CASE attempt[server.attempt].call \in {"ok", "fatal"}
          BY <3>2, <4>3 DEF AttemptEnds
        <4> QED
          BY <4>1, <4>2, <4>3 DEF Results
      <3> QED
        BY <1>11, <3>1, <3>2
    <2> QED
      BY <1>0, <1>2, <1>4, <1>10, <2>1, <2>2
  <1>12. CASE RecordTerminal \/ PushHead \/ ReceivePush \/ UNCHANGED vars
    BY <1>2, <1>4, <1>12 DEF RecordTerminal, PushHead, ReceivePush, vars
  <1>13. CASE EditReview
    <2>1. PICK r \in With("submitted") : reviews' = [reviews EXCEPT ![r] = "edited"]
      BY <1>13 DEF EditReview
    <2>2. reviews'[a] = "none"
      BY <1>4, <2>1 DEF With, IInv, TypeOK
    <2> QED
      BY <1>2, <1>13, <2>2 DEF EditReview
  <1> QED
    BY <1>5, <1>6, <1>7, <1>8, <1>9, <1>11, <1>12, <1>13 DEF Next, Progress

\* Whatever attempts before it have left in the database, an attempt that prepares
\* after the run has lost its authorization for good stages no review (_prepare and
\* create_block_code, publish.py).
THEOREM RetryNeedsAuthority == Spec => LostAuthorityStagesNothing
  <1> SUFFICES ASSUME NEW a \in Attempts
               PROVE  Spec => [](Unprepared(a) /\ [](~(awaiting /\ stored))
                                   => [](reviews[a] = "none"))
    BY DEF LostAuthorityStagesNothing
  <1>1. IInv /\ Unprepared(a) => StagesNothing(a)
    BY UnpreparedStagesNothing
  <1>2. IInv /\ StagesNothing(a) /\ ~(awaiting /\ stored) /\ [Next]_vars => StagesNothing(a)'
    BY NextStagesNothing
  <1>3. StagesNothing(a) => reviews[a] = "none"
    BY DEF StagesNothing
  <1> QED
    BY <1>1, <1>2, <1>3, InductiveInvariant, PTL DEF Spec
=============================================================================
