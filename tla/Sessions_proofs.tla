--------------------------- MODULE Sessions_proofs ----------------------------
(***************************************************************************)
(* Proofs about Sessions for any number of requests.  StageInv says what a *)
(* request has and has not done yet at each of its steps, PairInv that of  *)
(* two refreshes of one token that did not overlap one came to nothing,    *)
(* RaceInv what a password change leaves to the requests it did not meet;  *)
(* the last section is the refinement of Rotation.                         *)
(***************************************************************************)
EXTENDS Sessions, TLAPS

StageInv ==
    \A r \in Requests :
        /\ pc[r] \notin {"issued", "over"} => row[r] = "absent"
        /\ pc[r] # "over" => answer[r] = "none"
        /\ pc[r] = "new" => parent[r] = NoRequest
        /\ pc[r] \in {"new", "user", "revoke"} => ~spent[r]

(* A presented token is in the table; what revoked it is on record.        *)
ParentInv ==
    \A r \in Requests :
        /\ parent[r] # NoRequest => row[parent[r]] # "absent"
        /\ spent[r] => parent[r] # NoRequest /\ row[parent[r]] = "revoked"
        /\ spent[r] => answer[r] # "refused"
        /\ parent[r] # NoRequest /\ (row[r] # "absent" \/ pc[r] = "create") => spent[r]

PairInv ==
    \A q, r \in Requests :
        q # r /\ parent[q] = parent[r] /\ parent[q] # NoRequest
              /\ ~Overlap(q, r)
          => \/ pc[q] = "over" /\ ~spent[q]
             \/ pc[r] = "over" /\ ~spent[r]

(* Requests under way at one time are on record as such.                   *)
FlightInv ==
    /\ \A r \in Requests : pc[r] = "new" => during[r] = {}
    /\ \A q, r \in Requests : q # r /\ InFlight(q) /\ InFlight(r) => Overlap(q, r)

(* At most one change is between its UPDATE and its commit; the rows it    *)
(* has found are as it found them.                                         *)
HoldInv ==
    /\ \A j, k \in Requests : pc[j] = "commit" /\ pc[k] = "commit" => j = k
    /\ \A k, t \in Requests :
         pc[k] = "commit" /\ t \in targets[k] => row[t] \in {"live", "expired"}

StemInv ==
    /\ \A r \in Requests : r \in stems[r]
    /\ \A r \in Requests : pc[r] = "new" => stems[r] = {r} /\ signedIn[r] = {}
    /\ \A r, k \in Requests : k \in signedIn[r] => Changed(k)
    /\ \A r \in Requests :
         Changed(r) => pc[r] = "over" /\ row[r] = "absent"

(* The sign-in behind r was checked before k was done, and nothing r stems *)
(* from was under way with k.                                              *)
Untouched(r, k) == k \notin signedIn[r] /\ \A q \in stems[r] : ~Overlap(q, k)

Race(r, k) ==
    /\ pc[k] = "commit" => row[r] # "live" \/ r \in targets[k]
    /\ Changed(k) => row[r] # "live" /\ pc[r] \notin {"user", "revoke", "create"}

RaceInv == \A r, k \in Requests : Untouched(r, k) => Race(r, k)

LocalInv == StageInv /\ ParentInv /\ PairInv /\ HoldInv /\ StemInv /\ OnlyRefreshEndsToken

IInv == TypeOK /\ LocalInv /\ FlightInv /\ RaceInv

-----------------------------------------------------------------------------
(* The initial states satisfy the invariant.                               *)
LEMMA Starts == Init => IInv
  BY NoRequestAssumption DEF Init, IInv, LocalInv, TypeOK, StageInv, ParentInv, PairInv, FlightInv,
     HoldInv, StemInv, RaceInv, Race, Untouched, LocalInv, OnlyRefreshEndsToken, Overlap, InFlight, Changed,
     Rows, Steps, Answers

(* No request, wherever it is interrupted, leaves a value outside its type *)
(* or a token that was answered and is not stored.                         *)
LEMMA TypeStep == TypeOK /\ StageInv /\ [Next]_vars => TypeOK'
<1> SUFFICES ASSUME TypeOK, StageInv, [Next]_vars PROVE TypeOK'
  OBVIOUS
<1> USE DEF database, locals
<1>1. ASSUME NEW r \in Requests, SignIn(r) \/ SignInRefused(r) PROVE TypeOK'
  BY <1>1 DEF TypeOK, StageInv, SignIn, SignInRefused, Observe, Go, Finish, Steps, Answers
<1>2. ASSUME NEW r \in Requests, NEW t \in Requests, Lookup(r, t) \/ LookupRefused(r, t)
      PROVE  TypeOK'
  BY <1>2, NoRequestAssumption
     DEF TypeOK, StageInv, Lookup, LookupRefused, Presented, Observe, Go, Finish, Steps, Answers
<1>3. ASSUME NEW r \in Requests, ReadUser(r) PROVE TypeOK'
  BY <1>3 DEF TypeOK, StageInv, ReadUser, Go, Finish, Steps, Answers
<1>4. ASSUME NEW r \in Requests, Revoke(r) PROVE TypeOK'
  <2>1. parent[r] \in Requests
    BY <1>4 DEF TypeOK, Revoke
  <2> QED BY <1>4, <2>1 DEF TypeOK, StageInv, Revoke, Go, Steps, Rows
<1>5. ASSUME NEW r \in Requests, Create(r) PROVE TypeOK'
  BY <1>5 DEF TypeOK, StageInv, Create, Go, Steps, Rows
<1>6. ASSUME NEW r \in Requests, Answer(r) PROVE TypeOK'
  BY <1>6 DEF TypeOK, StageInv, Answer, Go, Finish, Steps, Answers
<1>7. ASSUME NEW r \in Requests, BeginChange(r) \/ RevokeAll(r) \/ CommitChange(r) PROVE TypeOK'
  BY <1>7 DEF TypeOK, StageInv, BeginChange, RevokeAll, CommitChange, Observe, Go, Finish, Steps, Answers, Rows
<1>8. ASSUME NEW r \in Requests, Interrupt(r) \/ Expire(r) PROVE TypeOK'
  BY <1>8 DEF TypeOK, StageInv, Interrupt, Expire, InFlight, Go, Finish, Steps, Answers, Rows
<1>9. ASSUME SetActive \/ UNCHANGED vars PROVE TypeOK'
  BY <1>9 DEF TypeOK, SetActive, vars
<1> QED BY <1>1, <1>2, <1>3, <1>4, <1>5, <1>6, <1>7, <1>8, <1>9 DEF Next

-----------------------------------------------------------------------------
(* Which requests are under way together *)

(* A request that is checked sees everyone else who is under way.          *)
LEMMA FlightStep == TypeOK /\ FlightInv /\ [Next]_vars => FlightInv'
<1> SUFFICES ASSUME TypeOK, FlightInv, [Next]_vars PROVE FlightInv'
  OBVIOUS
<1>1. ASSUME NEW r \in Requests, Observe(r), NEW step \in Steps \ {"new"}, Go(r, step), pc[r] = "new"
      PROVE  FlightInv'
  BY <1>1 DEF TypeOK, FlightInv, Overlap, InFlight, Observe, Go
<1>2. ASSUME NEW r \in Requests, during' = during, NEW step \in Steps \ {"new"}, Go(r, step),
             InFlight(r) \/ step = "over"
      PROVE  FlightInv'
  BY <1>2 DEF TypeOK, FlightInv, Overlap, InFlight, Go
<1>3. ASSUME during' = during, pc' = pc
      PROVE  FlightInv'
  BY <1>3 DEF FlightInv, Overlap, InFlight
<1>4. ASSUME NEW r \in Requests,
             SignIn(r) \/ BeginChange(r) \/ \E t \in Requests : Lookup(r, t)
      PROVE  FlightInv'
  BY <1>1, <1>4 DEF SignIn, BeginChange, Lookup, Steps
<1>5. ASSUME NEW r \in Requests,
             \/ SignInRefused(r) \/ ReadUser(r) \/ Revoke(r) \/ Create(r) \/ Answer(r)
             \/ RevokeAll(r) \/ CommitChange(r) \/ Interrupt(r) \/ \E t \in Requests : LookupRefused(r, t)
      PROVE  FlightInv'
  <2>1. during' = during
    BY <1>5 DEF SignInRefused, ReadUser, Revoke, Create, Answer, RevokeAll,
       CommitChange, Interrupt,
       LookupRefused, locals
  <2>2. \/ Go(r, "over")
        \/ InFlight(r) /\ \E step \in {"revoke", "create", "issued", "commit"} : Go(r, step)
    BY <1>5 DEF SignInRefused, ReadUser, Revoke, Create, Answer, RevokeAll,
       CommitChange, Interrupt,
       LookupRefused, Finish, InFlight
  <2> QED BY <1>2, <2>1, <2>2 DEF Steps
<1>6. ASSUME (\E t \in Requests : Expire(t)) \/ SetActive \/ UNCHANGED vars
      PROVE  FlightInv'
  BY <1>3, <1>6 DEF Expire, SetActive, vars, locals
<1> QED BY <1>4, <1>5, <1>6 DEF Next

(* An overlap is never undone.                                             *)
LEMMA OverlapStays ==
  ASSUME TypeOK, FlightInv, [Next]_vars, NEW q \in Requests, NEW r \in Requests, Overlap(q, r)
  PROVE  Overlap(q, r)'
<1>1. during' = during \/ \E p \in Requests : pc[p] = "new" /\ Observe(p)
  BY DEF Next, SignIn, SignInRefused, Lookup, LookupRefused, ReadUser, Revoke, Create, Answer,
     BeginChange, RevokeAll, CommitChange, Interrupt, Expire, SetActive, vars, locals
<1>2. ASSUME NEW p \in Requests, pc[p] = "new", Observe(p)
      PROVE  Overlap(q, r)'
  BY <1>2 DEF TypeOK, FlightInv, Overlap, Observe
<1> QED BY <1>1, <1>2 DEF Overlap

-----------------------------------------------------------------------------
(* What a change leaves alive *)

(* Untouched is lost, never gained, but by the check of a sign-in or by     *)
(* presenting a token.                                                     *)
LEMMA UntouchedBefore ==
  ASSUME TypeOK, FlightInv, StemInv, [Next]_vars, NEW r \in Requests, NEW k \in Requests,
         Untouched(r, k)'
  PROVE  \/ Untouched(r, k)
         \/ SignIn(r) /\ ~Changed(k)
         \/ \E t \in Requests : Lookup(r, t) /\ Untouched(t, k)
<1>1. CASE signedIn'[r] = signedIn[r] /\ stems'[r] = stems[r]
  <2>1. stems[r] \subseteq Requests
    BY DEF TypeOK
  <2> QED BY <1>1, <2>1, OverlapStays DEF Untouched
<1>2. CASE SignIn(r)
  BY <1>2 DEF SignIn, Untouched, TypeOK
<1>3. ASSUME NEW t \in Requests, Lookup(r, t)
      PROVE  Untouched(t, k)
  <2>1. signedIn'[r] = signedIn[t] /\ stems'[r] = stems[t] \cup {r} /\ stems[t] \subseteq Requests
    BY <1>3 DEF Lookup, TypeOK
  <2> QED BY <2>1, OverlapStays DEF Untouched
<1>4. \/ signedIn'[r] = signedIn[r] /\ stems'[r] = stems[r]
      \/ SignIn(r) \/ \E t \in Requests : Lookup(r, t)
  <2>1. ASSUME NEW q \in Requests, SignIn(q) \/ \E t \in Requests : Lookup(q, t), q # r
        PROVE  signedIn'[r] = signedIn[r] /\ stems'[r] = stems[r]
    BY <2>1 DEF SignIn, Lookup, TypeOK
  <2>2. \/ UNCHANGED <<signedIn, stems>>
        \/ \E q \in Requests : SignIn(q) \/ \E t \in Requests : Lookup(q, t)
    BY DEF Next, SignInRefused, LookupRefused, ReadUser, Revoke, Create, Answer,
       BeginChange, RevokeAll, CommitChange, Interrupt, Expire, SetActive, vars, locals
  <2> QED BY <2>1, <2>2
<1> QED BY <1>1, <1>2, <1>3, <1>4

(* Insertions in flight during the change make its request touched; a      *)
(* token it has revoked cannot be presented again.                         *)
LEMMA RaceStep ==
  ASSUME IInv, [Next]_vars
  PROVE  RaceInv'
<1> SUFFICES ASSUME NEW r \in Requests, NEW k \in Requests, Untouched(r, k)' PROVE Race(r, k)'
  BY DEF RaceInv
<1> USE DEF IInv, LocalInv, database, locals
<1>1. ASSUME SignIn(r), ~Changed(k)
      PROVE  Race(r, k)'
  BY <1>1 DEF Race, SignIn, Changed, Go, TypeOK, StageInv
<1>2. ASSUME NEW t \in Requests, Lookup(r, t), Untouched(t, k)
      PROVE  Race(r, k)'
  <2>1. row[t] = "live" /\ ~Changed(k)
    BY <1>2 DEF Lookup, ActiveRow, RaceInv, Race
  <2> QED BY <1>2, <2>1 DEF Race, Lookup, Changed, Go, TypeOK, StageInv
<1>3. ASSUME Untouched(r, k), ~SignIn(r), \A t \in Requests : ~Lookup(r, t)
      PROVE  Race(r, k)'
  <2>1. Race(r, k)
    BY <1>3 DEF RaceInv
  <2>2. ~(InFlight(r) /\ InFlight(k)) \/ r = k
    BY <1>3 DEF Untouched, StemInv, FlightInv
  <2>3. ASSUME NEW q \in Requests \ {r}, SignIn(q) \/ \E t \in Requests : Lookup(q, t)
        PROVE  Race(r, k)'
    BY <2>1, <2>3 DEF Race, SignIn, Lookup, Changed, Go, TypeOK
  <2>4. ASSUME NEW q \in Requests,
               \/ SignInRefused(q) \/ BeginChange(q) \/ ReadUser(q) \/ Answer(q) \/ Interrupt(q)
               \/ \E t \in Requests : LookupRefused(q, t)
        PROVE  Race(r, k)'
    BY <2>1, <2>4 DEF Race, SignInRefused, BeginChange, ReadUser, Answer, Interrupt, LookupRefused,
       Changed, Go, Finish, TypeOK
  <2>5. ASSUME NEW q \in Requests, Revoke(q)
        PROVE  Race(r, k)'
    BY <2>1, <2>5 DEF Race, Revoke, Changed, Go, TypeOK
  <2>6. ASSUME NEW q \in Requests, Create(q)
        PROVE  Race(r, k)'
    BY <2>1, <2>2, <2>6 DEF Race, Create, Changed, Go, InFlight, TypeOK
  <2>7. ASSUME NEW q \in Requests, RevokeAll(q)
        PROVE  Race(r, k)'
    BY <2>1, <2>7 DEF Race, RevokeAll, Changed, Go, TypeOK
  <2>8. ASSUME NEW q \in Requests, CommitChange(q)
        PROVE  Race(r, k)'
    BY <2>1, <2>2, <2>8 DEF Race, CommitChange, Changed, Go, Finish, InFlight, TypeOK, StageInv
  <2>9. ASSUME NEW q \in Requests, Expire(q)
        PROVE  Race(r, k)'
    BY <2>1, <2>9 DEF Race, Expire, Changed, TypeOK
  <2>10. CASE SetActive \/ UNCHANGED vars
    BY <2>1, <2>10 DEF Race, SetActive, Changed, vars
  <2> QED BY <1>3, <2>3, <2>4, <2>5, <2>6, <2>7, <2>8, <2>9, <2>10 DEF Next
<1>4. CASE SignIn(r) /\ Changed(k)
  BY <1>4 DEF SignIn, Untouched, TypeOK
<1>5. ASSUME NEW t \in Requests, Lookup(r, t), ~Untouched(t, k)
      PROVE  FALSE
  <2>1. signedIn'[r] = signedIn[t] /\ stems'[r] = stems[t] \cup {r} /\ stems[t] \subseteq Requests
    BY <1>5 DEF Lookup, TypeOK
  <2> QED BY <1>5, <2>1, OverlapStays DEF Untouched
<1> QED BY <1>1, <1>2, <1>3, <1>4, <1>5, UntouchedBefore

-----------------------------------------------------------------------------
(* The rest of the invariant is inductive, action by action *)

LEMMA SignsIn ==
  ASSUME IInv, TypeOK', NEW r \in Requests, SignIn(r) \/ SignInRefused(r)
  PROVE  LocalInv'
<1> USE DEF database, locals, Go, Finish, IInv, LocalInv, TypeOK
<1>1. StageInv' /\ ParentInv'
  BY DEF StageInv, ParentInv, HoldInv, SignIn, SignInRefused
<1>2. PairInv'
  BY DEF StageInv, ParentInv, PairInv, Overlap, InFlight, Observe, Steps, SignIn, SignInRefused
<1>3. HoldInv' /\ StemInv'
  <2>1. HoldInv'
    BY DEF StageInv, HoldInv, SignIn, SignInRefused
  <2>2. StemInv'
    BY DEF StageInv, StemInv, Changed, SignIn, SignInRefused
  <2> QED BY <2>1, <2>2
<1>4. OnlyRefreshEndsToken'
  BY DEF StageInv, ParentInv, HoldInv, StemInv, OnlyRefreshEndsToken, Changed, SignIn, SignInRefused
<1> QED BY <1>1, <1>2, <1>3, <1>4 DEF LocalInv

LEMMA LooksUp ==
  ASSUME IInv, TypeOK', NEW r \in Requests, NEW t \in Requests,
         Lookup(r, t) \/ LookupRefused(r, t)
  PROVE  LocalInv'
<1> USE DEF database, locals, Go, Finish, IInv, LocalInv, TypeOK
<1>1. StageInv' /\ ParentInv'
  BY NoRequestAssumption DEF StageInv, ParentInv, HoldInv, Lookup, LookupRefused, ActiveRow, Presented
<1>2. PairInv'
  BY DEF StageInv, ParentInv, PairInv, Overlap, InFlight, Observe, Steps, Lookup, LookupRefused, ActiveRow, Presented
<1>3. HoldInv'
  BY DEF StageInv, HoldInv, Lookup, LookupRefused
<1>4. StemInv'
  <2>1. CASE Lookup(r, t)
    <3>1. /\ answer' = answer /\ row' = row /\ pc' = [pc EXCEPT ![r] = "user"] /\ pc[r] = "new"
          /\ signedIn' = [signedIn EXCEPT ![r] = signedIn[t]]
          /\ stems' = [stems EXCEPT ![r] = stems[t] \cup {r}]
      BY <2>1 DEF Lookup
    <3> QED BY <3>1 DEF StageInv, StemInv, Changed
  <2>2. CASE LookupRefused(r, t)
    BY <2>2 DEF StageInv, StemInv, Changed, LookupRefused
  <2> QED BY <2>1, <2>2
<1>5. OnlyRefreshEndsToken'
  BY DEF StageInv, ParentInv, HoldInv, StemInv, OnlyRefreshEndsToken, Changed, Lookup, LookupRefused, ActiveRow, Presented
<1> QED BY <1>1, <1>2, <1>3, <1>4, <1>5 DEF LocalInv

LEMMA Rotates ==
  ASSUME IInv, TypeOK', NEW r \in Requests, ReadUser(r) \/ Revoke(r)
  PROVE  LocalInv'
<1> USE DEF database, locals, Go, Finish, IInv, LocalInv, TypeOK
<1>1. StageInv' /\ ParentInv'
  BY DEF StageInv, ParentInv, HoldInv, ReadUser, Revoke
<1>2. PairInv'
  BY DEF StageInv, ParentInv, PairInv, Overlap, InFlight, Observe, Steps, ReadUser, Revoke
<1>3. HoldInv' /\ StemInv'
  <2>1. HoldInv'
    <3>1. pc' = [pc EXCEPT ![r] = pc'[r]] /\ pc'[r] # "commit" /\ targets' = targets
      BY DEF ReadUser, Revoke
    <3>2. \A j, k \in Requests : pc'[j] = "commit" /\ pc'[k] = "commit" => j = k
      BY <3>1 DEF HoldInv
    <3>3. ASSUME NEW k \in Requests, NEW t \in Requests, pc'[k] = "commit", t \in targets'[k]
          PROVE  row'[t] \in {"live", "expired"}
      <4>1. pc[k] = "commit" /\ t \in targets[k]
        BY <3>1, <3>3
      <4>2. row'[t] = row[t]
        BY <4>1 DEF ReadUser, Revoke, Held
      <4> QED BY <4>1, <4>2 DEF HoldInv
    <3> QED BY <3>2, <3>3 DEF HoldInv
  <2>2. StemInv'
    BY DEF StageInv, ParentInv, StemInv, Changed, ReadUser, Revoke
  <2> QED BY <2>1, <2>2
<1>4. OnlyRefreshEndsToken'
  BY DEF StageInv, ParentInv, HoldInv, StemInv, OnlyRefreshEndsToken, Changed, ReadUser, Revoke
<1> QED BY <1>1, <1>2, <1>3, <1>4 DEF LocalInv

LEMMA Issues ==
  ASSUME IInv, TypeOK', NEW r \in Requests, Create(r) \/ Answer(r)
  PROVE  LocalInv'
<1> USE DEF database, locals, Go, Finish, IInv, LocalInv, TypeOK
<1>1. StageInv' /\ ParentInv'
  BY DEF StageInv, ParentInv, HoldInv, Create, Answer
<1>2. PairInv'
  BY DEF StageInv, ParentInv, PairInv, Overlap, InFlight, Observe, Steps, Create, Answer
<1>3. HoldInv' /\ StemInv'
  <2>1. HoldInv'
    BY DEF StageInv, HoldInv, Create, Answer
  <2>2. StemInv'
    BY DEF StageInv, StemInv, Changed, Create, Answer
  <2> QED BY <2>1, <2>2
<1>4. OnlyRefreshEndsToken'
  BY DEF StageInv, ParentInv, HoldInv, StemInv, OnlyRefreshEndsToken, Changed, Create, Answer
<1> QED BY <1>1, <1>2, <1>3, <1>4 DEF LocalInv

LEMMA ChangesPassword ==
  ASSUME IInv, TypeOK', NEW r \in Requests,
         BeginChange(r) \/ RevokeAll(r) \/ CommitChange(r)
  PROVE  LocalInv'
<1> USE DEF database, locals, Go, Finish, IInv, LocalInv, TypeOK
<1>1. StageInv' /\ ParentInv'
  BY DEF StageInv, ParentInv, HoldInv, BeginChange, RevokeAll, CommitChange
<1>2. PairInv'
  BY DEF StageInv, ParentInv, PairInv, Overlap, InFlight, Observe, Steps, BeginChange, RevokeAll, CommitChange
<1>3. HoldInv' /\ StemInv'
  <2>1. HoldInv'
    BY DEF StageInv, HoldInv, BeginChange, RevokeAll, CommitChange
  <2>2. StemInv'
    <3>1. CASE BeginChange(r) \/ RevokeAll(r)
      BY <3>1 DEF StageInv, StemInv, Changed, BeginChange, RevokeAll
    <3>2. CASE CommitChange(r)
      BY <3>2 DEF StageInv, HoldInv, StemInv, Changed, CommitChange
    <3> QED BY <3>1, <3>2
  <2> QED BY <2>1, <2>2
<1>4. OnlyRefreshEndsToken'
  <2>1. CASE BeginChange(r)
    BY <2>1 DEF StageInv, OnlyRefreshEndsToken, Changed, BeginChange
  <2>2. CASE RevokeAll(r)
    BY <2>2 DEF StageInv, OnlyRefreshEndsToken, Changed, RevokeAll
  <2>3. CASE CommitChange(r)
    BY <2>3 DEF StageInv, StemInv, OnlyRefreshEndsToken, Changed, CommitChange
  <2> QED BY <2>1, <2>2, <2>3
<1> QED BY <1>1, <1>2, <1>3, <1>4 DEF LocalInv

LEMMA Environment ==
  ASSUME IInv, TypeOK',
         (\E r \in Requests : Interrupt(r) \/ Expire(r)) \/ SetActive \/ UNCHANGED vars
  PROVE  LocalInv'
<1> USE DEF database, locals, IInv, LocalInv
<1>1. CASE SetActive \/ UNCHANGED vars
  BY <1>1 DEF LocalInv, StageInv, ParentInv, PairInv, HoldInv, StemInv, OnlyRefreshEndsToken,
     Overlap, InFlight, Changed, SetActive, vars
<1>2. ASSUME NEW r \in Requests, Interrupt(r) \/ Expire(r) PROVE LocalInv'
  <2> USE <1>2 DEF TypeOK, Interrupt, Expire, InFlight, Go, Finish
  <2>1. StageInv' /\ ParentInv'
    BY DEF StageInv, ParentInv
  <2>2. PairInv'
    BY DEF StageInv, PairInv, Overlap
  <2>3. HoldInv' /\ StemInv'
    BY DEF StageInv, HoldInv, StemInv, Changed
  <2>4. OnlyRefreshEndsToken'
    BY DEF StageInv, StemInv, OnlyRefreshEndsToken, Changed
  <2> QED BY <2>1, <2>2, <2>3, <2>4 DEF LocalInv
<1> QED BY <1>1, <1>2

(* Every step preserves the invariant.                                     *)
LEMMA Inductive == IInv /\ [Next]_vars => IInv'
<1> SUFFICES ASSUME IInv, [Next]_vars PROVE IInv'
  OBVIOUS
<1>1. TypeOK' /\ FlightInv'
  BY TypeStep, FlightStep DEF IInv, LocalInv
<1> QED BY <1>1, RaceStep, SignsIn, LooksUp, Rotates, Issues, ChangesPassword, Environment DEF Next, IInv

LEMMA Invariant == Spec => []IInv
  BY Starts, Inductive, PTL DEF Spec

-----------------------------------------------------------------------------
(* Every variable keeps its type and every answered token is stored, for   *)
(* any number of requests (auth.py, _issue_tokens).                        *)
THEOREM TypeCorrect == Spec => []TypeOK
  BY Invariant, PTL DEF IInv, LocalInv

(* From the moment a token has a successor it is revoked for good          *)
(* (refresh_tokens).                                                       *)
THEOREM SuccessorsEndTokens == Spec => []SuccessorEndsToken
<1>1. IInv => SuccessorEndsToken
  BY DEF IInv, LocalInv, ParentInv, SuccessorEndsToken, Refreshed
<1> QED BY <1>1, Invariant, PTL

(* A token has two successors only if the requests overlapped: rotation is *)
(* exclusive for a client that waits (refresh_tokens).                     *)
THEOREM RotationForksOnlyInOverlap == Spec => []OnlyOverlapForks
<1>1. IInv => OnlyOverlapForks
  BY DEF IInv, LocalInv, ParentInv, PairInv, OnlyOverlapForks, Refreshed
<1> QED BY <1>1, Invariant, PTL

(* No refused or failed refresh costs a client its token (refresh_tokens). *)
THEOREM TokensEndByRefresh == Spec => []OnlyRefreshEndsToken
  BY Invariant, PTL DEF IInv, LocalInv

(* A session outlives a password change done after its sign-in was checked *)
(* only through a request under way during the change (change_password,    *)
(* revoke_all_for_user, _issue_tokens).                                    *)
THEOREM SurvivorsRaced == Spec => []OnlyRacingSurvives
<1>1. IInv => OnlyRacingSurvives
  BY DEF IInv, LocalInv, RaceInv, Race, Untouched, OnlyRacingSurvives
<1> QED BY <1>1, Invariant, PTL

-----------------------------------------------------------------------------
(* Serial requests implement Rotation *)

(* What Rotation sees of the state.                                        *)
Stored == {q \in Requests : row[q] # "absent"}
From == [r \in Stored |-> parent[r]]
Alive == {t \in Requests : row[t] = "live" \/ Exchanging(t)}

(* Requests that follow one another did so before.                         *)
LEMMA SerialBefore ==
    ASSUME TypeOK, FlightInv, Serial', [Next]_vars
    PROVE  Serial
<1>1. during' = during \/ \E r \in Requests : pc[r] = "new" /\ Observe(r)
  BY DEF Next, SignIn, SignInRefused, Lookup, LookupRefused, ReadUser, Revoke, Create, Answer,
     BeginChange, RevokeAll, CommitChange, Interrupt, Expire, SetActive, vars, locals
<1>2. CASE during' = during
  BY <1>2 DEF Serial
<1>3. ASSUME NEW r \in Requests, pc[r] = "new", Observe(r)
      PROVE  Serial
  BY <1>3 DEF Serial, Observe, FlightInv, TypeOK
<1> QED BY <1>1, <1>2, <1>3

(* Where requests follow one another, whoever is under way is alone.       *)
LEMMA Alone ==
    ASSUME FlightInv, Serial
    PROVE  \A q, r \in Requests : InFlight(q) /\ InFlight(r) => q = r
BY DEF Serial, FlightInv, Overlap

(* A step is one of Rotation's if it is one in what Rotation sees.         *)
LEMMA Seen ==
    /\ From' = From /\ Alive' = Alive => UNCHANGED Rot!vars
    /\ \A t \in Requests : t \in Alive /\ From' = From /\ Alive' = Alive \ {t} => Rot!Lose(t)
    /\ From' = From /\ Alive' = {} => Rot!EndAll
    /\ \A r \in Requests :
         /\ r \notin Stored
         /\ From' = [q \in Stored \cup {r} |-> IF q = r THEN NoRequest ELSE From[q]]
         /\ Alive' = Alive \cup {r}
         => Rot!SignIn(r)
    /\ \A r, t \in Requests :
         /\ r \notin Stored /\ t \in Alive
         /\ From' = [q \in Stored \cup {r} |-> IF q = r THEN t ELSE From[q]]
         /\ Alive' = (Alive \ {t}) \cup {r}
         => Rot!Exchange(t, r)
BY DEF Rot!vars, Rot!Lose, Rot!EndAll, Rot!SignIn, Rot!Exchange, Rot!Issue, Rot!issued,
   Stored, From, Alive

(* What was exchanged for what changes with the rows that are there.       *)
LEMMA SameFrom ==
    ASSUME \A q \in Requests : row'[q] # "absent" <=> row[q] # "absent",
           \A q \in Requests : row[q] # "absent" => parent'[q] = parent[q]
    PROVE  From' = From
<1>1. Stored' = Stored
  BY DEF Stored
<1>2. \A q \in Stored : parent'[q] = parent[q]
  BY DEF Stored
<1> QED BY <1>1, <1>2 DEF From

(* A request that gives up an exchange loses the token, unless it is still *)
(* alive.                                                                  *)
LEMMA GivesUp ==
    ASSUME IInv, NEW r \in Requests, Go(r, "over"), UNCHANGED <<row, parent>>
    PROVE  [Rot!Next]_(Rot!vars)
<1>1. From' = From
  BY SameFrom
<1>2. \A t \in Requests : Exchanging(t)' <=>
        \E q \in Requests \ {r} : pc[q] \in {"user", "revoke", "create"} /\ parent[q] = t
  BY DEF Exchanging, Go, IInv, LocalInv, TypeOK
<1>3. CASE Alive' = Alive
  BY <1>1, <1>3, Seen
<1>4. CASE Alive' # Alive
  <2>1. /\ \A t \in Requests : Exchanging(t)' => Exchanging(t)
        /\ \A t \in Requests : Exchanging(t) /\ t # parent[r] => Exchanging(t)'
    BY <1>2 DEF Exchanging
  <2>2. parent[r] \in Requests /\ parent[r] \in Alive /\ Alive' = Alive \ {parent[r]}
    BY <1>4, <2>1 DEF Alive
  <2>3. PICK t \in Requests : t = parent[r]
    BY <2>2
  <2>4. Rot!Lose(t)
    BY <1>1, <2>2, <2>3, Seen
  <2> QED BY <2>4 DEF Rot!Next
<1> QED BY <1>3, <1>4

(* Steps that Rotation does not see: what they do to a token was done or   *)
(* will be with its exchange.                                              *)
LEMMA Unseen ==
    ASSUME IInv, NEW r \in Requests,
           \/ SignIn(r) \/ SignInRefused(r) \/ BeginChange(r) \/ RevokeAll(r)
           \/ Revoke(r) \/ Answer(r)
           \/ \E t \in Requests : Lookup(r, t) \/ LookupRefused(r, t)
    PROVE  UNCHANGED Rot!vars
<1> USE DEF database, locals, IInv, LocalInv
<1>1. CASE SignIn(r) \/ SignInRefused(r) \/ BeginChange(r) \/ RevokeAll(r) \/ Answer(r)
           \/ \E t \in Requests : LookupRefused(r, t)
  <2>1. /\ UNCHANGED <<row, parent>> /\ pc[r] \in {"new", "issued", "change"}
        /\ pc'[r] \in {"create", "change", "commit", "over"} /\ (pc'[r] = "create" => parent[r] = NoRequest)
        /\ \A q \in Requests \ {r} : pc'[q] = pc[q]
    BY <1>1 DEF SignIn, SignInRefused, BeginChange, RevokeAll, Answer, LookupRefused, Go, Finish,
       TypeOK, StageInv
  <2>2. \A t \in Requests : Exchanging(t)' <=> Exchanging(t)
    BY <2>1, NoRequestAssumption DEF Exchanging
  <2> QED BY <2>1, <2>2, SameFrom, Seen DEF Alive
<1>2. ASSUME NEW t \in Requests, Lookup(r, t)
      PROVE  UNCHANGED Rot!vars
  <2>1. /\ row' = row /\ row[t] = "live" /\ row[r] = "absent" /\ pc[r] = "new"
        /\ pc'[r] = "user" /\ parent'[r] = t
        /\ \A q \in Requests \ {r} : pc'[q] = pc[q] /\ parent'[q] = parent[q]
    BY <1>2 DEF Lookup, ActiveRow, Go, TypeOK, StageInv
  <2>2. \A s \in Requests : Exchanging(s)' <=> Exchanging(s) \/ s = t
    BY <2>1 DEF Exchanging
  <2> QED BY <2>1, <2>2, SameFrom, Seen DEF Alive
<1>3. CASE Revoke(r)
  <2>1. /\ parent' = parent /\ pc[r] = "revoke" /\ pc'[r] = "create" /\ parent[r] \in Requests
        /\ row[parent[r]] # "absent" /\ row' = [row EXCEPT ![parent[r]] = "revoked"]
        /\ \A q \in Requests \ {r} : pc'[q] = pc[q]
    BY <1>3 DEF Revoke, Go, TypeOK, ParentInv
  <2>2. \A t \in Requests : Exchanging(t)' <=> Exchanging(t)
    BY <2>1 DEF Exchanging
  <2>3. \A t \in Requests : row'[t] = row[t] \/ (t = parent[r] /\ row'[t] = "revoked" /\ Exchanging(t))
    BY <2>1 DEF Exchanging, TypeOK
  <2> QED BY <2>1, <2>2, <2>3, SameFrom, Seen DEF Alive
<1> QED BY <1>1, <1>2, <1>3

(* The new token takes the place of the one it was made from, or is that   *)
(* of a sign-in.                                                           *)
LEMMA CreateRotates ==
    ASSUME IInv, \A p, q \in Requests : InFlight(p) /\ InFlight(q) => p = q,
           NEW r \in Requests, Create(r)
    PROVE  Rot!Next
<1> USE DEF IInv, LocalInv
<1>1. /\ pc[r] = "create" /\ row' = [row EXCEPT ![r] = "live"] /\ parent' = parent
      /\ pc' = [pc EXCEPT ![r] = "issued"] /\ row[r] = "absent" /\ InFlight(r)
  BY DEF Create, locals, Go, StageInv, InFlight
<1>2. \A q \in Requests \ {r} : pc[q] \notin {"user", "revoke", "create"}
  BY <1>1 DEF InFlight
<1>3. /\ \A t \in Requests : Exchanging(t) <=> t = parent[r]
      /\ \A t \in Requests : ~Exchanging(t)'
  BY <1>1, <1>2 DEF Exchanging, TypeOK
<1>4. /\ row'[r] = "live" /\ \A q \in Requests \ {r} : row'[q] = row[q]
      /\ Stored' = Stored \cup {r} /\ r \notin Stored
  BY <1>1 DEF Stored, TypeOK
<1>5. From' = [q \in Stored \cup {r} |-> IF q = r THEN parent[r] ELSE From[q]]
  BY <1>1, <1>4 DEF From
<1>6. CASE parent[r] = NoRequest
  <2>1. Alive' = Alive \cup {r}
    BY <1>3, <1>4, <1>6, NoRequestAssumption DEF Alive
  <2>2. Rot!SignIn(r)
    BY <1>4, <1>5, <1>6, <2>1, Seen
  <2> QED BY <2>2 DEF Rot!Next
<1>7. CASE parent[r] # NoRequest
  <2>1. PICK t \in Requests : t = parent[r]
    BY <1>7 DEF TypeOK
  <2>2. row[t] = "revoked" /\ t # r
    BY <1>1, <1>7, <2>1 DEF ParentInv
  <2>3. t \in Alive /\ Alive' = (Alive \ {t}) \cup {r}
    BY <1>3, <1>4, <2>1, <2>2 DEF Alive
  <2>4. Rot!Exchange(t, r)
    BY <1>4, <1>5, <2>1, <2>3, Seen
  <2> QED BY <2>4 DEF Rot!Next
<1> QED BY <1>6, <1>7

(* A password change that nobody overlapped ends every session: its UPDATE *)
(* found whatever is alive.                                                *)
LEMMA ChangeEndsAll ==
    ASSUME IInv, Serial, \A p, q \in Requests : InFlight(p) /\ InFlight(q) => p = q,
           NEW r \in Requests, CommitChange(r)
    PROVE  Rot!Next
<1>1. /\ pc[r] = "commit" /\ pc' = [pc EXCEPT ![r] = "over"] /\ parent' = parent /\ InFlight(r)
      /\ \A q \in Requests : row'[q] = IF q \in targets[r] THEN "revoked" ELSE row[q]
  BY DEF CommitChange, Finish, Go, InFlight, locals
<1>2. \A t \in Requests : ~Exchanging(t)'
  BY <1>1 DEF Exchanging, InFlight, IInv, LocalInv, TypeOK
<1>3. From' = From
  <2>1. \A t \in targets[r] : t \in Requests /\ row[t] # "absent"
    BY <1>1 DEF IInv, LocalInv, TypeOK, HoldInv
  <2> QED BY <1>1, <2>1, SameFrom
<1>4. ASSUME NEW t \in Requests, row[t] = "live" PROVE t \in targets[r]
  <2>1. ~Changed(r)
    BY <1>1 DEF IInv, LocalInv, StageInv, Changed
  <2>2. Untouched(t, r)
    BY <2>1 DEF IInv, LocalInv, StemInv, TypeOK, Untouched, Overlap, Serial
  <2> QED BY <1>1, <1>4, <2>2 DEF IInv, LocalInv, RaceInv, Race
<1>5. Alive' = {}
  BY <1>1, <1>2, <1>4 DEF Alive
<1> QED BY <1>3, <1>5, Seen DEF Rot!Next

(* A token expires, where nobody is exchanging it.                         *)
LEMMA ExpiryLoses ==
    ASSUME IInv, NEW t \in Requests, Expire(t)
    PROVE  [Rot!Next]_(Rot!vars)
<1>1. /\ row[t] = "live" /\ row'[t] = "expired" /\ UNCHANGED <<pc, parent>>
      /\ \A q \in Requests \ {t} : row'[q] = row[q]
  BY DEF Expire, locals, IInv, LocalInv, TypeOK
<1>2. From' = From
  BY <1>1, SameFrom
<1>3. \A s \in Requests : Exchanging(s)' <=> Exchanging(s)
  BY <1>1 DEF Exchanging
<1>4. CASE Exchanging(t)
  <2>1. Alive' = Alive
    BY <1>1, <1>3, <1>4 DEF Alive
  <2> QED BY <1>2, <2>1, Seen
<1>5. CASE ~Exchanging(t)
  <2>1. t \in Alive /\ Alive' = Alive \ {t}
    BY <1>1, <1>3, <1>5 DEF Alive
  <2> QED BY <1>2, <2>1, Seen DEF Rot!Next
<1> QED BY <1>4, <1>5

(* Requests that follow one another, cut off, refused or expired on their  *)
(* way as they may be, rotate tokens as Rotation says: a session is one    *)
(* token at a time (refresh_tokens, change_password).                      *)
THEOREM RefinesRotation == Spec => SerialIsRotation
<1>1. Init => Rot!Init
  <2> SUFFICES ASSUME Init PROVE Rot!Init
    OBVIOUS
  <2>1. Stored = {} /\ Alive = {}
    BY DEF Init, Stored, Alive, Exchanging
  <2>2. {q \in Requests : row[q] # "absent"} = {}
    BY <2>1 DEF Stored
  <2> QED BY <2>1, <2>2 DEF Rot!Init, Alive
<1>4. ASSUME IInv, [Next]_vars, Serial'
      PROVE  [Rot!Next]_(Rot!vars)
  <2>0. Serial
    BY <1>4, SerialBefore DEF IInv, LocalInv
  <2>1. \A p, q \in Requests : InFlight(p) /\ InFlight(q) => p = q
    BY <1>4, <2>0, Alone DEF IInv, LocalInv
  <2>2. ASSUME NEW r \in Requests, ReadUser(r) \/ Interrupt(r)
        PROVE  [Rot!Next]_(Rot!vars)
    <3>1. CASE Go(r, "over")
      BY <1>4, <2>2, <3>1, GivesUp DEF ReadUser, Interrupt, database, locals
    <3>2. CASE ~Go(r, "over")
      <4>1. pc[r] = "user" /\ Go(r, "revoke") /\ UNCHANGED <<row, parent>>
        BY <2>2, <3>2 DEF ReadUser, Interrupt, Finish, database, locals
      <4>2. \A t \in Requests : Exchanging(t)' <=> Exchanging(t)
        BY <1>4, <4>1 DEF Exchanging, Go, IInv, LocalInv, TypeOK
      <4>3. From' = From /\ Alive' = Alive
        BY <4>1, <4>2, SameFrom DEF Alive
      <4> QED BY <4>3, Seen
    <3> QED BY <3>1, <3>2
  <2>3. CASE SetActive \/ UNCHANGED vars
    <3>1. UNCHANGED <<row, pc, parent>>
      BY <2>3 DEF SetActive, vars, database, locals
    <3>2. From' = From /\ Alive' = Alive
      BY <3>1 DEF From, Stored, Alive, Exchanging
    <3> QED BY <3>2, Seen
  <2>4. ASSUME NEW r \in Requests, Create(r) \/ CommitChange(r)
        PROVE  Rot!Next
    BY <1>4, <2>0, <2>1, <2>4, CreateRotates, ChangeEndsAll
  <2> QED BY <1>4, <2>2, <2>3, <2>4, Unseen, ExpiryLoses DEF Next
<1>5. IInv /\ [Next]_vars => [Serial' => [Rot!Next]_(Rot!vars)]_vars
  BY <1>4
<1> QED BY <1>1, <1>5, Invariant, PTL DEF Spec, SerialIsRotation
=============================================================================
