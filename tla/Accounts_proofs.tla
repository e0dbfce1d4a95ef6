---------------------------- MODULE Accounts_proofs ----------------------------
(***************************************************************************)
(* Proofs about accounts, for any number of requests, addresses and Google *)
(* identities.  A request that has looked is right about what it saw until *)
(* another one that is under way at the same time writes.                  *)
(***************************************************************************)
EXTENDS Accounts, TLAPS

Contended(r) == \E q \in Requests : Overlap(q, r)
SignedIn(r) == pc[r] = "tokens" \/ outcome[r] = "tokens"

(* How far a request is, and what became of it, agree; addresses that are  *)
(* written have been folded.                                               *)
PhaseInv ==
    \A r \in Requests :
        /\ outcome[r] # "none" <=> pc[r] = "over"
        /\ pc[r] = "new" => during[r] = {} /\ target[r] = NoRequest
        /\ r \in accounts => pc[r] \in {"tokens", "over"}
        /\ SignedIn(r) => target[r] # NoRequest
        /\ pc[r] \in {"email", "link", "create", "tokens"} \/ outcome[r] = "tokens"
             => identity[r] # NoSubject

FoldedInv ==
    \A r \in Requests :
        /\ r \in accounts \/ pc[r] = "inserted" => Lower(email[r]) = email[r]
        /\ pc[r] = "update" => Lower(asked[r]) = asked[r]

(* Requests under way at one time overlap.                                 *)
FlightInv == \A q, r \in Requests : q # r /\ InFlight(q) /\ InFlight(r) => Overlap(q, r)

(* The unique constraints, rows that are not committed yet included.       *)
Written(r) == r \in accounts \/ pc[r] = "inserted"

KeysInv ==
    /\ \A a, b \in Requests : a # b /\ Written(a) /\ Written(b) => email[a] # email[b]
    /\ \A a, b \in accounts : a # b /\ subject[a] = subject[b] => subject[a] = NoSubject
    /\ \A r \in Requests \ accounts : subject[r] = NoSubject

(* What a request found when it looked is so until another one writes.     *)
NoAddress(r) == \A a \in accounts \ {target[r]} : ~HasEmail(a, asked[r])
NoIdentity(r) == \A a \in accounts : subject[a] # identity[r]

Found(r) ==
    /\ pc[r] \in {"insert", "create", "update"} => Contended(r) \/ NoAddress(r)
    /\ pc[r] \in {"email", "link", "create"} => Contended(r) \/ NoIdentity(r)
    /\ pc[r] = "accept" => Contended(r) \/ target[r] \notin accepted
    /\ pc[r] \in {"insert", "email", "create"} => target[r] = NoRequest
    /\ outcome[r] \in Errors => Contended(r)

FoundInv == \A r \in Requests : Found(r)

(* Who signed in to an account did so by the identity linked to it, or by  *)
(* one that was replaced by a request that did not know of it.             *)
LinkInv ==
    /\ \A r \in Requests :
         SignedIn(r) => /\ subject[target[r]] # NoSubject
                        /\ \/ subject[target[r]] = identity[r]
                           \/ \E q \in Requests : /\ target[q] = target[r]
                                                  /\ identity[q] = subject[target[r]]
                                                  /\ Overlap(q, r)
    /\ \A q, r \in Requests :
         pc[q] = "link" /\ SignedIn(r) /\ target[q] = target[r] => Overlap(q, r)

-----------------------------------------------------------------------------
(* Types *)

(* Folding an address twice is folding it once.                            *)
LEMMA Folding ==
    ASSUME NEW e \in Addresses
    PROVE  Lower(e) \in Addresses /\ Lower(Lower(e)) = Lower(e)
BY DEF Addresses, Lower

(* The initial state is well-typed.                                        *)
LEMMA InitType == Init => TypeOK
<1> SUFFICES ASSUME Init
             PROVE  TypeOK
  OBVIOUS
<1>1. PICK n \in Names : n = CHOOSE m \in Names : TRUE
  BY NamesAssumption
<1>2. email = [r \in Requests |-> [name |-> n, capital |-> FALSE]]
  BY <1>1 DEF Init
<1>3. email \in [Requests -> Addresses] /\ asked = email
  BY <1>2 DEF Init, Addresses
<1> QED BY <1>3 DEF Init, TypeOK, Steps, Outcomes

(* A request goes on to a step, or ends in an outcome.                     *)
LEMMA Going ==
    ASSUME TypeOK, NEW r \in Requests, NEW step \in Steps, Go(r, step)
    PROVE  /\ pc' \in [Requests -> Steps] /\ pc'[r] = step
           /\ \A q \in Requests \ {r} : pc'[q] = pc[q]
BY DEF TypeOK, Go

LEMMA Finishing ==
    ASSUME TypeOK, NEW r \in Requests, NEW what \in Outcomes, Finish(r, what)
    PROVE  /\ pc' \in [Requests -> Steps] /\ pc'[r] = "over"
           /\ outcome' \in [Requests -> Outcomes] /\ outcome'[r] = what
           /\ \A q \in Requests \ {r} : pc'[q] = pc[q] /\ outcome'[q] = outcome[q]
<1>1. "over" \in Steps
  BY DEF Steps
<1> QED BY <1>1, Going DEF Finish, TypeOK

(* Every step keeps the types.                                             *)
LEMMA NextType ==
    ASSUME TypeOK, [Next]_vars
    PROVE  TypeOK'
<1> USE NoRequestAssumption, NoSubjectAssumption DEF database, locals
<1>0. /\ {"new", "insert", "inserted", "email", "link", "create", "tokens",
          "update", "accept", "over"} = Steps
      /\ {"email", "subject", "acceptance", "registered", "tokens", "updated", "accepted",
          "refused", "interrupted"} \subseteq Outcomes
  BY DEF Steps, Outcomes, Errors
<1>1. ASSUME NEW r \in Requests, NEW what \in Outcomes, Finish(r, what),
             UNCHANGED <<database, locals>>
      PROVE  TypeOK'
  <2>1. /\ pc' \in [Requests -> Steps] /\ pc'[r] = "over"
        /\ outcome' \in [Requests -> Outcomes]
        /\ \A q \in Requests \ {r} : pc'[q] = pc[q]
    BY <1>1, Finishing
  <2> QED BY <1>1, <2>1 DEF TypeOK
<1>2. ASSUME NEW r \in Requests, NEW e \in Addresses, RegisterCheck(r, e)
      PROVE  TypeOK'
  <2>1. Go(r, "insert")
    BY <1>2 DEF RegisterCheck
  <2>2. /\ pc' \in [Requests -> Steps] /\ pc'[r] = "insert"
        /\ \A q \in Requests \ {r} : pc'[q] = pc[q]
    BY <1>0, <2>1, Going
  <2>3. asked' \in [Requests -> Addresses] /\ during' \in [Requests -> SUBSET Requests]
    BY <1>2 DEF TypeOK, RegisterCheck, Observe
  <2>4. UNCHANGED <<database, identity, target, outcome>>
    BY <1>2 DEF RegisterCheck
  <2>5. \A q \in Requests :
          pc'[q] \in {"link", "tokens", "update", "accept"} => target'[q] # NoRequest
    BY <2>2, <2>4 DEF TypeOK
  <2> QED BY <2>2, <2>3, <2>4, <2>5 DEF TypeOK
<1>3. ASSUME NEW r \in Requests, RegisterInsert(r)
      PROVE  TypeOK'
  <2>1. Finish(r, "email") \/ (Go(r, "inserted") /\ UNCHANGED outcome)
    <3>1. CASE Taken(Lower(asked[r]))
      BY <1>3, <3>1 DEF RegisterInsert
    <3>2. CASE ~Taken(Lower(asked[r]))
      BY <1>3, <3>2 DEF RegisterInsert
    <3> QED BY <3>1, <3>2
  <2>2. /\ pc' \in [Requests -> Steps] /\ pc'[r] \in {"over", "inserted"}
        /\ outcome' \in [Requests -> Outcomes]
        /\ \A q \in Requests \ {r} : pc'[q] = pc[q]
    BY <1>0, <2>1, Going, Finishing DEF TypeOK
  <2>3. Lower(asked[r]) \in Addresses
    BY Folding DEF TypeOK
  <2>4. email' \in [Requests -> Addresses]
    BY <1>3, <2>3 DEF TypeOK, RegisterInsert
  <2> QED BY <1>3, <2>2, <2>4 DEF TypeOK, RegisterInsert
<1>4. ASSUME NEW r \in Requests, RegisterCommit(r)
      PROVE  TypeOK'
  <2>1. Finish(r, "registered")
    BY <1>4 DEF RegisterCommit
  <2>2. /\ pc' \in [Requests -> Steps] /\ pc'[r] = "over"
        /\ outcome' \in [Requests -> Outcomes]
        /\ \A q \in Requests \ {r} : pc'[q] = pc[q]
    BY <1>0, <2>1, Finishing
  <2> QED BY <1>4, <2>2 DEF TypeOK, RegisterCommit
<1>5. ASSUME NEW r \in Requests, NEW g \in Subjects, NEW e \in Addresses,
             GoogleFindSubject(r, g, e)
      PROVE  TypeOK'
  <2>1. \E step \in {"tokens", "email"} : Go(r, step)
    BY <1>5 DEF GoogleFindSubject
  <2>2. /\ pc' \in [Requests -> Steps] /\ pc'[r] \in {"tokens", "email"}
        /\ \A q \in Requests \ {r} : pc'[q] = pc[q]
    BY <1>0, <2>1, Going
  <2>3. /\ target' \in [Requests -> accounts \cup {NoRequest}]
        /\ pc'[r] = "tokens" => target'[r] # NoRequest
        /\ \A q \in Requests \ {r} : target'[q] = target[q]
    BY <1>5 DEF TypeOK, GoogleFindSubject, Go
  <2> QED BY <1>5, <2>2, <2>3 DEF TypeOK, GoogleFindSubject, Observe
<1>6. ASSUME NEW r \in Requests, GoogleFindEmail(r)
      PROVE  TypeOK'
  <2>1. \/ (\E step \in {"link", "tokens", "create"} : Go(r, step)) /\ UNCHANGED outcome
        \/ Finish(r, "refused")
    BY <1>6 DEF GoogleFindEmail
  <2>2. /\ pc' \in [Requests -> Steps] /\ outcome' \in [Requests -> Outcomes]
        /\ \A q \in Requests \ {r} : pc'[q] = pc[q]
    BY <1>0, <2>1, Going, Finishing DEF TypeOK
  <2>3. /\ target' \in [Requests -> accounts \cup {NoRequest}]
        /\ pc'[r] \in {"link", "tokens", "update", "accept"} => target'[r] # NoRequest
        /\ \A q \in Requests \ {r} : target'[q] = target[q]
    BY <1>6 DEF TypeOK, GoogleFindEmail, Finish, Go
  <2>4. UNCHANGED <<database, asked, identity, during>>
    BY <1>6 DEF GoogleFindEmail
  <2>5. \A q \in Requests :
          pc'[q] \in {"link", "tokens", "update", "accept"} => target'[q] # NoRequest
    BY <2>2, <2>3 DEF TypeOK
  <2> QED BY <2>2, <2>3, <2>4, <2>5 DEF TypeOK
<1>7. ASSUME NEW r \in Requests, GoogleLink(r)
      PROVE  TypeOK'
  <2>1. Finish(r, "subject") \/ (Go(r, "tokens") /\ UNCHANGED outcome)
    <3>1. CASE \E a \in accounts \ {target[r]} : subject[a] = identity[r]
      BY <1>7, <3>1 DEF GoogleLink
    <3>2. CASE ~ \E a \in accounts \ {target[r]} : subject[a] = identity[r]
      BY <1>7, <3>2 DEF GoogleLink
    <3> QED BY <3>1, <3>2
  <2>2. /\ pc' \in [Requests -> Steps] /\ pc'[r] \in {"over", "tokens"}
        /\ outcome' \in [Requests -> Outcomes]
        /\ \A q \in Requests \ {r} : pc'[q] = pc[q]
    BY <1>0, <2>1, Going, Finishing DEF TypeOK
  <2>3. subject' \in [Requests -> Subjects \cup {NoSubject}]
    BY <1>7 DEF TypeOK, GoogleLink
  <2>4. target[r] # NoRequest
    BY <1>7 DEF TypeOK, GoogleLink
  <2> QED BY <1>7, <2>2, <2>3, <2>4 DEF TypeOK, GoogleLink
<1>8. ASSUME NEW r \in Requests, GoogleCreate(r)
      PROVE  TypeOK'
  <2>1. CASE Taken(GoogleEmail(r)) \/ \E a \in accounts : subject[a] = identity[r]
    <3>1. /\ \E what \in {"email", "subject"} : Finish(r, what)
          /\ UNCHANGED <<database, locals>>
      BY <1>8, <2>1 DEF GoogleCreate
    <3> QED BY <1>0, <1>1, <3>1
  <2>2. CASE ~(Taken(GoogleEmail(r)) \/ \E a \in accounts : subject[a] = identity[r])
    <3>1. Go(r, "tokens") /\ UNCHANGED outcome
      BY <1>8, <2>2 DEF GoogleCreate
    <3>2. /\ pc' \in [Requests -> Steps] /\ pc'[r] = "tokens"
          /\ \A q \in Requests \ {r} : pc'[q] = pc[q]
      BY <1>0, <3>1, Going
    <3>3. GoogleEmail(r) \in Addresses
      BY Folding DEF TypeOK, GoogleEmail
    <3>4. /\ accounts' = accounts \cup {r}
          /\ email' = [email EXCEPT ![r] = GoogleEmail(r)]
          /\ subject' = [subject EXCEPT ![r] = identity[r]]
          /\ target' = [target EXCEPT ![r] = r]
          /\ UNCHANGED <<local, accepted, asked, identity, during>>
      BY <1>8, <2>2 DEF GoogleCreate
    <3>5. /\ email' \in [Requests -> Addresses]
          /\ subject' \in [Requests -> Subjects \cup {NoSubject}]
          /\ target' \in [Requests -> accounts' \cup {NoRequest}]
      BY <3>3, <3>4 DEF TypeOK
    <3>6. \A q \in Requests :
            pc'[q] \in {"link", "tokens", "update", "accept"} => target'[q] # NoRequest
      BY <3>2, <3>4 DEF TypeOK
    <3> QED BY <3>1, <3>2, <3>4, <3>5, <3>6 DEF TypeOK
  <2> QED BY <2>1, <2>2
<1>9. ASSUME NEW r \in Requests, NEW a \in Requests, NEW e \in Addresses, UpdateCheck(r, a, e)
      PROVE  TypeOK'
  <2>1. Go(r, "update")
    BY <1>9 DEF UpdateCheck
  <2>2. /\ pc' \in [Requests -> Steps] /\ pc'[r] = "update"
        /\ \A q \in Requests \ {r} : pc'[q] = pc[q]
    BY <1>0, <2>1, Going
  <2>3. Lower(e) \in Addresses
    BY Folding
  <2> QED BY <1>9, <2>2, <2>3 DEF TypeOK, UpdateCheck, Observe
<1>10. ASSUME NEW r \in Requests, UpdateCommit(r)
       PROVE  TypeOK'
  <2>1. /\ \E what \in {"email", "updated"} : Finish(r, what)
        /\ email' = email \/ email' = [email EXCEPT ![target[r]] = asked[r]]
        /\ UNCHANGED <<accounts, subject, local, accepted, locals>>
    BY <1>10 DEF UpdateCommit
  <2>2. /\ pc' \in [Requests -> Steps] /\ pc'[r] = "over"
        /\ outcome' \in [Requests -> Outcomes]
        /\ \A q \in Requests \ {r} : pc'[q] = pc[q]
    BY <1>0, <2>1, Finishing
  <2> QED BY <2>1, <2>2 DEF TypeOK
<1>11. ASSUME NEW r \in Requests, NEW a \in Requests, AcceptCheck(r, a)
       PROVE  TypeOK'
  <2>1. CASE a \in accepted
    BY <1>0, <1>1, <1>11, <2>1 DEF AcceptCheck
  <2>2. CASE a \notin accepted
    <3>1. Go(r, "accept")
      BY <1>11, <2>2 DEF AcceptCheck
    <3>2. /\ pc' \in [Requests -> Steps] /\ pc'[r] = "accept"
          /\ \A q \in Requests \ {r} : pc'[q] = pc[q]
      BY <1>0, <3>1, Going
    <3>3. /\ target' = [target EXCEPT ![r] = a] /\ a \in accounts
          /\ during' \in [Requests -> SUBSET Requests]
          /\ UNCHANGED <<database, asked, identity, outcome>>
      BY <1>11, <2>2 DEF TypeOK, AcceptCheck, Observe
    <3>4. target' \in [Requests -> accounts \cup {NoRequest}]
      BY <3>3 DEF TypeOK
    <3>5. \A q \in Requests :
            pc'[q] \in {"link", "tokens", "update", "accept"} => target'[q] # NoRequest
      BY <3>2, <3>3 DEF TypeOK
    <3> QED BY <3>2, <3>3, <3>4, <3>5 DEF TypeOK
  <2> QED BY <2>1, <2>2
<1>12. ASSUME NEW r \in Requests, AcceptCommit(r)
       PROVE  TypeOK'
  <2>1. \E what \in {"accepted", "acceptance"} : Finish(r, what)
    BY <1>12 DEF AcceptCommit
  <2>2. /\ pc' \in [Requests -> Steps] /\ pc'[r] = "over"
        /\ outcome' \in [Requests -> Outcomes]
        /\ \A q \in Requests \ {r} : pc'[q] = pc[q]
    BY <1>0, <2>1, Finishing
  <2>3. target[r] \in accounts
    BY <1>12 DEF TypeOK, AcceptCommit
  <2> QED BY <1>12, <2>2, <2>3 DEF TypeOK, AcceptCommit
<1>13. ASSUME NEW r \in Requests,
              \/ GoogleUnverified(r) \/ GoogleTokens(r) \/ Interrupt(r)
              \/ \E e \in Addresses : RegisterRefused(r, e)
              \/ \E a \in Requests, e \in Addresses : UpdateRefused(r, a, e)
       PROVE  TypeOK'
  <2>1. /\ \E what \in {"tokens", "refused", "interrupted"} : Finish(r, what)
        /\ UNCHANGED <<database, locals>>
    BY <1>13 DEF GoogleUnverified, GoogleTokens, Interrupt, RegisterRefused, UpdateRefused
  <2> QED BY <1>0, <1>1, <2>1
<1>14. CASE UNCHANGED vars
  BY <1>14 DEF TypeOK, vars
<1> QED BY <1>2, <1>3, <1>4, <1>5, <1>6, <1>7, <1>8, <1>9, <1>10, <1>11, <1>12, <1>13, <1>14
        DEF Next, Act

(* Every variable of the accounts keeps its type: a request writes only to *)
(* an account that was committed, and what belongs to an account is stored *)
(* with it.                                                                *)
THEOREM TypeCorrect == Spec => []TypeOK
BY InitType, NextType, PTL DEF Spec

-----------------------------------------------------------------------------
(* Phases and overlap *)

(* There is no account at the start, and nobody asks for one.              *)
LEMMA InitPhase ==
    Init => PhaseInv /\ FoldedInv /\ FlightInv /\ KeysInv /\ FoundInv /\ LinkInv
<1>1. Init => \A r \in Requests : pc[r] = "new" /\ outcome[r] = "none" /\ during[r] = {}
                                 /\ target[r] = NoRequest /\ r \notin accounts
  BY DEF Init
<1>2. Init => accounts = {}
  BY DEF Init
<1>3. Init => \A r \in Requests : subject[r] = NoSubject
  BY DEF Init
<1> QED BY <1>1, <1>2, <1>3 DEF PhaseInv, FoldedInv, FlightInv, KeysInv, FoundInv, Found, LinkInv,
           SignedIn, InFlight, Written, Errors

(* Every step keeps the agreement of the phases.                           *)
LEMMA NextPhase ==
    ASSUME TypeOK, PhaseInv, [Next]_vars
    PROVE  PhaseInv'
<1> USE NoRequestAssumption, NoSubjectAssumption
    DEF TypeOK, PhaseInv, SignedIn, database, locals
<1>1. ASSUME NEW r \in Requests, NEW e \in Addresses, RegisterCheck(r, e) \/ RegisterRefused(r, e)
      PROVE  PhaseInv'
  BY <1>1 DEF RegisterCheck, RegisterRefused, Observe, Finish, Go
<1>2. ASSUME NEW r \in Requests, RegisterInsert(r) \/ RegisterCommit(r)
      PROVE  PhaseInv'
  BY <1>2 DEF RegisterInsert, RegisterCommit, Finish, Go
<1>3. ASSUME NEW r \in Requests, NEW g \in Subjects, NEW e \in Addresses,
             GoogleFindSubject(r, g, e)
      PROVE  PhaseInv'
  BY <1>3 DEF GoogleFindSubject, Observe, Go
<1>4. ASSUME NEW r \in Requests, GoogleFindEmail(r)
      PROVE  PhaseInv'
  BY <1>4 DEF GoogleFindEmail, Finish, Go
<1>5. ASSUME NEW r \in Requests, GoogleLink(r)
      PROVE  PhaseInv'
  BY <1>5 DEF GoogleLink, Finish, Go
<1>6. ASSUME NEW r \in Requests, GoogleCreate(r)
      PROVE  PhaseInv'
  BY <1>6 DEF GoogleCreate, Finish, Go
<1>7. ASSUME NEW r \in Requests, NEW a \in Requests, NEW e \in Addresses,
             UpdateCheck(r, a, e) \/ UpdateRefused(r, a, e) \/ AcceptCheck(r, a)
      PROVE  PhaseInv'
  BY <1>7 DEF UpdateCheck, UpdateRefused, AcceptCheck, Observe, Finish, Go
<1>8. ASSUME NEW r \in Requests, UpdateCommit(r) \/ AcceptCommit(r)
      PROVE  PhaseInv'
  BY <1>8 DEF UpdateCommit, AcceptCommit, Finish, Go
<1>9. ASSUME NEW r \in Requests, GoogleUnverified(r) \/ GoogleTokens(r) \/ Interrupt(r)
      PROVE  PhaseInv'
  BY <1>9 DEF GoogleUnverified, GoogleTokens, Interrupt, InFlight, Finish, Go
<1>10. CASE UNCHANGED vars
  BY <1>10 DEF vars
<1> QED BY <1>1, <1>2, <1>3, <1>4, <1>5, <1>6, <1>7, <1>8, <1>9, <1>10 DEF Next, Act

(* What a step does to the requests: one of them moves.  It looks around   *)
(* as it leaves "new", without writing, and keeps then what it was asked.  *)
LEMMA Moves ==
    ASSUME TypeOK, PhaseInv, NEW r \in Requests, Act(r)
    PROVE  /\ pc[r] # "over"
           /\ \A q \in Requests \ {r} :
                /\ pc'[q] = pc[q] /\ during'[q] = during[q] /\ outcome'[q] = outcome[q]
                /\ asked'[q] = asked[q] /\ identity'[q] = identity[q] /\ target'[q] = target[q]
           /\ \/ pc[r] # "new" /\ UNCHANGED <<during, asked, identity>>
              \/ /\ pc[r] = "new" /\ UNCHANGED database
                 /\ during'[r] = {q \in Requests \ {r} : InFlight(q)}
              \/ pc[r] = "new" /\ pc'[r] = "over" /\ UNCHANGED <<database, locals>>
<1> USE DEF TypeOK, PhaseInv, database, locals
<1>1. ASSUME \/ \E e \in Addresses : RegisterRefused(r, e)
             \/ \E a \in Requests, e \in Addresses : UpdateRefused(r, a, e)
             \/ GoogleUnverified(r)
      PROVE  /\ pc[r] = "new" /\ pc'[r] = "over" /\ UNCHANGED <<database, locals>>
             /\ \A q \in Requests \ {r} : pc'[q] = pc[q] /\ outcome'[q] = outcome[q]
  BY <1>1 DEF RegisterRefused, UpdateRefused, GoogleUnverified, Finish, Go
<1>2. ASSUME NEW e \in Addresses, RegisterCheck(r, e)
      PROVE  /\ pc[r] = "new" /\ UNCHANGED <<database, identity, target, outcome>>
             /\ during'[r] = {q \in Requests \ {r} : InFlight(q)}
             /\ \A q \in Requests \ {r} :
                  pc'[q] = pc[q] /\ during'[q] = during[q] /\ asked'[q] = asked[q]
  BY <1>2 DEF RegisterCheck, Observe, Go
<1>3. ASSUME NEW g \in Subjects, NEW e \in Addresses,
             GoogleFindSubject(r, g, e)
      PROVE  /\ pc[r] = "new" /\ UNCHANGED <<database, outcome>>
             /\ during'[r] = {q \in Requests \ {r} : InFlight(q)}
             /\ \A q \in Requests \ {r} :
                  /\ pc'[q] = pc[q] /\ during'[q] = during[q] /\ asked'[q] = asked[q]
                  /\ identity'[q] = identity[q] /\ target'[q] = target[q]
  BY <1>3 DEF GoogleFindSubject, Observe, Go
<1>4. ASSUME NEW a \in Requests, NEW e \in Addresses, UpdateCheck(r, a, e)
      PROVE  /\ pc[r] = "new" /\ UNCHANGED <<database, identity, outcome>>
             /\ during'[r] = {q \in Requests \ {r} : InFlight(q)}
             /\ \A q \in Requests \ {r} :
                  /\ pc'[q] = pc[q] /\ during'[q] = during[q] /\ asked'[q] = asked[q]
                  /\ target'[q] = target[q]
  BY <1>4 DEF UpdateCheck, Observe, Go
<1>5. ASSUME NEW a \in Requests, AcceptCheck(r, a)
      PROVE  /\ pc[r] = "new" /\ UNCHANGED <<database, asked, identity>>
             /\ \/ during'[r] = {q \in Requests \ {r} : InFlight(q)}
                \/ pc'[r] = "over" /\ UNCHANGED <<database, locals>>
             /\ \A q \in Requests \ {r} :
                  /\ pc'[q] = pc[q] /\ during'[q] = during[q] /\ outcome'[q] = outcome[q]
                  /\ target'[q] = target[q]
  BY <1>5 DEF AcceptCheck, Observe, Finish, Go
<1>6. ASSUME \/ RegisterInsert(r) \/ RegisterCommit(r) \/ GoogleLink(r) \/ GoogleTokens(r)
             \/ UpdateCommit(r) \/ AcceptCommit(r) \/ Interrupt(r)
      PROVE  /\ pc[r] \notin {"new", "over"} /\ UNCHANGED locals
             /\ \A q \in Requests \ {r} : pc'[q] = pc[q] /\ outcome'[q] = outcome[q]
  BY <1>6 DEF RegisterInsert, RegisterCommit, GoogleLink, GoogleTokens, UpdateCommit,
              AcceptCommit, Interrupt, InFlight, Finish, Go
<1>7. ASSUME GoogleFindEmail(r) \/ GoogleCreate(r)
      PROVE  /\ pc[r] \notin {"new", "over"} /\ UNCHANGED <<during, asked, identity>>
             /\ \A q \in Requests \ {r} :
                  pc'[q] = pc[q] /\ outcome'[q] = outcome[q] /\ target'[q] = target[q]
  BY <1>7 DEF GoogleFindEmail, GoogleCreate, Finish, Go
<1> HIDE DEF TypeOK, PhaseInv
<1> QED BY <1>1, <1>2, <1>3, <1>4, <1>5, <1>6, <1>7 DEF Act

(* Overlap is for ever; requests under way at one time overlap; and who    *)
(* writes is under way, so that everybody else who is overlaps with it.    *)
LEMMA NextFlight ==
    ASSUME TypeOK, PhaseInv, FlightInv, [Next]_vars
    PROVE  /\ FlightInv'
           /\ \A q, r \in Requests : Overlap(q, r) => Overlap(q, r)'
           /\ \A r \in Requests : Contended(r) => Contended(r)'
<1>1. CASE UNCHANGED vars
  BY <1>1 DEF FlightInv, InFlight, Overlap, Contended, vars, locals
<1>2. ASSUME NEW r \in Requests, pc[r] # "over",
             \A q \in Requests \ {r} : pc'[q] = pc[q] /\ during'[q] = during[q],
             \/ pc[r] # "new" /\ during' = during
             \/ pc[r] = "new" /\ during'[r] = {q \in Requests \ {r} : InFlight(q)}
             \/ pc[r] = "new" /\ pc'[r] = "over" /\ during' = during
      PROVE  /\ FlightInv'
             /\ \A p, q \in Requests : Overlap(p, q) => Overlap(p, q)'
  BY <1>2 DEF FlightInv, PhaseInv, InFlight, Overlap
<1>3. /\ FlightInv'
      /\ \A p, q \in Requests : Overlap(p, q) => Overlap(p, q)'
  BY <1>1, <1>2, Moves DEF Next, locals
<1> QED BY <1>3 DEF Contended

(* Addresses are folded before they are written.                           *)
LEMMA NextFolded ==
    ASSUME TypeOK, PhaseInv, FoldedInv, [Next]_vars
    PROVE  FoldedInv'
<1> USE DEF database, locals
<1>0. \A r \in Requests : /\ asked[r] \in Addresses /\ GoogleEmail(r) = Lower(asked[r])
                          /\ r \in accounts => pc[r] \in {"tokens", "over"}
  BY DEF TypeOK, PhaseInv, GoogleEmail
<1>1. ASSUME email' = email, accounts' = accounts,
             \A r \in Requests : /\ pc'[r] = "inserted" => pc[r] = "inserted"
                                 /\ pc'[r] = "update" => pc[r] = "update" /\ asked'[r] = asked[r]
      PROVE  FoldedInv'
  BY <1>1 DEF FoldedInv
<1>2. ASSUME NEW r \in Requests, RegisterInsert(r)
      PROVE  FoldedInv'
  <2>1. /\ accounts' = accounts /\ asked' = asked /\ pc'[r] \in {"over", "inserted"}
        /\ \A q \in Requests \ {r} : pc'[q] = pc[q] /\ email'[q] = email[q]
        /\ email'[r] = Lower(asked[r]) \/ (email'[r] = email[r] /\ pc'[r] = "over")
        /\ pc[r] = "insert"
    BY <1>2 DEF RegisterInsert, Finish, Go, TypeOK
  <2> QED BY <1>0, <2>1, Folding DEF FoldedInv
<1>3. ASSUME NEW r \in Requests, RegisterCommit(r)
      PROVE  FoldedInv'
  BY <1>3 DEF RegisterCommit, Finish, Go, TypeOK, FoldedInv
<1>4. ASSUME NEW r \in Requests, GoogleCreate(r)
      PROVE  FoldedInv'
  <2>1. /\ asked' = asked /\ pc'[r] \in {"over", "tokens"}
        /\ \A q \in Requests \ {r} : pc'[q] = pc[q] /\ email'[q] = email[q]
        /\ \/ accounts' = accounts \cup {r} /\ email'[r] = Lower(asked[r])
           \/ accounts' = accounts /\ email' = email
    BY <1>0, <1>4 DEF GoogleCreate, Finish, Go, TypeOK
  <2> QED BY <1>0, <2>1, Folding DEF FoldedInv
<1>5. ASSUME NEW r \in Requests, NEW a \in Requests, NEW e \in Addresses, UpdateCheck(r, a, e)
      PROVE  FoldedInv'
  <2>1. /\ email' = email /\ accounts' = accounts /\ pc'[r] = "update" /\ asked'[r] = Lower(e)
        /\ \A q \in Requests \ {r} : pc'[q] = pc[q] /\ asked'[q] = asked[q]
    BY <1>5 DEF UpdateCheck, Go, TypeOK
  <2>2. pc[r] = "new"
    BY <1>5 DEF UpdateCheck
  <2> QED BY <1>0, <2>1, <2>2, Folding DEF FoldedInv
<1>6. ASSUME NEW r \in Requests, UpdateCommit(r)
      PROVE  FoldedInv'
  <2>1. /\ accounts' = accounts /\ asked' = asked /\ pc[r] = "update" /\ pc'[r] = "over"
        /\ email' = email \/ email' = [email EXCEPT ![target[r]] = asked[r]]
        /\ \A q \in Requests \ {r} : pc'[q] = pc[q]
    BY <1>6 DEF UpdateCommit, Finish, Go, TypeOK
  <2>2. \A q \in Requests : email'[q] \in {email[q], asked[r]}
                            /\ (email'[q] # email[q] => q = target[r])
    BY <2>1 DEF TypeOK
  <2>3. Lower(asked[r]) = asked[r] /\ target[r] \in accounts
    BY <2>1, NoRequestAssumption DEF FoldedInv, TypeOK
  <2> QED BY <1>0, <2>1, <2>2, <2>3 DEF FoldedInv
<1>7. ASSUME NEW r \in Requests,
             \/ \E e \in Addresses : RegisterCheck(r, e) \/ RegisterRefused(r, e)
             \/ \E g \in Subjects, e \in Addresses : GoogleFindSubject(r, g, e)
             \/ GoogleUnverified(r) \/ GoogleFindEmail(r) \/ GoogleLink(r) \/ GoogleTokens(r)
             \/ \E a \in Requests, e \in Addresses : UpdateRefused(r, a, e)
             \/ \E a \in Requests : AcceptCheck(r, a)
             \/ AcceptCommit(r) \/ Interrupt(r)
      PROVE  FoldedInv'
  <2>1. email' = email /\ accounts' = accounts
    BY <1>7 DEF RegisterCheck, RegisterRefused, GoogleFindSubject, GoogleUnverified,
                GoogleFindEmail, GoogleLink, GoogleTokens, UpdateRefused, AcceptCheck,
                AcceptCommit, Interrupt
  <2>2. pc'[r] # "inserted" /\ pc'[r] # "update"
    BY <1>7 DEF RegisterCheck, RegisterRefused, GoogleFindSubject, GoogleUnverified,
                GoogleFindEmail, GoogleLink, GoogleTokens, UpdateRefused, AcceptCheck,
                AcceptCommit, Interrupt, Finish, Go, TypeOK
  <2>3. \A q \in Requests \ {r} : pc'[q] = pc[q]
    BY <1>7 DEF RegisterCheck, RegisterRefused, GoogleFindSubject, GoogleUnverified,
                GoogleFindEmail, GoogleLink, GoogleTokens, UpdateRefused, AcceptCheck,
                AcceptCommit, Interrupt, Finish, Go, TypeOK
  <2>4. \A q \in Requests \ {r} : asked'[q] = asked[q]
    BY <1>7 DEF RegisterCheck, RegisterRefused, GoogleFindSubject, GoogleUnverified,
                GoogleFindEmail, GoogleLink, GoogleTokens, UpdateRefused, AcceptCheck,
                AcceptCommit, Interrupt, TypeOK
  <2> QED BY <1>1, <2>1, <2>2, <2>3, <2>4
<1>8. CASE UNCHANGED vars
  BY <1>1, <1>8 DEF vars
<1> QED BY <1>2, <1>3, <1>4, <1>5, <1>6, <1>7, <1>8 DEF Next, Act

-----------------------------------------------------------------------------
(* The unique constraints *)

(* No two rows, committed or not, have an address in common, and no two    *)
(* accounts a Google identity.                                             *)
LEMMA NextKeys ==
    ASSUME TypeOK, PhaseInv, KeysInv, [Next]_vars
    PROVE  KeysInv'
<1> USE NoRequestAssumption, NoSubjectAssumption DEF database, locals
<1>0. \A r \in Requests : r \in accounts => pc[r] \in {"tokens", "over"}
  BY DEF PhaseInv
<1>1. ASSUME email' = email, accounts' = accounts, subject' = subject,
             \A r \in Requests : pc'[r] = "inserted" => pc[r] = "inserted"
      PROVE  KeysInv'
  BY <1>1 DEF KeysInv, Written
<1>2. ASSUME NEW r \in Requests, RegisterInsert(r)
      PROVE  KeysInv'
  <2>1. /\ accounts' = accounts /\ subject' = subject /\ pc[r] = "insert"
        /\ \A q \in Requests \ {r} : pc'[q] = pc[q] /\ email'[q] = email[q]
        /\ \/ pc'[r] = "over"
           \/ /\ email'[r] = Lower(asked[r])
              /\ ~Taken(Lower(asked[r])) /\ ~Pending(Lower(asked[r]))
    BY <1>2 DEF RegisterInsert, Finish, Go, TypeOK
  <2>2. \A q \in Requests \ {r} : Written(q)' <=> Written(q)
    BY <2>1 DEF Written
  <2>3. pc'[r] = "over" => ~Written(r)'
    BY <1>0, <2>1 DEF Written
  <2>4. pc'[r] # "over" => \A q \in Requests \ {r} : Written(q) => email[q] # email'[r]
    BY <2>1 DEF Written, Taken, Pending
  <2>5. \A a, b \in Requests : a # b /\ Written(a)' /\ Written(b)' => email'[a] # email'[b]
    BY <2>1, <2>2, <2>3, <2>4 DEF KeysInv
  <2> QED BY <2>1, <2>5 DEF KeysInv
<1>3. ASSUME NEW r \in Requests, RegisterCommit(r)
      PROVE  KeysInv'
  <2>1. /\ accounts' = accounts \cup {r} /\ subject' = subject /\ email' = email
        /\ pc[r] = "inserted" /\ r \notin accounts
        /\ \A q \in Requests \ {r} : pc'[q] = pc[q]
    BY <1>0, <1>3 DEF RegisterCommit, Finish, Go, TypeOK
  <2>2. \A q \in Requests : Written(q)' => Written(q)
    BY <2>1 DEF Written
  <2>3. \A a, b \in Requests : a # b /\ Written(a)' /\ Written(b)' => email'[a] # email'[b]
    BY <2>1, <2>2 DEF KeysInv
  <2> QED BY <2>1, <2>3 DEF KeysInv, TypeOK
<1>4. ASSUME NEW r \in Requests, GoogleLink(r)
      PROVE  KeysInv'
  <2>1. /\ accounts' = accounts /\ email' = email /\ target[r] \in accounts
        /\ \A q \in Requests : pc'[q] = "inserted" => pc[q] = "inserted"
        /\ \A a \in Requests \ {target[r]} : subject'[a] = subject[a]
        /\ \/ subject' = subject
           \/ \A a \in accounts \ {target[r]} : subject[a] # subject'[target[r]]
    BY <1>4 DEF GoogleLink, Finish, Go, TypeOK
  <2>2. \A a, b \in Requests : a # b /\ Written(a)' /\ Written(b)' => email'[a] # email'[b]
    BY <2>1 DEF KeysInv, Written
  <2>3. \A a, b \in accounts' : a # b /\ subject'[a] = subject'[b] => subject'[a] = NoSubject
    BY <2>1 DEF KeysInv, TypeOK
  <2> QED BY <2>1, <2>2, <2>3 DEF KeysInv
<1>5. ASSUME NEW r \in Requests, GoogleCreate(r)
      PROVE  KeysInv'
  <2>1. /\ pc[r] = "create" /\ r \notin accounts
        /\ \A q \in Requests \ {r} : pc'[q] = pc[q]
        /\ pc'[r] \in {"over", "tokens"}
    BY <1>0, <1>5 DEF GoogleCreate, Finish, Go, TypeOK
  <2>2. CASE UNCHANGED <<accounts, email, subject>>
    BY <1>1, <2>1, <2>2
  <2>3. CASE ~UNCHANGED <<accounts, email, subject>>
    <3>1. /\ accounts' = accounts \cup {r}
          /\ email' = [email EXCEPT ![r] = GoogleEmail(r)]
          /\ subject' = [subject EXCEPT ![r] = identity[r]]
          /\ ~Pending(GoogleEmail(r)) /\ ~Taken(GoogleEmail(r))
          /\ \A a \in accounts : subject[a] # identity[r]
      BY <1>5, <2>3 DEF GoogleCreate
    <3>2. /\ email'[r] = GoogleEmail(r) /\ subject'[r] = identity[r]
          /\ \A q \in Requests \ {r} : email'[q] = email[q] /\ subject'[q] = subject[q]
      BY <3>1 DEF TypeOK
    <3>3. \A q \in Requests \ {r} : Written(q)' <=> Written(q)
      BY <2>1, <3>1 DEF Written
    <3>4. \A q \in Requests \ {r} : Written(q) => email[q] # email'[r]
      BY <3>1, <3>2 DEF Written, Taken, Pending
    <3>5. \A a, b \in Requests : a # b /\ Written(a)' /\ Written(b)' => email'[a] # email'[b]
      BY <3>2, <3>3, <3>4 DEF KeysInv
    <3>6. \A a, b \in accounts' : a # b /\ subject'[a] = subject'[b] => subject'[a] = NoSubject
      BY <2>1, <3>1, <3>2 DEF KeysInv, TypeOK
    <3> QED BY <3>1, <3>2, <3>5, <3>6 DEF KeysInv
  <2> QED BY <2>2, <2>3
<1>6. ASSUME NEW r \in Requests, UpdateCommit(r)
      PROVE  KeysInv'
  <2>1. /\ accounts' = accounts /\ subject' = subject /\ target[r] \in accounts
        /\ \A q \in Requests : pc'[q] = "inserted" => pc[q] = "inserted"
        /\ \A q \in Requests \ {target[r]} : email'[q] = email[q]
        /\ \/ email' = email
           \/ /\ email'[target[r]] = asked[r] /\ ~Pending(asked[r])
              /\ \A b \in accounts \ {target[r]} : email[b] # asked[r]
    BY <1>6 DEF UpdateCommit, Finish, Go, TypeOK
  <2>2. \A q \in Requests : Written(q)' => Written(q)
    BY <2>1 DEF Written
  <2>3. ASSUME email' # email
        PROVE  \A q \in Requests \ {target[r]} : Written(q) => email[q] # email'[target[r]]
    BY <2>1, <2>3 DEF Written, Pending
  <2>4. \A a, b \in Requests : a # b /\ Written(a)' /\ Written(b)' => email'[a] # email'[b]
    BY <2>1, <2>2, <2>3 DEF KeysInv
  <2> QED BY <2>1, <2>4 DEF KeysInv
<1>7. ASSUME NEW r \in Requests,
             \/ \E e \in Addresses : RegisterCheck(r, e) \/ RegisterRefused(r, e)
             \/ \E g \in Subjects, e \in Addresses : GoogleFindSubject(r, g, e)
             \/ GoogleUnverified(r) \/ GoogleFindEmail(r) \/ GoogleTokens(r)
             \/ \E a \in Requests, e \in Addresses : UpdateCheck(r, a, e) \/ UpdateRefused(r, a, e)
             \/ \E a \in Requests : AcceptCheck(r, a)
             \/ AcceptCommit(r) \/ Interrupt(r)
      PROVE  KeysInv'
  <2>1. email' = email /\ accounts' = accounts /\ subject' = subject
    BY <1>7 DEF RegisterCheck, RegisterRefused, GoogleFindSubject, GoogleUnverified,
                GoogleFindEmail, GoogleTokens, UpdateCheck, UpdateRefused, AcceptCheck,
                AcceptCommit, Interrupt
  <2>2. \A q \in Requests : pc'[q] = "inserted" => pc[q] = "inserted"
    BY <1>7 DEF RegisterCheck, RegisterRefused, GoogleFindSubject, GoogleUnverified,
                GoogleFindEmail, GoogleTokens, UpdateCheck, UpdateRefused, AcceptCheck,
                AcceptCommit, Interrupt, Finish, Go, TypeOK
  <2> QED BY <1>1, <2>1, <2>2
<1>8. CASE UNCHANGED vars
  BY <1>1, <1>8 DEF vars
<1> QED BY <1>2, <1>3, <1>4, <1>5, <1>6, <1>7, <1>8 DEF Next, Act

-----------------------------------------------------------------------------
(* What a request knows *)

(* What a request found is so until somebody it overlaps with writes.      *)
LEMMA NextFound ==
    ASSUME TypeOK, PhaseInv, FoldedInv, FlightInv, FoundInv, [Next]_vars
    PROVE  FoundInv'
<1> USE NoRequestAssumption, NoSubjectAssumption DEF database, locals
<1>0. /\ FlightInv' /\ TypeOK' /\ PhaseInv'
      /\ \A r \in Requests : Contended(r) => Contended(r)'
  BY NextFlight, NextType, NextPhase
<1>1. ASSUME NEW q \in Requests, NEW r \in Requests, q # r, InFlight(q), InFlight(r)
      PROVE  Contended(r)'
  BY <1>0, <1>1 DEF FlightInv, Contended
<1>2. ASSUME NEW q \in Requests, NEW r \in Requests \ {q},
             pc'[r] = pc[r], outcome'[r] = outcome[r], asked'[r] = asked[r],
             identity'[r] = identity[r], target'[r] = target[r],
             InFlight(q) \/ UNCHANGED database
      PROVE  Found(r)'
  <2>1. Found(r)
    BY DEF FoundInv
  <2>2. CASE InFlight(q) /\ InFlight(r)
    BY <1>0, <1>1, <1>2, <2>1, <2>2 DEF Found
  <2>3. CASE ~InFlight(r)
    BY <1>0, <1>2, <2>1, <2>3 DEF Found, InFlight
  <2>4. CASE UNCHANGED database
    BY <1>0, <1>2, <2>1, <2>4 DEF Found, NoAddress, NoIdentity, HasEmail
  <2> QED BY <1>2, <2>2, <2>3, <2>4
<1>3. ASSUME NEW r \in Requests, Found(r)',
             \A q \in Requests \ {r} :
               /\ pc'[q] = pc[q] /\ outcome'[q] = outcome[q] /\ asked'[q] = asked[q]
               /\ identity'[q] = identity[q] /\ target'[q] = target[q],
             InFlight(r) \/ UNCHANGED database
      PROVE  FoundInv'
  BY <1>2, <1>3 DEF FoundInv
<1>4. \A r \in Requests : /\ asked[r] \in Addresses /\ email[r] \in Addresses
                          /\ GoogleEmail(r) = Lower(asked[r])
                          /\ pc[r] = "new" => target[r] = NoRequest
                          /\ pc[r] # "over" => outcome[r] = "none"
      /\ "none" \notin Errors /\ NoRequest \notin accounts
  BY DEF TypeOK, GoogleEmail, PhaseInv, Errors
<1>5. ASSUME NEW r \in Requests, NEW e \in Addresses, RegisterCheck(r, e)
      PROVE  Found(r)'
  <2>1. /\ pc'[r] = "insert" /\ asked'[r] = e /\ target'[r] = NoRequest /\ outcome'[r] = "none"
        /\ UNCHANGED database /\ \A a \in accounts : ~HasEmail(a, e)
    BY <1>4, <1>5 DEF RegisterCheck, Go, TypeOK
  <2> QED BY <1>4, <2>1 DEF Found, NoAddress, HasEmail
<1>6. ASSUME NEW r \in Requests, RegisterInsert(r)
      PROVE  Found(r)'
  <2>1. /\ pc[r] = "insert" /\ target[r] = NoRequest
        /\ pc'[r] \in {"over", "inserted"}
        /\ outcome'[r] \in Errors => Taken(Lower(asked[r]))
    BY <1>4, <1>6 DEF RegisterInsert, Finish, Go, TypeOK, FoundInv, Found
  <2>2. Taken(Lower(asked[r])) => ~NoAddress(r)
    BY <1>4, <2>1, Folding DEF Taken, NoAddress, HasEmail
  <2>3. Contended(r) \/ NoAddress(r)
    BY <2>1 DEF FoundInv, Found
  <2> QED BY <1>0, <2>1, <2>2, <2>3 DEF Found
<1>7. ASSUME NEW r \in Requests, NEW g \in Subjects, NEW e \in Addresses,
             GoogleFindSubject(r, g, e)
      PROVE  Found(r)'
  <2>1. /\ UNCHANGED <<database, outcome>> /\ pc[r] = "new" /\ identity'[r] = g
        /\ \/ pc'[r] = "tokens"
           \/ /\ pc'[r] = "email" /\ target' = target
              /\ \A a \in accounts : subject[a] # g
    BY <1>7 DEF GoogleFindSubject, Go, TypeOK
  <2> QED BY <1>4, <2>1 DEF Found, NoIdentity
<1>8. ASSUME NEW r \in Requests, GoogleFindEmail(r)
      PROVE  Found(r)'
  <2>1. /\ UNCHANGED <<database, asked, identity>> /\ pc[r] = "email" /\ outcome'[r] \notin Errors
        /\ \/ pc'[r] \in {"link", "tokens", "over"}
           \/ /\ pc'[r] = "create" /\ target' = target
              /\ \A a \in accounts : ~HasEmail(a, asked[r])
    BY <1>4, <1>8 DEF GoogleFindEmail, Finish, Go, TypeOK, Errors
  <2>2. target[r] = NoRequest /\ (Contended(r) \/ NoIdentity(r))
    BY <2>1 DEF FoundInv, Found
  <2> QED BY <1>0, <1>4, <2>1, <2>2 DEF Found, NoAddress, NoIdentity, HasEmail
<1>9. ASSUME NEW r \in Requests, GoogleLink(r)
      PROVE  Found(r)'
  <2>1. /\ pc[r] = "link" /\ pc'[r] \in {"over", "tokens"}
        /\ outcome'[r] \in Errors => \E a \in accounts : subject[a] = identity[r]
    BY <1>4, <1>9 DEF GoogleLink, Finish, Go, TypeOK
  <2> QED BY <1>0, <2>1 DEF FoundInv, Found, NoIdentity
<1>10. ASSUME NEW r \in Requests, GoogleCreate(r)
       PROVE  Found(r)'
  <2>1. /\ pc[r] = "create" /\ pc'[r] \in {"over", "tokens"}
        /\ outcome'[r] \in Errors => \/ Taken(Lower(asked[r]))
                                     \/ \E a \in accounts : subject[a] = identity[r]
    <3>1. CASE Taken(GoogleEmail(r)) \/ \E a \in accounts : subject[a] = identity[r]
      BY <1>4, <1>10, <3>1 DEF GoogleCreate, Finish, Go, TypeOK
    <3>2. CASE ~(Taken(GoogleEmail(r)) \/ \E a \in accounts : subject[a] = identity[r])
      BY <1>4, <1>10, <3>2 DEF GoogleCreate, Go, TypeOK
    <3> QED BY <3>1, <3>2
  <2>2. target[r] = NoRequest
    BY <2>1 DEF FoundInv, Found
  <2>3. Taken(Lower(asked[r])) => ~NoAddress(r)
    BY <1>4, <2>2, Folding DEF Taken, NoAddress, HasEmail
  <2>4. outcome'[r] \in Errors => Contended(r)
    BY <2>1, <2>3 DEF FoundInv, Found, NoIdentity
  <2> QED BY <1>0, <2>1, <2>4 DEF Found
<1>11. ASSUME NEW r \in Requests, NEW a \in Requests, NEW e \in Addresses, UpdateCheck(r, a, e)
       PROVE  Found(r)'
  <2>1. /\ pc'[r] = "update" /\ asked'[r] = Lower(e) /\ target'[r] = a /\ outcome'[r] = "none"
        /\ UNCHANGED database /\ \A b \in accounts \ {a} : ~HasEmail(b, e)
    BY <1>4, <1>11 DEF UpdateCheck, Go, TypeOK
  <2> QED BY <1>4, <2>1, Folding DEF Found, NoAddress, HasEmail
<1>12. ASSUME NEW r \in Requests, UpdateCommit(r)
       PROVE  Found(r)'
  <2>1. /\ pc[r] = "update" /\ pc'[r] = "over"
        /\ outcome'[r] \in Errors => \E b \in accounts \ {target[r]} : email[b] = asked[r]
    <3>1. CASE \E b \in accounts \ {target[r]} : email[b] = asked[r]
      BY <1>12, <3>1 DEF UpdateCommit, Finish, Go, TypeOK
    <3>2. CASE ~ \E b \in accounts \ {target[r]} : email[b] = asked[r]
      BY <1>12, <3>2 DEF UpdateCommit, Finish, Go, TypeOK, Errors
    <3> QED BY <3>1, <3>2
  <2>2. Contended(r) \/ NoAddress(r)
    BY <2>1 DEF FoundInv, Found
  <2> QED BY <1>0, <2>1, <2>2 DEF Found, NoAddress, HasEmail
<1>13. ASSUME NEW r \in Requests, NEW a \in Requests, AcceptCheck(r, a)
       PROVE  Found(r)'
  <2>1. /\ UNCHANGED database /\ outcome'[r] \notin Errors
        /\ \/ pc'[r] = "over"
           \/ pc'[r] = "accept" /\ target'[r] = a /\ a \notin accepted
    BY <1>4, <1>13 DEF AcceptCheck, Finish, Go, TypeOK, Errors
  <2> QED BY <2>1 DEF Found
<1>14. ASSUME NEW r \in Requests, AcceptCommit(r)
       PROVE  Found(r)'
  <2>1. /\ pc[r] = "accept" /\ pc'[r] = "over"
        /\ outcome'[r] \in Errors => target[r] \in accepted
    BY <1>14 DEF AcceptCommit, Finish, Go, TypeOK, Errors
  <2> QED BY <1>0, <2>1 DEF FoundInv, Found
<1>15. ASSUME NEW r \in Requests,
              \/ RegisterCommit(r) \/ GoogleUnverified(r) \/ GoogleTokens(r) \/ Interrupt(r)
              \/ \E e \in Addresses : RegisterRefused(r, e)
              \/ \E a \in Requests, e \in Addresses : UpdateRefused(r, a, e)
       PROVE  Found(r)'
  <2>1. pc'[r] = "over" /\ outcome'[r] \notin Errors
    BY <1>15 DEF RegisterCommit, GoogleUnverified, GoogleTokens, Interrupt, RegisterRefused,
                 UpdateRefused, Finish, Go, TypeOK, Errors
  <2> QED BY <2>1 DEF Found
<1>16. CASE UNCHANGED vars
  BY <1>0, <1>16 DEF FoundInv, Found, NoAddress, NoIdentity, HasEmail, vars
<1>17. ASSUME NEW r \in Requests, Act(r)
       PROVE  FoundInv'
  <2>1. Found(r)'
    BY <1>5, <1>6, <1>7, <1>8, <1>9, <1>10, <1>11, <1>12, <1>13, <1>14, <1>15, <1>17 DEF Act
  <2> QED BY <1>3, <1>17, <2>1, Moves DEF InFlight
<1> QED BY <1>16, <1>17 DEF Next

-----------------------------------------------------------------------------
(* Who signed in *)

(* The account a request is about, and the identity it presents, do not    *)
(* change once they are known.                                             *)
LEMMA Keeps ==
    ASSUME TypeOK, PhaseInv, FoundInv, NEW r \in Requests, Act(r)
    PROVE  \A q \in Requests :
             target[q] # NoRequest => target'[q] = target[q] /\ identity'[q] = identity[q]
<1>1. CASE GoogleFindEmail(r) \/ GoogleCreate(r)
  <2>1. target[r] = NoRequest
    BY <1>1 DEF GoogleFindEmail, GoogleCreate, FoundInv, Found
  <2> QED BY <2>1, Moves
<1>2. CASE pc[r] = "new"
  BY <1>2, Moves DEF PhaseInv
<1>3. CASE pc[r] # "new" /\ ~GoogleFindEmail(r) /\ ~GoogleCreate(r)
  <2>1. target' = target
    BY <1>3 DEF Act, RegisterCheck, RegisterRefused, RegisterInsert, RegisterCommit,
       GoogleFindSubject, GoogleUnverified, GoogleLink, GoogleTokens, UpdateCheck,
       UpdateRefused, UpdateCommit, AcceptCheck, AcceptCommit, Interrupt, locals
  <2> QED BY <1>3, <2>1, Moves
<1> QED BY <1>1, <1>2, <1>3

(* Every step keeps what is known of those who signed in.                  *)
LEMMA NextLink ==
    ASSUME TypeOK, PhaseInv, FlightInv, KeysInv, FoundInv, LinkInv, [Next]_vars
    PROVE  LinkInv'
<1> USE NoRequestAssumption, NoSubjectAssumption DEF database, locals
<1>0. /\ FlightInv' /\ \A p, q \in Requests : Overlap(p, q) => Overlap(p, q)'
      /\ \A q \in Requests : SignedIn(q) => target[q] \in accounts
  BY NextFlight DEF TypeOK, PhaseInv
\* Who was signed in, when the linked identities stay.
<1>1. ASSUME NEW r \in Requests, Act(r), NEW p \in Requests, SignedIn(p),
             \A a \in accounts : subject'[a] = subject[a]
      PROVE  /\ subject'[target'[p]] # NoSubject
             /\ \/ subject'[target'[p]] = identity'[p]
                \/ \E q \in Requests : /\ target'[q] = target'[p]
                                       /\ identity'[q] = subject'[target'[p]]
                                       /\ Overlap(q, p)'
  <2>1. /\ target[p] \in accounts /\ target[p] # NoRequest
        /\ target'[p] = target[p] /\ identity'[p] = identity[p]
        /\ subject'[target[p]] = subject[target[p]] /\ subject[target[p]] # NoSubject
    BY <1>0, <1>1, Keeps DEF TypeOK, LinkInv
  <2>2. ASSUME NEW q \in Requests, target[q] = target[p],
               identity[q] = subject[target[p]], Overlap(q, p)
        PROVE  /\ target'[q] = target'[p] /\ identity'[q] = subject'[target'[p]]
               /\ Overlap(q, p)'
    BY <1>0, <1>1, <2>1, <2>2, Keeps
  <2> QED BY <1>1, <2>1, <2>2 DEF LinkInv
\* Requests that sign in meet those that are about to link.
<1>2. ASSUME NEW r \in Requests, Act(r),
             pc'[r] = "link" => pc[r] = "link",
             \A p \in Requests : SignedIn(p)' => SignedIn(p) \/ pc'[p] = "tokens"
      PROVE  \A q, p \in Requests :
               pc'[q] = "link" /\ SignedIn(p)' /\ target'[q] = target'[p] => Overlap(q, p)'
  <2> SUFFICES ASSUME NEW q \in Requests, NEW p \in Requests,
                      pc'[q] = "link", SignedIn(p)', target'[q] = target'[p]
               PROVE  Overlap(q, p)'
    OBVIOUS
  <2>1. CASE pc'[p] = "tokens"
    BY <1>0, <2>1 DEF FlightInv, InFlight
  <2>2. CASE SignedIn(p)
    <3>1. pc[q] = "link"
      BY <1>2, Moves
    <3>2. target[q] # NoRequest /\ target[p] # NoRequest
      BY <2>2, <3>1 DEF TypeOK, PhaseInv
    <3>3. target[q] = target[p]
      BY <1>2, <3>2, Keeps
    <3> QED BY <1>0, <2>2, <3>1, <3>3 DEF LinkInv
  <2> QED BY <1>2, <2>1, <2>2
<1>3. ASSUME NEW r \in Requests, Act(r), subject' = subject,
             \A p \in Requests : SignedIn(p)' => SignedIn(p),
             pc'[r] = "link" => pc[r] = "link"
      PROVE  LinkInv'
  <2>1. \A q, p \in Requests :
          pc'[q] = "link" /\ SignedIn(p)' /\ target'[q] = target'[p] => Overlap(q, p)'
    BY <1>2, <1>3
  <2> QED BY <1>1, <1>3, <2>1 DEF LinkInv
<1>4. ASSUME NEW r \in Requests, Act(r), pc'[r] = "tokens", pc[r] # "tokens",
             outcome' = outcome,
             \A a \in accounts : subject'[a] = subject[a],
             subject'[target'[r]] = identity'[r], identity'[r] # NoSubject
      PROVE  LinkInv'
  <2>1. \A p \in Requests \ {r} : SignedIn(p)' => SignedIn(p)
    BY <1>4, Moves DEF SignedIn
  <2>2. \A q, p \in Requests :
          pc'[q] = "link" /\ SignedIn(p)' /\ target'[q] = target'[p] => Overlap(q, p)'
    BY <1>2, <1>4, <2>1
  <2> QED BY <1>1, <1>4, <2>1, <2>2 DEF LinkInv
<1>5. ASSUME NEW r \in Requests, NEW g \in Subjects, NEW e \in Addresses,
             GoogleFindSubject(r, g, e)
      PROVE  LinkInv'
  <2>1. Act(r)
    BY <1>5 DEF Act
  <2>2. /\ pc[r] = "new" /\ subject' = subject /\ outcome' = outcome /\ identity'[r] = g
        /\ \/ pc'[r] = "email"
           \/ pc'[r] = "tokens" /\ subject[target'[r]] = g
    BY <1>5 DEF GoogleFindSubject, Go, TypeOK
  <2>3. CASE pc'[r] = "email"
    <3>1. \A p \in Requests : SignedIn(p)' => SignedIn(p)
      BY <2>1, <2>2, <2>3, Moves DEF SignedIn
    <3> QED BY <1>3, <2>1, <2>2, <2>3, <3>1
  <2>4. CASE pc'[r] = "tokens"
    BY <1>4, <2>1, <2>2, <2>4
  <2> QED BY <2>2, <2>3, <2>4
<1>6. ASSUME NEW r \in Requests, GoogleFindEmail(r)
      PROVE  LinkInv'
  <2>1. Act(r)
    BY <1>6 DEF Act
  <2>2. /\ pc[r] = "email" /\ subject' = subject /\ identity' = identity
        /\ \/ pc'[r] \in {"over", "create"} /\ outcome'[r] # "tokens"
           \/ /\ pc'[r] = "tokens" /\ subject[target'[r]] = identity[r] /\ outcome' = outcome
           \/ pc'[r] = "link" /\ subject[target'[r]] = NoSubject /\ outcome' = outcome
    BY <1>6 DEF GoogleFindEmail, Linkable, Finish, Go, TypeOK, PhaseInv
  <2>3. CASE pc'[r] \in {"over", "create"} /\ outcome'[r] # "tokens"
    <3>1. \A p \in Requests : SignedIn(p)' => SignedIn(p)
      BY <2>1, <2>2, <2>3, Moves DEF SignedIn
    <3> QED BY <1>3, <2>1, <2>2, <2>3, <3>1
  <2>4. CASE pc'[r] = "tokens" /\ subject[target'[r]] = identity[r] /\ outcome' = outcome
    <3>1. identity[r] # NoSubject
      BY <2>2 DEF PhaseInv
    <3> QED BY <1>4, <2>1, <2>2, <2>4, <3>1
  <2>5. CASE pc'[r] = "link" /\ subject[target'[r]] = NoSubject /\ outcome' = outcome
    <3>1. \A p \in Requests : SignedIn(p)' => SignedIn(p) /\ p # r
      BY <2>1, <2>2, <2>5, Moves DEF SignedIn, PhaseInv
    <3>2. \A p \in Requests : SignedIn(p) => target'[p] = target[p] /\ target[p] # NoRequest
      BY <2>1, Keeps DEF PhaseInv
    <3>3. ASSUME NEW q \in Requests, NEW p \in Requests,
                 pc'[q] = "link", SignedIn(p)', target'[q] = target'[p]
          PROVE  Overlap(q, p)'
      <4>1. SignedIn(p) /\ subject[target'[p]] # NoSubject
        BY <3>1, <3>2, <3>3 DEF LinkInv
      <4>2. q # r
        BY <2>5, <3>3, <4>1
      <4>3. pc[q] = "link" /\ target[q] = target[p]
        BY <2>1, <3>2, <3>3, <4>1, <4>2, Moves
      <4> QED BY <1>0, <4>1, <4>3 DEF LinkInv
    <3> QED BY <1>1, <2>1, <2>2, <3>1, <3>3 DEF LinkInv
  <2> QED BY <2>2, <2>3, <2>4, <2>5
<1>7. ASSUME NEW r \in Requests, GoogleLink(r)
      PROVE  LinkInv'
  <2>1. Act(r)
    BY <1>7 DEF Act
  <2>2. CASE subject' = subject /\ pc'[r] = "over"
    <3>1. \A p \in Requests : SignedIn(p)' => SignedIn(p)
      BY <1>7, <2>1, <2>2, Moves DEF GoogleLink, Finish, Go, SignedIn, TypeOK, PhaseInv
    <3> QED BY <1>3, <2>1, <2>2, <3>1
  <2>3. CASE ~(subject' = subject /\ pc'[r] = "over")
    <3>1. /\ pc[r] = "link" /\ pc'[r] = "tokens" /\ outcome' = outcome
          /\ target' = target /\ identity' = identity /\ target[r] \in accounts
          /\ subject' = [subject EXCEPT ![target[r]] = identity[r]]
      BY <1>7, <2>3 DEF GoogleLink, Finish, Go, TypeOK
    <3>2. /\ subject'[target[r]] = identity[r] /\ identity[r] # NoSubject
          /\ \A a \in accounts \ {target[r]} : subject'[a] = subject[a]
      BY <3>1 DEF TypeOK, PhaseInv
    <3>3. \A p \in Requests \ {r} : SignedIn(p)' => SignedIn(p)
      BY <2>1, <3>1, Moves DEF SignedIn
    <3>4. \A q, p \in Requests :
            pc'[q] = "link" /\ SignedIn(p)' /\ target'[q] = target'[p] => Overlap(q, p)'
      BY <1>2, <2>1, <3>1, <3>3
    <3>5. ASSUME NEW p \in Requests, SignedIn(p)'
          PROVE  /\ subject'[target[p]] # NoSubject
                 /\ \/ subject'[target[p]] = identity[p]
                    \/ \E q \in Requests : /\ target[q] = target[p]
                                           /\ identity[q] = subject'[target[p]]
                                           /\ Overlap(q, p)'
      <4>1. CASE p = r
        BY <3>2, <4>1
      <4>2. CASE p # r /\ target[p] = target[r]
        <5>1. Overlap(r, p)'
          BY <1>0, <3>1, <3>3, <3>5, <4>2 DEF LinkInv
        <5> QED BY <3>2, <4>2, <5>1
      <4>3. CASE p # r /\ target[p] # target[r]
        <5>1. SignedIn(p) /\ subject'[target[p]] = subject[target[p]]
          BY <1>0, <3>2, <3>3, <3>5, <4>3
        <5> QED BY <1>0, <5>1 DEF LinkInv
      <4> QED BY <4>1, <4>2, <4>3
    <3> QED BY <3>1, <3>4, <3>5 DEF LinkInv
  <2> QED BY <2>2, <2>3
<1>8. ASSUME NEW r \in Requests, GoogleCreate(r)
      PROVE  LinkInv'
  <2>1. Act(r)
    BY <1>8 DEF Act
  <2>2. /\ pc[r] = "create" /\ r \notin accounts /\ identity' = identity
        /\ identity[r] # NoSubject
        /\ \/ pc'[r] = "over" /\ outcome'[r] # "tokens" /\ subject' = subject
           \/ /\ pc'[r] = "tokens" /\ outcome' = outcome /\ target'[r] = r
              /\ subject' = [subject EXCEPT ![r] = identity[r]]
    BY <1>8 DEF GoogleCreate, Finish, Go, TypeOK, PhaseInv
  <2>3. CASE pc'[r] = "over" /\ outcome'[r] # "tokens" /\ subject' = subject
    <3>1. \A p \in Requests : SignedIn(p)' => SignedIn(p)
      BY <2>1, <2>2, <2>3, Moves DEF SignedIn
    <3> QED BY <1>3, <2>1, <2>2, <2>3, <3>1
  <2>4. CASE pc'[r] = "tokens"
    <3>1. /\ subject'[target'[r]] = identity'[r]
          /\ \A a \in accounts : subject'[a] = subject[a]
      BY <2>2, <2>4 DEF TypeOK
    <3> QED BY <1>4, <2>1, <2>2, <2>4, <3>1
  <2> QED BY <2>2, <2>3, <2>4
<1>9. ASSUME NEW r \in Requests,
             \/ \E e \in Addresses : RegisterCheck(r, e) \/ RegisterRefused(r, e)
             \/ RegisterInsert(r) \/ RegisterCommit(r) \/ GoogleUnverified(r) \/ GoogleTokens(r)
             \/ \E a \in Requests, e \in Addresses : UpdateCheck(r, a, e) \/ UpdateRefused(r, a, e)
             \/ \E a \in Requests : AcceptCheck(r, a)
             \/ UpdateCommit(r) \/ AcceptCommit(r) \/ Interrupt(r)
      PROVE  LinkInv'
  <2>1. Act(r)
    BY <1>9 DEF Act
  <2>2. subject' = subject
    BY <1>9 DEF RegisterCheck, RegisterRefused, RegisterInsert, RegisterCommit, GoogleUnverified,
                GoogleTokens, UpdateCheck, UpdateRefused, AcceptCheck, UpdateCommit, AcceptCommit,
                Interrupt
  <2>3. /\ pc'[r] \notin {"link", "tokens"}
        /\ outcome'[r] = "tokens" => SignedIn(r)
    BY <1>9 DEF RegisterCheck, RegisterRefused, RegisterInsert, RegisterCommit, GoogleUnverified,
                GoogleTokens, UpdateCheck, UpdateRefused, AcceptCheck, UpdateCommit, AcceptCommit,
                Interrupt, Finish, Go, TypeOK, SignedIn
  <2>4. \A p \in Requests : SignedIn(p)' => SignedIn(p)
    BY <2>1, <2>3, Moves DEF SignedIn
  <2> QED BY <1>3, <2>1, <2>2, <2>3, <2>4
<1>10. CASE UNCHANGED vars
  BY <1>10 DEF LinkInv, SignedIn, Overlap, vars
<1> QED BY <1>5, <1>6, <1>7, <1>8, <1>9, <1>10 DEF Next, Act

-----------------------------------------------------------------------------
(* The theorems *)

AccountInv ==
    /\ TypeOK /\ PhaseInv /\ FoldedInv /\ FlightInv
    /\ KeysInv /\ FoundInv /\ LinkInv /\ RegisteredHaveAccepted

(* A password is stored with the acceptance.                               *)
LEMMA NextRegistered ==
    ASSUME TypeOK, RegisteredHaveAccepted, [Next]_vars
    PROVE  RegisteredHaveAccepted'
BY DEF RegisteredHaveAccepted, Next, Act, RegisterCheck, RegisterRefused, RegisterInsert,
       RegisterCommit, GoogleFindSubject, GoogleUnverified, GoogleFindEmail, GoogleLink,
       GoogleCreate, GoogleTokens, UpdateCheck, UpdateRefused, UpdateCommit, AcceptCheck,
       AcceptCommit, Interrupt, vars, database

(* All parts of the invariant hold together.                               *)
LEMMA Invariant == Spec => []AccountInv
<1>1. Init => AccountInv
  <2>1. Init => RegisteredHaveAccepted
    BY DEF Init, RegisteredHaveAccepted
  <2> QED BY <2>1, InitType, InitPhase DEF AccountInv
<1>2. AccountInv /\ [Next]_vars => AccountInv'
  BY NextType, NextPhase, NextFolded, NextFlight, NextKeys, NextFound, NextLink,
     NextRegistered DEF AccountInv
<1> QED BY <1>1, <1>2, PTL DEF Spec

(* An address, however it is spelled, and a Google identity name at most   *)
(* one account.                                                            *)
THEOREM KeysIdentify == Spec => []EmailsIdentify
<1>1. AccountInv => EmailsIdentify
  <2> SUFFICES ASSUME AccountInv
               PROVE  EmailsIdentify
    OBVIOUS
  <2>1. \A a \in accounts : a \in Requests /\ Written(a) /\ Lower(email[a]) = email[a]
    BY DEF AccountInv, TypeOK, FoldedInv, Written
  <2> QED BY <2>1 DEF AccountInv, KeysInv, EmailsIdentify
<1> QED BY <1>1, Invariant, PTL

(* Whoever can sign in with a password has accepted the agreement.         *)
THEOREM PasswordMeansAcceptance == Spec => []RegisteredHaveAccepted
<1>1. AccountInv => RegisteredHaveAccepted
  BY DEF AccountInv
<1> QED BY <1>1, Invariant, PTL

(* An account passes from the identity that signed in to another one only  *)
(* when the two sign-ins overlapped.                                       *)
THEOREM IdentityKeepsAccount == Spec => []OnlyOverlapRelinks
<1>1. AccountInv => OnlyOverlapRelinks
  BY DEF AccountInv, LinkInv, SignedIn, OnlyOverlapRelinks
<1> QED BY <1>1, Invariant, PTL

(* A unique constraint refuses only a request that overlapped another one. *)
THEOREM ErrorsAreRaces == Spec => []OnlyOverlapErrs
<1>1. AccountInv => OnlyOverlapErrs
  BY DEF AccountInv, FoundInv, Found, Contended, OnlyOverlapErrs
<1> QED BY <1>1, Invariant, PTL

-----------------------------------------------------------------------------
(* Refinement: what a request does to the directory it does in the step    *)
(* that writes, or in which it finds the account it signs in to.           *)
NameOf == [a \in accounts |-> email[a].name]
SubjectOf == [a \in accounts |-> subject[a]]
Entry(r) == [request |-> r, account |-> target[r], subject |-> identity[r]]

(* The instance's variables, by these names.                               *)
LEMMA DirectoryIs ==
    /\ Admitted = {Entry(r) : r \in {q \in Requests : SignedIn(q)}}
    /\ DOMAIN NameOf = accounts /\ DOMAIN SubjectOf = accounts
    /\ \A a \in accounts : NameOf[a] = email[a].name /\ SubjectOf[a] = subject[a]
BY DEF Admitted, Entry, SignedIn, NameOf, SubjectOf

(* There is nobody in the directory at the start.                          *)
LEMMA InitRefines == Init => Dir!Init
<1> SUFFICES ASSUME Init
             PROVE  Dir!Init
  OBVIOUS
<1>1. accounts = {} /\ \A r \in Requests : ~SignedIn(r)
  BY DEF Init, SignedIn
<1>2. NameOf = [a \in {} |-> NoSubject] /\ SubjectOf = [a \in {} |-> NoSubject]
  BY <1>1 DEF NameOf, SubjectOf
<1>3. Admitted = {}
  BY <1>1, DirectoryIs
<1> QED BY <1>2, <1>3 DEF Init, Dir!Init, Dir!Nobody, NameOf, SubjectOf

(* Two folded addresses that differ are two names.                         *)
LEMMA FoldedNames ==
    ASSUME NEW e \in Addresses, NEW f \in Addresses,
           Lower(e) = e, Lower(f) = f, e # f
    PROVE  e.name # f.name
BY DEF Addresses, Lower

(* What a step of a request makes of those who are signed in.              *)
LEMMA Admission ==
    ASSUME TypeOK, PhaseInv, FoundInv, NEW r \in Requests, Act(r)
    PROVE  /\ ~SignedIn(r)' => Admitted' = {entry \in Admitted : entry.request # r}
           /\ (SignedIn(r) <=> SignedIn(r)') => Admitted' = Admitted
           /\ ~SignedIn(r) /\ SignedIn(r)' =>
                /\ Admitted' = Admitted \cup {[request |-> r, account |-> target'[r],
                                               subject |-> identity'[r]]}
                /\ \A entry \in Admitted : entry.request # r
<1>1. \A q \in Requests \ {r} : (SignedIn(q) <=> SignedIn(q)') /\ Entry(q)' = Entry(q)
  BY Moves DEF SignedIn, Entry
<1>2. SignedIn(r) => Entry(r)' = Entry(r)
  BY Keeps DEF PhaseInv, Entry
<1>3. \A q \in Requests : Entry(q).request = q
  BY DEF Entry
<1>4. /\ Admitted = {Entry(q) : q \in {p \in Requests : SignedIn(p)}}
      /\ Admitted' = {Entry(q)' : q \in {p \in Requests : SignedIn(p)'}}
  BY DirectoryIs DEF Admitted, Entry, SignedIn
<1>5. ASSUME ~SignedIn(r)'
      PROVE  Admitted' = {entry \in Admitted : entry.request # r}
  BY <1>1, <1>3, <1>4, <1>5
<1>6. ASSUME SignedIn(r) <=> SignedIn(r)'
      PROVE  Admitted' = Admitted
  BY <1>1, <1>2, <1>4, <1>6
<1>7. ASSUME ~SignedIn(r), SignedIn(r)'
      PROVE  /\ Admitted' = Admitted \cup {Entry(r)'}
             /\ \A entry \in Admitted : entry.request # r
  BY <1>1, <1>3, <1>4, <1>7
<1> QED BY <1>5, <1>6, <1>7 DEF Entry

(* A step that leaves the rows alone and lets nobody in turns a request    *)
(* away or does nothing.                                                   *)
LEMMA Aside ==
    ASSUME TypeOK, PhaseInv, FoundInv, NEW r \in Requests, Act(r),
           UNCHANGED <<accounts, subject, local, accepted>>,
           \A a \in accounts : email'[a] = email[a],
           SignedIn(r)' => SignedIn(r)
    PROVE  [Dir!Next]_(Dir!vars)
<1>1. NameOf' = NameOf /\ SubjectOf' = SubjectOf
  BY DEF NameOf, SubjectOf
<1>2. CASE SignedIn(r)'
  <2>1. Admitted' = Admitted
    BY <1>2, Admission
  <2> QED BY <1>1, <2>1 DEF Dir!vars, NameOf, SubjectOf
<1>3. CASE ~SignedIn(r)'
  <2>1. Admitted' = {entry \in Admitted : entry.request # r}
    BY <1>3, Admission
  <2>2. Dir!TurnAway(r)
    BY <1>1, <2>1 DEF Dir!TurnAway, NameOf, SubjectOf
  <2> QED BY <2>2 DEF Dir!Next
<1> QED BY <1>2, <1>3

(* A registration enters the directory when it is committed: its row has   *)
(* kept the address for it since it was inserted.                          *)
LEMMA RegisterRefines ==
    ASSUME AccountInv, NEW r \in Requests, RegisterCommit(r)
    PROVE  Dir!Next
<1>1. PICK n \in Names : n = email[r].name
  BY DEF AccountInv, TypeOK, Addresses
<1>2. r \notin accounts /\ subject[r] = NoSubject
  BY DEF RegisterCommit, AccountInv, PhaseInv, KeysInv
<1>3. \A a \in accounts : NameOf[a] # n
  <2> SUFFICES ASSUME NEW a \in accounts
               PROVE  email[a].name # n
    BY DirectoryIs
  <2>1. a \in Requests /\ Written(a) /\ Written(r) /\ a # r
    BY <1>2 DEF Written, RegisterCommit, AccountInv, TypeOK
  <2>2. email[a] # email[r]
    BY <2>1 DEF AccountInv, KeysInv
  <2>3. /\ email[a] \in Addresses /\ Lower(email[a]) = email[a]
        /\ email[r] \in Addresses /\ Lower(email[r]) = email[r]
    BY <2>1 DEF AccountInv, TypeOK, FoldedInv, Written
  <2> QED BY <1>1, <2>2, <2>3, FoldedNames
<1>4. /\ NameOf' = Dir!With(NameOf, r, n)
      /\ SubjectOf' = Dir!With(SubjectOf, r, NoSubject)
  BY <1>1, <1>2 DEF RegisterCommit, NameOf, SubjectOf, Dir!With
<1>5. Admitted' = Admitted
  <2>1. ~SignedIn(r) /\ ~SignedIn(r)' /\ Act(r)
    BY DEF RegisterCommit, AccountInv, PhaseInv, TypeOK, SignedIn, Finish, Go, Act
  <2> QED BY <2>1, Admission DEF AccountInv
<1>6. local' = local \cup {r} /\ accepted' = accepted \cup {r}
  BY DEF RegisterCommit
<1>7. Dir!Register(r, n)
  BY <1>2, <1>3, <1>4, <1>5, <1>6, DirectoryIs
  DEF Dir!Register, Dir!NameIsFree, Dir!accounts, NameOf, SubjectOf
<1> QED BY <1>7 DEF Dir!Next

(* A sign-in that finds the account of its identity is one.                *)
LEMMA SignInRefines ==
    ASSUME AccountInv, NEW r \in Requests, Act(r), NEW a \in accounts, NEW s \in Subjects,
           UNCHANGED database, subject[a] = s, target'[r] = a, identity'[r] = s,
           ~SignedIn(r), pc'[r] = "tokens"
    PROVE  Dir!Next
<1>1. NameOf' = NameOf /\ SubjectOf' = SubjectOf
  BY DEF NameOf, SubjectOf, database
<1>2. /\ Admitted' = Admitted \cup {[request |-> r, account |-> a, subject |-> s]}
      /\ \A entry \in Admitted : entry.request # r
  BY Admission DEF SignedIn, AccountInv
<1>3. Dir!SignIn(r, a, s)
  BY <1>1, <1>2, DirectoryIs
  DEF Dir!SignIn, Dir!Admit, Dir!accounts, NameOf, SubjectOf, database
<1>4. a \in Requests
  BY DEF AccountInv, TypeOK
<1> QED BY <1>3, <1>4 DEF Dir!Next

(* A Google sign-in enters the directory where its identity is found,      *)
(* linked or stored with a new account, and leaves it if it is refused.    *)
LEMMA GoogleRefines ==
    ASSUME AccountInv, NEW r \in Requests,
           \/ \E s \in Subjects, e \in Addresses : GoogleFindSubject(r, s, e)
           \/ GoogleFindEmail(r) \/ GoogleLink(r) \/ GoogleCreate(r)
    PROVE  [Dir!Next]_(Dir!vars)
<1>0. Act(r) /\ TypeOK /\ PhaseInv /\ FoldedInv /\ KeysInv /\ FoundInv
  BY DEF Act, AccountInv
<1>1. pc[r] \in {"new", "email", "link", "create"} /\ ~SignedIn(r)
  BY <1>0 DEF GoogleFindSubject, GoogleFindEmail, GoogleLink, GoogleCreate, PhaseInv, SignedIn
<1>2. ASSUME NEW s \in Subjects, NEW e \in Addresses, GoogleFindSubject(r, s, e)
      PROVE  [Dir!Next]_(Dir!vars)
  <2>1. UNCHANGED database /\ identity'[r] = s /\ outcome' = outcome
    BY <1>0, <1>2 DEF GoogleFindSubject, TypeOK
  <2>2. CASE pc'[r] = "tokens"
    <3>1. PICK a \in accounts : subject[a] = s /\ target'[r] = a
      BY <1>0, <1>2, <2>2 DEF GoogleFindSubject, Go, TypeOK
    <3> QED BY <1>0, <1>1, <2>1, <2>2, <3>1, SignInRefines
  <2>3. CASE pc'[r] # "tokens"
    <3>1. ~SignedIn(r)'
      BY <1>1, <2>1, <2>3 DEF SignedIn
    <3> QED BY <1>0, <2>1, <3>1, Aside DEF database
  <2> QED BY <2>2, <2>3
<1>3. CASE GoogleFindEmail(r)
  <2>1. UNCHANGED database /\ identity' = identity
    BY <1>3 DEF GoogleFindEmail
  <2>2. CASE pc'[r] = "tokens"
    <3>1. PICK a \in accounts : subject[a] = identity[r] /\ target'[r] = a
      BY <1>0, <1>3, <2>2 DEF GoogleFindEmail, Linkable, Finish, Go, TypeOK
    <3>2. PICK s \in Subjects : s = identity[r]
      BY <1>0, <1>3 DEF GoogleFindEmail, TypeOK, PhaseInv
    <3> QED BY <1>0, <1>1, <2>1, <2>2, <3>1, <3>2, SignInRefines
  <2>3. CASE pc'[r] # "tokens"
    <3>1. outcome'[r] # "tokens"
      BY <1>0, <1>1, <1>3 DEF GoogleFindEmail, Finish, Go, TypeOK, SignedIn
    <3>2. ~SignedIn(r)'
      BY <2>3, <3>1 DEF SignedIn
    <3> QED BY <1>0, <2>1, <3>2, Aside DEF database
  <2> QED BY <2>2, <2>3
<1>4. CASE GoogleLink(r)
  <2>1. UNCHANGED <<accounts, email, local, accepted, identity, target>>
    BY <1>4 DEF GoogleLink, locals
  <2>2. CASE \E b \in accounts \ {target[r]} : subject[b] = identity[r]
    <3>1. subject' = subject /\ Finish(r, "subject")
      BY <1>4, <2>2 DEF GoogleLink
    <3>2. ~SignedIn(r)'
      BY <1>0, <3>1 DEF SignedIn, Finish, Go, TypeOK
    <3> QED BY <1>0, <2>1, <3>1, <3>2, Aside
  <2>3. CASE ~ \E b \in accounts \ {target[r]} : subject[b] = identity[r]
    <3>1. /\ subject' = [subject EXCEPT ![target[r]] = identity[r]]
          /\ pc'[r] = "tokens"
      BY <1>0, <1>4, <2>3 DEF GoogleLink, Go, TypeOK
    <3>2. PICK a \in accounts : a = target[r]
      BY <1>0, <1>4 DEF GoogleLink, TypeOK
    <3>3. PICK s \in Subjects : s = identity[r]
      BY <1>0, <1>4 DEF GoogleLink, TypeOK, PhaseInv
    <3>4. a \in Requests
      BY <1>0 DEF TypeOK
    <3>5. /\ NameOf' = NameOf
          /\ SubjectOf' = Dir!With(SubjectOf, a, s)
      BY <1>0, <2>1, <3>1, <3>2, <3>3 DEF NameOf, SubjectOf, Dir!With, TypeOK
    <3>6. /\ Admitted' = Admitted \cup {[request |-> r, account |-> a, subject |-> s]}
          /\ \A entry \in Admitted : entry.request # r
      <4>1. SignedIn(r)' /\ target'[r] = a /\ identity'[r] = s
        BY <2>1, <3>1, <3>2, <3>3 DEF SignedIn
      <4> QED BY <1>0, <1>1, <4>1, Admission
    <3>7. \A b \in accounts \ {a} : SubjectOf[b] # s
      BY <2>3, <3>2, <3>3, DirectoryIs
    <3>8. Dir!Link(r, a, s)
      BY <2>1, <3>5, <3>6, <3>7, DirectoryIs
      DEF Dir!Link, Dir!Admit, Dir!SubjectIsFree, Dir!accounts, NameOf, SubjectOf
    <3> QED BY <3>4, <3>8 DEF Dir!Next
  <2> QED BY <2>2, <2>3
<1>5. CASE GoogleCreate(r)
  <2>1. UNCHANGED <<local, accepted, identity>>
    BY <1>5 DEF GoogleCreate
  <2>2. CASE Taken(GoogleEmail(r)) \/ \E a \in accounts : subject[a] = identity[r]
    <3>1. PICK what \in {"email", "subject"} : Finish(r, what)
      BY <1>5, <2>2 DEF GoogleCreate
    <3>2. UNCHANGED <<accounts, email, subject>>
      BY <1>5, <2>2 DEF GoogleCreate
    <3>3. ~SignedIn(r)'
      BY <1>0, <3>1 DEF SignedIn, Finish, Go, TypeOK
    <3> QED BY <1>0, <2>1, <3>2, <3>3, Aside
  <2>3. CASE ~(Taken(GoogleEmail(r)) \/ \E a \in accounts : subject[a] = identity[r])
    <3>1. PICK e \in Addresses : e = GoogleEmail(r) /\ Lower(e) = e
      BY <1>0, Folding DEF GoogleEmail, TypeOK
    <3>2. PICK s \in Subjects : s = identity[r]
      BY <1>0, <1>5 DEF GoogleCreate, TypeOK, PhaseInv
    <3>3. /\ accounts' = accounts \cup {r} /\ pc'[r] = "tokens" /\ target'[r] = r
          /\ email' = [email EXCEPT ![r] = e] /\ subject' = [subject EXCEPT ![r] = s]
      BY <1>0, <1>5, <2>3, <3>1, <3>2 DEF GoogleCreate, Go, TypeOK
    <3>4. PICK n \in Names : n = e.name
      BY DEF Addresses
    <3>5. r \notin accounts
      BY <1>0, <1>5 DEF GoogleCreate, PhaseInv
    <3>6. /\ NameOf' = Dir!With(NameOf, r, n)
          /\ SubjectOf' = Dir!With(SubjectOf, r, s)
      BY <1>0, <3>3, <3>4 DEF NameOf, SubjectOf, Dir!With, TypeOK
    <3>7. /\ Admitted' = Admitted \cup {[request |-> r, account |-> r, subject |-> s]}
          /\ \A entry \in Admitted : entry.request # r
      <4>1. SignedIn(r)' /\ identity'[r] = s
        BY <2>1, <3>2, <3>3 DEF SignedIn
      <4> QED BY <1>0, <1>1, <3>3, <4>1, Admission
    <3>8. \A b \in accounts : NameOf[b] # n /\ SubjectOf[b] # s
      <4> SUFFICES ASSUME NEW b \in accounts
                   PROVE  email[b].name # n /\ subject[b] # s
        BY DirectoryIs
      <4>1. email[b] # e /\ subject[b] # s
        BY <2>3, <3>1, <3>2 DEF Taken
      <4>2. email[b] \in Addresses /\ Lower(email[b]) = email[b]
        BY <1>0 DEF TypeOK, FoldedInv
      <4> QED BY <3>1, <3>4, <4>1, <4>2, FoldedNames
    <3>9. Dir!SignUp(r, n, s)
      BY <2>1, <3>5, <3>6, <3>7, <3>8, DirectoryIs
      DEF Dir!SignUp, Dir!Admit, Dir!NameIsFree, Dir!SubjectIsFree, Dir!accounts,
          NameOf, SubjectOf
    <3> QED BY <3>9 DEF Dir!Next
  <2> QED BY <2>2, <2>3
<1> QED BY <1>2, <1>3, <1>4, <1>5

(* An address is changed, and the agreement accepted, by the commit.       *)
LEMMA ChangeRefines ==
    ASSUME AccountInv, NEW r \in Requests, UpdateCommit(r) \/ AcceptCommit(r)
    PROVE  [Dir!Next]_(Dir!vars)
<1>0. Act(r) /\ TypeOK /\ PhaseInv /\ FoldedInv /\ FoundInv
  BY DEF Act, AccountInv
<1>1. PICK a \in accounts : a = target[r]
  BY <1>0 DEF UpdateCommit, AcceptCommit, TypeOK
<1>2. a \in Requests
  BY <1>0 DEF TypeOK
<1>3. ~SignedIn(r) /\ ~SignedIn(r)'
  BY <1>0 DEF UpdateCommit, AcceptCommit, PhaseInv, SignedIn, Finish, Go, TypeOK
<1>4. Admitted' = Admitted
  BY <1>0, <1>3, Admission
<1>5. CASE UpdateCommit(r)
  <2>1. UNCHANGED <<accounts, subject, local, accepted>>
    BY <1>5 DEF UpdateCommit
  <2>2. CASE \E b \in accounts \ {a} : email[b] = asked[r]
    <3>1. email' = email
      BY <1>1, <1>5, <2>2 DEF UpdateCommit
    <3> QED BY <1>0, <1>3, <2>1, <3>1, Aside
  <2>3. CASE ~ \E b \in accounts \ {a} : email[b] = asked[r]
    <3>1. PICK e \in Addresses : e = asked[r] /\ Lower(e) = e
      BY <1>0, <1>5 DEF UpdateCommit, TypeOK, FoldedInv
    <3>2. PICK n \in Names : n = e.name
      BY DEF Addresses
    <3>3. email' = [email EXCEPT ![a] = e]
      BY <1>1, <1>5, <2>3, <3>1 DEF UpdateCommit
    <3>4. NameOf' = Dir!With(NameOf, a, n) /\ SubjectOf' = SubjectOf
      BY <1>0, <2>1, <3>2, <3>3 DEF NameOf, SubjectOf, Dir!With, TypeOK
    <3>5. \A b \in accounts \ {a} : NameOf[b] # n
      <4> SUFFICES ASSUME NEW b \in accounts \ {a}
                   PROVE  email[b].name # n
        BY DirectoryIs
      <4>1. email[b] \in Addresses /\ Lower(email[b]) = email[b] /\ email[b] # e
        BY <1>0, <2>3, <3>1 DEF TypeOK, FoldedInv
      <4> QED BY <3>1, <3>2, <4>1, FoldedNames
    <3>6. Dir!Rename(a, n)
      BY <1>4, <2>1, <3>4, <3>5, DirectoryIs
      DEF Dir!Rename, Dir!NameIsFree, Dir!accounts, NameOf, SubjectOf
    <3> QED BY <1>2, <3>6 DEF Dir!Next
  <2> QED BY <2>2, <2>3
<1>6. CASE AcceptCommit(r)
  <2>1. UNCHANGED <<accounts, email, subject, local>> /\ accepted' = accepted \cup {a}
    BY <1>1, <1>6 DEF AcceptCommit
  <2>2. NameOf' = NameOf /\ SubjectOf' = SubjectOf
    BY <2>1 DEF NameOf, SubjectOf
  <2>3. Dir!Accept(a)
    BY <1>4, <2>1, <2>2, DirectoryIs
    DEF Dir!Accept, Dir!accounts, NameOf, SubjectOf
  <2> QED BY <1>2, <2>3 DEF Dir!Next
<1> QED BY <1>5, <1>6

(* Every step is one of the directory's or a stutter.                      *)
LEMMA StepRefines ==
    ASSUME AccountInv, [Next]_vars
    PROVE  [Dir!Next]_(Dir!vars)
<1>1. ASSUME NEW r \in Requests,
             \/ \E e \in Addresses : RegisterCheck(r, e) \/ RegisterRefused(r, e)
             \/ RegisterInsert(r) \/ GoogleUnverified(r) \/ GoogleTokens(r)
             \/ \E a \in Requests, e \in Addresses : UpdateCheck(r, a, e) \/ UpdateRefused(r, a, e)
             \/ \E a \in Requests : AcceptCheck(r, a)
             \/ Interrupt(r)
      PROVE  [Dir!Next]_(Dir!vars)
  <2>1. Act(r) /\ TypeOK /\ PhaseInv /\ FoundInv
    BY <1>1 DEF Act, AccountInv
  <2>2. UNCHANGED <<accounts, subject, local, accepted>>
    BY <1>1 DEF RegisterCheck, RegisterRefused, RegisterInsert, GoogleUnverified, GoogleTokens,
                UpdateCheck, UpdateRefused, AcceptCheck, Interrupt, database
  <2>3. \A a \in accounts : email'[a] = email[a]
    <3>1. CASE RegisterInsert(r)
      <4>1. r \notin accounts
        BY <2>1, <3>1 DEF RegisterInsert, PhaseInv
      <4> QED BY <2>1, <3>1, <4>1 DEF RegisterInsert, TypeOK
    <3>2. CASE ~RegisterInsert(r)
      BY <1>1, <3>2 DEF RegisterCheck, RegisterRefused, GoogleUnverified, GoogleTokens,
                UpdateCheck, UpdateRefused, AcceptCheck, Interrupt, database
    <3> QED BY <3>1, <3>2
  <2>4. SignedIn(r)' => SignedIn(r)
    <3>1. pc'[r] # "tokens" /\ (outcome'[r] = "tokens" => SignedIn(r))
      BY <1>1, <2>1 DEF RegisterCheck, RegisterRefused, RegisterInsert, GoogleUnverified,
                GoogleTokens, UpdateCheck, UpdateRefused, AcceptCheck,
                Interrupt, Finish, Go, TypeOK, SignedIn
    <3> QED BY <3>1 DEF SignedIn
  <2> QED BY <2>1, <2>2, <2>3, <2>4, Aside
<1>2. CASE UNCHANGED vars
  <2>1. NameOf' = NameOf /\ SubjectOf' = SubjectOf /\ Admitted' = Admitted
    BY <1>2 DEF vars, database, locals, NameOf, SubjectOf, Admitted
  <2> QED BY <1>2, <2>1 DEF Dir!vars, NameOf, SubjectOf, vars, database
<1> QED BY <1>1, <1>2, RegisterRefines, GoogleRefines, ChangeRefines DEF Next, Act

(* However requests interleave, accounts are what requests served one at a *)
(* time would make of them.                                                *)
THEOREM RefinesDirectory == Spec => ImplementsDirectory
BY InitRefines, StepRefines, Invariant, PTL DEF Spec, Dir!Spec, ImplementsDirectory
=============================================================================
