------------------------- MODULE PasswordReset_proofs -------------------------
(***************************************************************************)
(* Proofs about password recovery, for any number of requests and any      *)
(* settings: what holds of codes unless requests overlap.  Overlap is a    *)
(* matter of history, so the invariant says of two requests that did not   *)
(* overlap what the later one found when it began.                         *)
(***************************************************************************)
EXTENDS PasswordReset, FiniteSetTheorems, TLAPS

Forgetting(r) == pc[r] \in {"invalidate", "store", "send", "commit"}
Resetting(r) == pc[r] = "reset" \/ outcome[r] = "reset"

Apart(S) == \A q, r \in S : q # r => ~Overlap(q, r)

(* How far a request is and what became of it agree.                       *)
PhaseInv ==
    \A r \in Requests :
        /\ r \in stored => outcome[r] = "coded"
        /\ outcome[r] # "none" <=> pc[r] = "over"
        /\ outcome[r] \in {"reset", "missed"} => reads[r] # NoRequest
        /\ pc[r] = "new" => during[r] = {} /\ reads[r] = NoRequest
        /\ pc[r] \in {"new", "invalidate"} => targets[r] = {}

(* Requests under way at one time overlap.                                 *)
FlightInv == \A q, r \in Requests : q # r /\ InFlight(q) /\ InFlight(r) => Overlap(q, r)

(* A code that reset the password is used, and was read by the others      *)
(* before.                                                                 *)
ReuseInv ==
    /\ \A r \in Requests : outcome[r] = "reset" => code[reads[r]].used
    /\ \A q, r \in Requests :
         q # r /\ Resetting(q) /\ Resetting(r) /\ reads[q] = reads[r] => Overlap(q, r)

(* What a mistaken entry is about to write is the number of entries so far.*)
Counted(c) ==
    /\ IsFiniteSet(MissedOn(c))
    /\ Apart(MissedOn(c)) => code[c].misses = Cardinality(MissedOn(c))
    /\ \A r \in Requests :
         pc[r] = "miss" /\ reads[r] = c /\ Apart(MissedOn(c) \cup {r})
           => found[r] = Cardinality(MissedOn(c))

MissInv == \A c \in stored : Counted(c)

Asking(r) == r \in stored \/ Forgetting(r)
Numbered(r) == r \in stored \/ pc[r] \in {"send", "commit"}

(* Rows are numbered apart, hold what was asked, and one is the latest.    *)
NumberInv ==
    /\ \A c \in stored : code[c].at = asked[c].at /\ code[c].id = asked[c].id
    /\ \A r \in Requests : Numbered(r) => asked[r].id < nextId
    /\ \A q, r \in Requests :
         q # r /\ Numbered(q) /\ Numbered(r) => asked[q].id # asked[r].id
    /\ \A r \in Requests : Asking(r) => asked[r].at <= now
    /\ stored # {} => \E c \in stored : Latest(c)

(* A request that found a stored code keeps its distance and retires it.   *)
SpacedInv ==
    \A q, r \in Requests :
        q # r /\ ~Overlap(q, r) /\ Asking(q) /\ Asking(r)
          => \/ asked[q].at + Cooldown <= asked[r].at
             \/ asked[r].at + Cooldown <= asked[q].at

RetiredInv ==
    \A q, r \in Requests :
        q # r /\ ~Overlap(q, r) /\ q \in stored
          => /\ pc[r] \in {"store", "send", "commit"} => code[q].used \/ q \in targets[r]
             /\ r \in stored => code[q].used \/ code[r].used

(* Among requests that did not overlap, a window has room for Limit.       *)
Spread(S) == \E c, d \in S : asked[c].at + Window < asked[d].at

WindowInv ==
    /\ IsFiniteSet(stored)
    /\ \A S \in SUBSET Requests :
         /\ IsFiniteSet(S) /\ Cardinality(S) > Limit
         /\ Apart(S) /\ \A r \in S : Asking(r)
         => Spread(S)

-----------------------------------------------------------------------------
(* Types *)

(* The initial state is well-typed.                                        *)
LEMMA InitType == Init => TypeOK
BY SettingsAssumption DEF Init, TypeOK, NewRow, Rows, Steps, Outcomes

(* A request goes on to a step, or ends in an outcome.                     *)
LEMMA Going ==
    ASSUME TypeOK, NEW r \in Requests, NEW step \in Steps, Go(r, step)
    PROVE  /\ pc' \in [Requests -> Steps] /\ pc'[r] = step
           /\ \A q \in Requests \ {r} : pc'[q] = pc[q]
BY DEF TypeOK, Go

LEMMA Finishing ==
    ASSUME TypeOK, NEW r \in Requests, NEW what \in Outcomes, Finish(r, what)
    PROVE  /\ pc' \in [Requests -> Steps] /\ pc'[r] = "over"
           /\ outcome' \in [Requests -> Outcomes] /\ outcome'[r] = what
           /\ \A q \in Requests \ {r} : pc'[q] = pc[q] /\ outcome'[q] = outcome[q]
<1>1. "over" \in Steps
  BY DEF Steps
<1> QED BY <1>1, Going DEF Finish, TypeOK

(* Every step keeps the types.                                             *)
LEMMA NextType ==
    ASSUME TypeOK, [Next]_vars
    PROVE  TypeOK'
<1> USE NoRequestAssumption DEF database, locals
<1>0. /\ {"new", "invalidate", "store", "send", "commit",
          "miss", "verify", "reset", "over"} = Steps
      /\ {"accepted", "coded", "invalid", "missed", "verified", "reset", "interrupted"}
            \subseteq Outcomes
  BY DEF Steps, Outcomes
<1>1. ASSUME NEW r \in Requests, NEW what \in Outcomes, Finish(r, what),
             mailed' \subseteq Requests, UNCHANGED <<now, database, locals>>
      PROVE  TypeOK'
  BY <1>1, Finishing DEF TypeOK
<1>2. ASSUME NEW r \in Requests, Ask(r) \/ Select(r) \/ Store(r)
      PROVE  TypeOK'
  <2>1. \E step \in {"invalidate", "store", "send"} : Go(r, step)
    BY <1>2 DEF Ask, Select, Store
  <2>2. /\ pc' \in [Requests -> Steps] /\ pc'[r] \in {"invalidate", "store", "send"}
        /\ \A q \in Requests \ {r} : pc'[q] = pc[q]
    BY <1>0, <2>1, Going
  <2>3. CASE Ask(r)
    BY <2>2, <2>3 DEF TypeOK, Ask, Observe
  <2>4. CASE Select(r)
    BY <2>2, <2>4 DEF TypeOK, Select
  <2>5. CASE Store(r)
    <3>1. /\ targets' = [targets EXCEPT ![r] = {c \in targets[r] : ~code[c].used}]
          /\ asked' = [asked EXCEPT ![r].id = nextId] /\ nextId' = nextId + 1
          /\ UNCHANGED <<now, stored, code, mailed, reads, found, outcome, during>>
      BY <2>5 DEF Store
    <3>2. asked' \in [Requests -> [at: Nat, id: Nat]]
      BY <3>1 DEF TypeOK
    <3> QED BY <2>2, <3>1, <3>2 DEF TypeOK
  <2> QED BY <1>2, <2>3, <2>4, <2>5
<1>3. ASSUME NEW r \in Requests, Send(r)
      PROVE  TypeOK'
  BY <1>0, <1>3, Going DEF TypeOK, Send
<1>4. ASSUME NEW r \in Requests, Commit(r)
      PROVE  TypeOK'
  <2>1. code' \in [Requests -> Rows]
    <3>1. asked[r].at \in Nat /\ asked[r].id \in Nat /\ \A c \in Requests : code[c] \in Rows
      BY DEF TypeOK
    <3>2. NewRow(asked[r].at, asked[r].id) \in Rows
      BY <3>1 DEF NewRow, Rows
    <3>3. \A c \in Requests : [code[c] EXCEPT !.used = TRUE] \in Rows
      BY <3>1 DEF Rows
    <3> QED BY <1>4, <3>1, <3>2, <3>3 DEF Commit
  <2>2. Finish(r, "coded")
    BY <1>4 DEF Commit
  <2>3. /\ pc' \in [Requests -> Steps] /\ pc'[r] = "over"
        /\ outcome' \in [Requests -> Outcomes]
        /\ \A q \in Requests \ {r} : pc'[q] = pc[q]
    BY <1>0, <2>2, Finishing
  <2>4. stored' = stored \cup {r} /\ UNCHANGED <<now, nextId, mailed, locals>>
    BY <1>4 DEF Commit
  <2>5. \A q \in Requests :
          /\ targets'[q] \subseteq stored'
          /\ reads'[q] # NoRequest => reads'[q] \in stored'
          /\ pc'[q] \in {"miss", "verify", "reset"} => reads'[q] # NoRequest
    BY <2>3, <2>4 DEF TypeOK
  <2> QED BY <2>1, <2>3, <2>4, <2>5 DEF TypeOK
<1>5. ASSUME NEW r \in Requests, NEW c \in Requests,
             ReadWrong(r, c) \/ ReadToVerify(r, c) \/ ReadToReset(r, c)
      PROVE  TypeOK'
  <2>1. c \in stored /\ code[c].misses \in Nat /\ Read(r, c)
    BY <1>5 DEF TypeOK, ReadWrong, ReadToVerify, ReadToReset, Read, Usable, Latest, Rows
  <2>2. \/ (\E step \in {"miss", "verify", "reset"} : Go(r, step)) /\ UNCHANGED outcome
        \/ \E what \in {"verified", "invalid"} : Finish(r, what)
    BY <1>5 DEF ReadWrong, ReadToVerify, ReadToReset
  <2>3. /\ pc' \in [Requests -> Steps] /\ outcome' \in [Requests -> Outcomes]
        /\ \A q \in Requests \ {r} : pc'[q] = pc[q]
    BY <1>0, <2>2, Going, Finishing DEF TypeOK
  <2>4. /\ reads' = [reads EXCEPT ![r] = c]
        /\ found' = [found EXCEPT ![r] = code[c].misses]
        /\ during' = [during EXCEPT ![r] = {q \in Requests \ {r} : InFlight(q)}]
        /\ UNCHANGED <<now, database, mailed, asked, targets>>
    BY <2>1 DEF Read, Observe
  <2>5. \A q \in Requests :
          /\ targets'[q] \subseteq stored'
          /\ reads'[q] # NoRequest => reads'[q] \in stored'
          /\ pc'[q] \in {"miss", "verify", "reset"} => reads'[q] # NoRequest
    BY <2>1, <2>3, <2>4 DEF TypeOK
  <2> QED BY <2>1, <2>3, <2>4, <2>5 DEF TypeOK
<1>6. ASSUME NEW r \in Requests, Miss(r) \/ MarkVerified(r) \/ Consume(r)
      PROVE  TypeOK'
  <2>1. reads[r] \in Requests
    BY <1>6 DEF TypeOK, Miss, MarkVerified, Consume
  <2>2. code' \in [Requests -> Rows]
    <3>1. code[reads[r]] \in Rows /\ found[r] + 1 \in Nat
      BY <2>1 DEF TypeOK
    <3>2. /\ [code[reads[r]] EXCEPT !.misses = found[r] + 1] \in Rows
          /\ [code[reads[r]] EXCEPT !.verified = TRUE] \in Rows
          /\ [code[reads[r]] EXCEPT !.used = TRUE] \in Rows
      BY <3>1 DEF Rows
    <3>3. \E row \in Rows : code' = [code EXCEPT ![reads[r]] = row]
      BY <1>6, <3>2 DEF Miss, MarkVerified, Consume
    <3> QED BY <2>1, <3>3 DEF TypeOK
  <2>3. \E what \in {"missed", "verified", "reset"} : Finish(r, what)
    BY <1>6 DEF Miss, MarkVerified, Consume
  <2>4. UNCHANGED <<now, stored, nextId, mailed, locals>>
    BY <1>6 DEF Miss, MarkVerified, Consume
  <2> QED BY <1>0, <2>2, <2>3, <2>4, Finishing DEF TypeOK
<1>7. CASE Tick
  BY <1>7, SettingsAssumption DEF TypeOK, Tick
<1>8. CASE UNCHANGED vars
  BY <1>8 DEF TypeOK, vars
<1>9. ASSUME NEW r \in Requests,
             \/ Unavailable(r) \/ AskedTooMuch(r) \/ ReadNone(r)
             \/ DeliveryFails(r) \/ Interrupt(r)
      PROVE  TypeOK'
  <2>1. \E what \in {"accepted", "invalid", "interrupted"} : Finish(r, what)
    BY <1>9 DEF Unavailable, AskedTooMuch, ReadNone, DeliveryFails, Interrupt
  <2>2. mailed' \subseteq Requests /\ UNCHANGED <<now, database, locals>>
    BY <1>9 DEF TypeOK, Unavailable, AskedTooMuch, ReadNone, DeliveryFails, Interrupt
  <2> QED BY <1>0, <1>1, <2>1, <2>2
<1> QED BY <1>2, <1>3, <1>4, <1>5, <1>6, <1>7, <1>8, <1>9 DEF Next

(* Every variable of password recovery keeps its type: a request writes    *)
(* only to a code that was read as stored.                                 *)
THEOREM TypeCorrect == Spec => []TypeOK
BY InitType, NextType, PTL DEF Spec

-----------------------------------------------------------------------------
(* Phases and overlap *)

(* Nothing is under way and no code is stored at the start.                *)
LEMMA InitPhase == Init => PhaseInv /\ FlightInv /\ ReuseInv /\ MissInv /\ OnlyCodeRetiresCode
BY DEF Init, PhaseInv, FlightInv, ReuseInv, MissInv, OnlyCodeRetiresCode, InFlight, Resetting

(* Every step keeps the agreement of the phases.                           *)
LEMMA NextPhase ==
    ASSUME TypeOK, PhaseInv, [Next]_vars
    PROVE  PhaseInv'
<1> USE NoRequestAssumption DEF TypeOK, PhaseInv, database, locals
<1>1. ASSUME NEW r \in Requests, Unavailable(r) \/ AskedTooMuch(r) \/ ReadNone(r)
      PROVE  PhaseInv'
  BY <1>1 DEF Unavailable, AskedTooMuch, ReadNone, Finish, Go
<1>2. ASSUME NEW r \in Requests, Ask(r) \/ Select(r) \/ Store(r)
      PROVE  PhaseInv'
  BY <1>2 DEF Ask, Select, Store, Observe, Go
<1>3. ASSUME NEW r \in Requests, Send(r) \/ DeliveryFails(r) \/ Interrupt(r)
      PROVE  PhaseInv'
  BY <1>3 DEF Send, DeliveryFails, Interrupt, InFlight, Finish, Go
<1>4. ASSUME NEW r \in Requests, Commit(r)
      PROVE  PhaseInv'
  BY <1>4 DEF Commit, Finish, Go
<1>5. ASSUME NEW r \in Requests, NEW c \in Requests,
             ReadWrong(r, c) \/ ReadToVerify(r, c) \/ ReadToReset(r, c)
      PROVE  PhaseInv'
  BY <1>5 DEF ReadWrong, ReadToVerify, ReadToReset, Read, Observe, Finish, Go
<1>6. ASSUME NEW r \in Requests, Miss(r) \/ MarkVerified(r) \/ Consume(r)
      PROVE  PhaseInv'
  BY <1>6 DEF Miss, MarkVerified, Consume, Finish, Go
<1>7. CASE Tick \/ UNCHANGED vars
  BY <1>7 DEF Tick, vars
<1> QED BY <1>1, <1>2, <1>3, <1>4, <1>5, <1>6, <1>7 DEF Next

(* What a step does to the requests: one of them moves; it looks around    *)
(* when it leaves "new", and never again.                                  *)
LEMMA Moves ==
    ASSUME TypeOK, PhaseInv, [Next]_vars
    PROVE  \/ UNCHANGED <<pc, during, outcome, reads>>
           \/ \E r \in Requests :
                /\ pc[r] # "over"
                /\ \A q \in Requests \ {r} :
                     /\ pc'[q] = pc[q] /\ during'[q] = during[q]
                     /\ outcome'[q] = outcome[q] /\ reads'[q] = reads[q]
                /\ \/ pc[r] # "new" /\ during' = during /\ reads' = reads
                   \/ pc[r] = "new" /\ during'[r] = {q \in Requests \ {r} : InFlight(q)}
                   \/ pc[r] = "new" /\ pc'[r] = "over" /\ during' = during /\ reads' = reads
<1> USE DEF TypeOK, PhaseInv, database, locals
<1>1. ASSUME NEW r \in Requests, Unavailable(r) \/ AskedTooMuch(r) \/ ReadNone(r)
      PROVE  /\ pc[r] = "new" /\ pc'[r] = "over" /\ UNCHANGED <<during, reads>>
             /\ \A q \in Requests \ {r} : pc'[q] = pc[q] /\ outcome'[q] = outcome[q]
  BY <1>1 DEF Unavailable, AskedTooMuch, ReadNone, Finish, Go
<1>2. ASSUME NEW r \in Requests, Ask(r)
      PROVE  /\ pc[r] = "new" /\ UNCHANGED <<outcome, reads>>
             /\ during'[r] = {q \in Requests \ {r} : InFlight(q)}
             /\ \A q \in Requests \ {r} : pc'[q] = pc[q] /\ during'[q] = during[q]
  BY <1>2 DEF Ask, Observe, Go
<1>3. ASSUME NEW r \in Requests,
             \/ Select(r) \/ Store(r) \/ Send(r) \/ DeliveryFails(r) \/ Commit(r)
             \/ Miss(r) \/ MarkVerified(r) \/ Consume(r) \/ Interrupt(r)
      PROVE  /\ pc[r] \notin {"new", "over"} /\ UNCHANGED <<during, reads>>
             /\ \A q \in Requests \ {r} : pc'[q] = pc[q] /\ outcome'[q] = outcome[q]
  BY <1>3 DEF Select, Store, Send, DeliveryFails, Commit, Miss, MarkVerified, Consume,
              Interrupt, InFlight, Finish, Go
<1>4. ASSUME NEW r \in Requests, NEW c \in Requests,
             ReadWrong(r, c) \/ ReadToVerify(r, c) \/ ReadToReset(r, c)
      PROVE  /\ pc[r] = "new"
             /\ during'[r] = {q \in Requests \ {r} : InFlight(q)}
             /\ \A q \in Requests \ {r} :
                  /\ pc'[q] = pc[q] /\ during'[q] = during[q]
                  /\ outcome'[q] = outcome[q] /\ reads'[q] = reads[q]
  BY <1>4 DEF ReadWrong, ReadToVerify, ReadToReset, Read, Observe, Finish, Go
<1>5. CASE Tick \/ UNCHANGED vars
  BY <1>5 DEF Tick, vars
<1> QED BY ZenonT(30), <1>1, <1>2, <1>3, <1>4, <1>5 DEF Next

(* Overlap is for ever, and requests under way at one time overlap.        *)
LEMMA NextFlight ==
    ASSUME TypeOK, PhaseInv, FlightInv, [Next]_vars
    PROVE  /\ FlightInv'
           /\ \A q, r \in Requests : Overlap(q, r) => Overlap(q, r)'
<1>1. CASE UNCHANGED <<pc, during, outcome, reads>>
  BY <1>1 DEF FlightInv, InFlight, Overlap
<1>2. ASSUME NEW r \in Requests, pc[r] # "over",
             \A q \in Requests \ {r} : pc'[q] = pc[q] /\ during'[q] = during[q],
             \/ pc[r] # "new" /\ during' = during
             \/ pc[r] = "new" /\ during'[r] = {q \in Requests \ {r} : InFlight(q)}
             \/ pc[r] = "new" /\ pc'[r] = "over" /\ during' = during
      PROVE  /\ FlightInv'
             /\ \A p, q \in Requests : Overlap(p, q) => Overlap(p, q)'
  BY <1>2 DEF FlightInv, PhaseInv, InFlight, Overlap
<1> QED BY <1>1, <1>2, Moves

-----------------------------------------------------------------------------
(* Codes that were spent *)

(* An UPDATE of one column leaves the others alone.                        *)
LEMMA MissedColumn ==
    ASSUME NEW row \in Rows, NEW n, NEW new, new = [row EXCEPT !.misses = n]
    PROVE  new.at = row.at /\ new.id = row.id /\ new.used = row.used
BY DEF Rows

LEMMA VerifiedColumn ==
    ASSUME NEW row \in Rows, NEW new, new = [row EXCEPT !.verified = TRUE]
    PROVE  /\ new.at = row.at /\ new.id = row.id
           /\ new.used = row.used /\ new.misses = row.misses
BY DEF Rows

LEMMA UsedColumn ==
    ASSUME NEW row \in Rows, NEW new, new = [row EXCEPT !.used = TRUE]
    PROVE  new.at = row.at /\ new.id = row.id /\ new.used /\ new.misses = row.misses
BY DEF Rows

(* A stored code stays as it was sent, and stays used.                     *)
LEMMA UsedStays ==
    ASSUME TypeOK, PhaseInv, [Next]_vars
    PROVE  \A c \in stored : /\ c \in stored'
                             /\ code'[c].at = code[c].at /\ code'[c].id = code[c].id
                             /\ code[c].used => code'[c].used
<1> USE DEF database, locals
<1>0. stored \subseteq Requests /\ \A c \in stored : code[c] \in Rows
  BY DEF TypeOK
<1>1. CASE UNCHANGED <<stored, code>>
  BY <1>1
<1>2. ASSUME NEW r \in Requests, Commit(r)
      PROVE  /\ stored \subseteq stored'
             /\ \A c \in stored :
                  code'[c] = code[c] \/ code'[c] = [code[c] EXCEPT !.used = TRUE]
  BY <1>0, <1>2 DEF Commit, PhaseInv
<1>3. ASSUME NEW r \in Requests, Miss(r) \/ MarkVerified(r) \/ Consume(r)
      PROVE  /\ stored' = stored
             /\ \A c \in stored : \/ code'[c] = code[c]
                                  \/ code'[c] = [code[c] EXCEPT !.misses = found[r] + 1]
                                  \/ code'[c] = [code[c] EXCEPT !.verified = TRUE]
                                  \/ code'[c] = [code[c] EXCEPT !.used = TRUE]
  BY <1>0, <1>3 DEF Miss, MarkVerified, Consume, TypeOK
<1>4. ASSUME NEW r \in Requests, Commit(r) \/ Miss(r) \/ MarkVerified(r) \/ Consume(r)
      PROVE  \A c \in stored : /\ c \in stored'
                               /\ code'[c].at = code[c].at /\ code'[c].id = code[c].id
                               /\ code[c].used => code'[c].used
  <2> TAKE c \in stored
  <2>0. c \in stored'
    BY <1>2, <1>3, <1>4
  <2>1. CASE code'[c] = [code[c] EXCEPT !.misses = found[r] + 1]
    BY <1>0, <2>0, <2>1, MissedColumn
  <2>2. CASE code'[c] = [code[c] EXCEPT !.verified = TRUE]
    BY <1>0, <2>0, <2>2, VerifiedColumn
  <2>3. CASE code'[c] = [code[c] EXCEPT !.used = TRUE]
    BY <1>0, <2>0, <2>3, UsedColumn
  <2> QED BY <1>2, <1>3, <1>4, <2>0, <2>1, <2>2, <2>3
<1>5. ASSUME NEW r \in Requests,
             \/ Unavailable(r) \/ Ask(r) \/ AskedTooMuch(r) \/ Select(r) \/ Store(r)
             \/ Send(r) \/ DeliveryFails(r) \/ ReadNone(r) \/ Interrupt(r)
             \/ \E c \in Requests : ReadWrong(r, c) \/ ReadToVerify(r, c) \/ ReadToReset(r, c)
      PROVE  UNCHANGED <<stored, code>>
  BY <1>5 DEF Unavailable, Ask, AskedTooMuch, Select, Store, Send, DeliveryFails, ReadNone,
              Interrupt, ReadWrong, ReadToVerify, ReadToReset, Read
<1>6. CASE Tick \/ UNCHANGED vars
  BY <1>6 DEF Tick, vars
<1> QED BY <1>1, <1>4, <1>5, <1>6 DEF Next

(* What a step does to the requests that reset the password.               *)
LEMMA NextReuse ==
    ASSUME TypeOK, PhaseInv, FlightInv, ReuseInv, [Next]_vars
    PROVE  ReuseInv'
<1> USE DEF database, locals
<1>1. \A q, r \in Requests : Overlap(q, r) => Overlap(q, r)'
  BY NextFlight
<1>2. \A r \in Requests : outcome[r] = "reset" => code'[reads[r]].used
  BY UsedStays DEF TypeOK, PhaseInv, ReuseInv
<1>3. ASSUME NEW r \in Requests, NEW c \in Requests, ReadToReset(r, c)
      PROVE  ReuseInv'
  <2>1. /\ pc[r] = "new" /\ reads' = [reads EXCEPT ![r] = c] /\ ~code[c].used
        /\ during'[r] = {q \in Requests \ {r} : InFlight(q)}
        /\ outcome'[r] # "reset"
        /\ \A q \in Requests \ {r} : outcome'[q] = outcome[q] /\ pc'[q] = pc[q]
    BY <1>3 DEF ReadToReset, Read, Usable, Observe, Finish, Go, TypeOK, PhaseInv
  <2>2. ASSUME NEW q \in Requests \ {r}, Resetting(q), reads[q] = c
        PROVE  Overlap(q, r)'
    <3>1. pc[q] = "reset"
      BY <2>1, <2>2 DEF Resetting, ReuseInv
    <3> QED BY <2>1, <3>1 DEF InFlight, Overlap
  <2>3. \A q \in Requests \ {r} : reads'[q] = reads[q] /\ (Resetting(q)' => Resetting(q))
    BY <2>1 DEF Resetting, TypeOK
  <2>4. reads'[r] = c
    BY <2>1 DEF TypeOK
  <2>5. \A q \in Requests : outcome'[q] = "reset" => q # r /\ code'[reads'[q]].used
    BY <1>2, <2>1, <2>3
  <2>6. \A q \in Requests : Overlap(q, r)' <=> Overlap(r, q)'
    BY DEF Overlap
  <2> QED BY <1>1, <2>2, <2>3, <2>4, <2>5, <2>6 DEF ReuseInv
<1>4. ASSUME NEW r \in Requests, Consume(r)
      PROVE  ReuseInv'
  <2>1. /\ reads' = reads /\ Resetting(r) /\ code'[reads[r]].used
        /\ \A q \in Requests \ {r} : outcome'[q] = outcome[q] /\ pc'[q] = pc[q]
    BY <1>4 DEF Consume, Finish, Go, TypeOK, Resetting, Rows
  <2> QED BY <1>1, <1>2, <2>1 DEF ReuseInv, Resetting
<1>5. ASSUME \A q \in Requests : /\ Resetting(q)' => Resetting(q) /\ reads'[q] = reads[q]
                                 /\ outcome'[q] = "reset" => outcome[q] = "reset"
      PROVE  ReuseInv'
  BY <1>1, <1>2, <1>5 DEF ReuseInv, Resetting
<1>6. ASSUME NEW r \in Requests,
             \/ Unavailable(r) \/ Ask(r) \/ AskedTooMuch(r) \/ Select(r) \/ Store(r)
             \/ Send(r) \/ DeliveryFails(r) \/ Commit(r) \/ ReadNone(r)
             \/ Miss(r) \/ MarkVerified(r) \/ Interrupt(r)
      PROVE  ReuseInv'
  <2>1. reads' = reads
    BY <1>6 DEF Unavailable, Ask, AskedTooMuch, Select, Store, Send, DeliveryFails, Commit,
                ReadNone, Miss, MarkVerified, Interrupt
  <2>2. \A q \in Requests : /\ pc'[q] = "reset" => pc[q] = "reset"
                            /\ outcome'[q] = "reset" => outcome[q] = "reset"
    BY <1>6 DEF Unavailable, Ask, AskedTooMuch, Select, Store, Send, DeliveryFails, Commit,
                ReadNone, Miss, MarkVerified, Interrupt, Finish, Go, TypeOK
  <2> QED BY <1>5, <2>1, <2>2 DEF Resetting
<1>7. ASSUME NEW r \in Requests, NEW c \in Requests, ReadWrong(r, c) \/ ReadToVerify(r, c)
      PROVE  ReuseInv'
  <2>1. pc[r] = "new" /\ reads' = [reads EXCEPT ![r] = c]
    BY <1>7 DEF ReadWrong, ReadToVerify, Read
  <2>2. \A q \in Requests : /\ pc'[q] = "reset" => pc[q] = "reset"
                            /\ outcome'[q] = "reset" => outcome[q] = "reset"
    BY <1>7 DEF ReadWrong, ReadToVerify, Finish, Go, TypeOK
  <2>3. ~Resetting(r)
    BY <2>1 DEF PhaseInv, Resetting
  <2> QED BY <1>5, <2>1, <2>2, <2>3 DEF Resetting, TypeOK
<1>8. CASE Tick \/ UNCHANGED vars
  BY <1>5, <1>8 DEF Tick, vars, Resetting
<1> QED BY <1>3, <1>4, <1>6, <1>7, <1>8 DEF Next

(* What retired a stored code stays on record.                             *)
LEMMA NextRetired ==
    ASSUME TypeOK, PhaseInv, OnlyCodeRetiresCode, [Next]_vars
    PROVE  OnlyCodeRetiresCode'
<1> USE DEF database, locals
<1>1. \A r \in Requests : outcome[r] # "none" => outcome'[r] = outcome[r] /\ reads'[r] = reads[r]
  BY Moves DEF PhaseInv
<1>2. \A c \in Requests : ResetWith(c) \subseteq ResetWith(c)'
  BY <1>1 DEF ResetWith
<1>3. \A d \in stored : d \in stored' /\ targets'[d] = targets[d]
  <2>1. ASSUME NEW r \in Requests, Select(r) \/ Store(r)
        PROVE  pc[r] # "over" /\ \A d \in Requests \ {r} : targets'[d] = targets[d]
    BY <2>1 DEF Select, Store, TypeOK
  <2>2. ASSUME NEW r \in Requests,
               \/ Unavailable(r) \/ Ask(r) \/ AskedTooMuch(r)
               \/ Send(r) \/ DeliveryFails(r) \/ Commit(r) \/ ReadNone(r)
               \/ Miss(r) \/ MarkVerified(r) \/ Consume(r) \/ Interrupt(r)
               \/ \E c \in Requests : ReadWrong(r, c) \/ ReadToVerify(r, c) \/ ReadToReset(r, c)
        PROVE  targets' = targets
    BY <2>2 DEF Unavailable, Ask, AskedTooMuch, Send, DeliveryFails, Commit, ReadNone, Miss,
                MarkVerified, Consume, Interrupt, ReadWrong, ReadToVerify, ReadToReset, Read
  <2>3. CASE Tick \/ UNCHANGED vars
    BY <2>3, UsedStays DEF Tick, vars
  <2>4. \A d \in stored : pc[d] = "over"
    BY DEF PhaseInv, TypeOK
  <2> QED BY <2>1, <2>2, <2>3, <2>4, UsedStays DEF Next, TypeOK
<1>4. ASSUME NEW c \in stored, code[c].used
      PROVE  \/ ResetWith(c)' # {}
             \/ \E d \in stored' \ {c} : c \in targets'[d]
  BY <1>2, <1>3, <1>4 DEF OnlyCodeRetiresCode, TypeOK
<1>5. ASSUME NEW r \in Requests, Commit(r)
      PROVE  OnlyCodeRetiresCode'
  <2>1. /\ r \notin stored /\ stored' = stored \cup {r} /\ targets' = targets
        /\ ~code'[r].used
        /\ \A c \in stored : code'[c].used => code[c].used \/ c \in targets[r]
    BY <1>5 DEF Commit, PhaseInv, NewRow, TypeOK
  <2> QED BY <1>4, <2>1 DEF OnlyCodeRetiresCode
<1>6. ASSUME NEW r \in Requests, Consume(r)
      PROVE  OnlyCodeRetiresCode'
  <2>1. /\ stored' = stored /\ reads'[r] = reads[r] /\ outcome'[r] = "reset"
        /\ \A c \in stored : c # reads[r] => code'[c] = code[c]
    BY <1>6 DEF Consume, Finish, Go, TypeOK
  <2>2. ASSUME NEW c \in stored, c = reads[r]
        PROVE  ResetWith(c)' # {}
    BY <2>1, <2>2 DEF ResetWith
  <2> QED BY <1>4, <2>1, <2>2 DEF OnlyCodeRetiresCode
<1>7. ASSUME NEW r \in Requests, Miss(r) \/ MarkVerified(r)
      PROVE  OnlyCodeRetiresCode'
  <2>1. /\ stored' = stored
        /\ \A c \in stored : /\ code[c] \in Rows
                             /\ \/ code'[c] = code[c]
                                \/ code'[c] = [code[c] EXCEPT !.misses = found[r] + 1]
                                \/ code'[c] = [code[c] EXCEPT !.verified = TRUE]
    BY <1>7 DEF Miss, MarkVerified, TypeOK
  <2>2. ASSUME NEW c \in stored
        PROVE  code'[c].used = code[c].used
    <3>1. CASE code'[c] = [code[c] EXCEPT !.misses = found[r] + 1]
      BY <2>1, <3>1, MissedColumn
    <3>2. CASE code'[c] = [code[c] EXCEPT !.verified = TRUE]
      BY <2>1, <3>2, VerifiedColumn
    <3> QED BY <2>1, <3>1, <3>2
  <2> QED BY <1>4, <2>1, <2>2 DEF OnlyCodeRetiresCode
<1>8. CASE UNCHANGED <<stored, code>>
  BY <1>4, <1>8 DEF OnlyCodeRetiresCode
<1>9. ASSUME NEW r \in Requests,
             \/ Unavailable(r) \/ Ask(r) \/ AskedTooMuch(r) \/ Select(r) \/ Store(r)
             \/ Send(r) \/ DeliveryFails(r) \/ ReadNone(r) \/ Interrupt(r)
             \/ \E c \in Requests : ReadWrong(r, c) \/ ReadToVerify(r, c) \/ ReadToReset(r, c)
      PROVE  UNCHANGED <<stored, code>>
  BY <1>9 DEF Unavailable, Ask, AskedTooMuch, Select, Store, Send, DeliveryFails, ReadNone,
              Interrupt, ReadWrong, ReadToVerify, ReadToReset, Read
<1>10. CASE Tick \/ UNCHANGED vars
  BY <1>8, <1>10 DEF Tick, vars
<1> QED BY <1>5, <1>6, <1>7, <1>8, <1>9, <1>10 DEF Next

(* Mistaken entries of a code that did not overlap were counted one by one. *)
LEMMA NextMiss ==
    ASSUME TypeOK, PhaseInv, FlightInv, MissInv, [Next]_vars
    PROVE  MissInv'
<1> USE DEF database, locals
<1>1. ASSUME NEW S \in SUBSET Requests, Apart(S)'
      PROVE  Apart(S)
  BY <1>1, NextFlight DEF Apart
<1>2. \A c \in Requests : MissedOn(c) \subseteq Requests
  BY DEF MissedOn
<1>3. ASSUME NEW c \in stored, Counted(c), code'[c].misses = code[c].misses,
             \A q \in Requests : /\ outcome'[q] = "missed" <=> outcome[q] = "missed"
                                 /\ outcome[q] = "missed" => reads'[q] = reads[q]
                                 /\ pc'[q] = "miss" => /\ pc[q] = "miss"
                                                       /\ reads'[q] = reads[q]
                                                       /\ found'[q] = found[q]
      PROVE  Counted(c)'
  <2>1. MissedOn(c)' = MissedOn(c)
    BY <1>3 DEF MissedOn
  <2>2. \A q \in Requests : Apart(MissedOn(c) \cup {q})' => Apart(MissedOn(c) \cup {q})
    BY ZenonT(30), <1>1, <1>2, <2>1 DEF TypeOK, Apart
  <2>3. Apart(MissedOn(c))' => Apart(MissedOn(c))
    BY <1>1, <1>2, <2>1 DEF TypeOK, Apart
  <2> QED BY <1>3, <2>1, <2>2, <2>3 DEF Counted
<1>4. ASSUME NEW r \in Requests,
             \/ Unavailable(r) \/ Ask(r) \/ AskedTooMuch(r) \/ Select(r) \/ Store(r)
             \/ Send(r) \/ DeliveryFails(r) \/ ReadNone(r)
             \/ MarkVerified(r) \/ Consume(r) \/ Interrupt(r)
      PROVE  MissInv'
  <2>1. stored' = stored /\ reads' = reads /\ found' = found
    BY <1>4 DEF Unavailable, Ask, AskedTooMuch, Select, Store, Send, DeliveryFails,
                ReadNone, MarkVerified, Consume, Interrupt
  <2>2. \A q \in Requests : /\ pc'[q] = "miss" => pc[q] = "miss"
                            /\ outcome'[q] = "missed" <=> outcome[q] = "missed"
    BY <1>4 DEF Unavailable, Ask, AskedTooMuch, Select, Store, Send, DeliveryFails,
                ReadNone, MarkVerified, Consume, Interrupt, InFlight, Finish, Go,
                TypeOK, PhaseInv
  <2>3. ASSUME NEW c \in stored
        PROVE  code'[c].misses = code[c].misses
    <3>1. /\ code[c] \in Rows
          /\ \/ code'[c] = code[c]
             \/ code'[c] = [code[c] EXCEPT !.verified = TRUE]
             \/ code'[c] = [code[c] EXCEPT !.used = TRUE]
      BY <1>4 DEF Unavailable, Ask, AskedTooMuch, Select, Store, Send, DeliveryFails,
                  ReadNone, MarkVerified, Consume, Interrupt, TypeOK
    <3>2. CASE code'[c] = [code[c] EXCEPT !.verified = TRUE]
      BY <3>1, <3>2, VerifiedColumn
    <3>3. CASE code'[c] = [code[c] EXCEPT !.used = TRUE]
      BY <3>1, <3>3, UsedColumn
    <3> QED BY <3>1, <3>2, <3>3
  <2> QED BY <1>3, <2>1, <2>2, <2>3 DEF MissInv
<1>5. ASSUME NEW r \in Requests, Commit(r)
      PROVE  MissInv'
  <2>1. /\ stored' = stored \cup {r} /\ r \notin stored
        /\ reads' = reads /\ found' = found /\ code'[r] = NewRow(asked[r].at, asked[r].id)
    BY <1>5 DEF Commit, TypeOK, PhaseInv
  <2>2. \A q \in Requests : /\ pc'[q] = "miss" => pc[q] = "miss"
                            /\ outcome'[q] = "missed" <=> outcome[q] = "missed"
    BY <1>5 DEF Commit, Finish, Go, TypeOK, PhaseInv
  <2>3. ASSUME NEW c \in stored
        PROVE  code'[c].misses = code[c].misses
    <3>1. /\ code[c] \in Rows
          /\ code'[c] = code[c] \/ code'[c] = [code[c] EXCEPT !.used = TRUE]
      BY <1>5, <2>1 DEF Commit, TypeOK
    <3> QED BY <3>1, UsedColumn
  <2>4. Counted(r)'
    <3>1. \A q \in Requests : reads'[q] # r
      BY <2>1, NoRequestAssumption DEF TypeOK
    <3>2. MissedOn(r)' = {}
      BY <3>1 DEF MissedOn
    <3>3. code'[r].misses = 0
      BY <2>1 DEF NewRow
    <3> QED BY <3>1, <3>2, <3>3, FS_EmptySet DEF Counted
  <2> QED BY <1>3, <2>1, <2>2, <2>3, <2>4 DEF MissInv
<1>6. ASSUME NEW r \in Requests, NEW d \in Requests,
             ReadWrong(r, d) \/ ReadToVerify(r, d) \/ ReadToReset(r, d)
      PROVE  MissInv'
  <2>1. /\ pc[r] = "new" /\ UNCHANGED <<stored, code>>
        /\ reads'[r] = d /\ found'[r] = code[d].misses
        /\ \A q \in Requests \ {r} : reads'[q] = reads[q] /\ found'[q] = found[q]
    BY <1>6 DEF ReadWrong, ReadToVerify, ReadToReset, Read, TypeOK
  <2>2. /\ \A q \in Requests : outcome'[q] = "missed" <=> outcome[q] = "missed"
        /\ outcome[r] # "missed"
        /\ \A q \in Requests \ {r} : pc'[q] = pc[q]
    BY <1>6 DEF ReadWrong, ReadToVerify, ReadToReset, Read, Finish, Go, TypeOK, PhaseInv
  <2>3. ASSUME NEW c \in stored
        PROVE  Counted(c)'
    <3>1. MissedOn(c)' = MissedOn(c)
      BY <2>1, <2>2 DEF MissedOn
    <3>2. \A q \in Requests : Apart(MissedOn(c) \cup {q})' => Apart(MissedOn(c) \cup {q})
      BY <1>1, <1>2, <3>1 DEF TypeOK, Apart
    <3>3. Apart(MissedOn(c))' => Apart(MissedOn(c))
      BY <1>1, <1>2, <3>1 DEF TypeOK, Apart
    <3>4. Apart(MissedOn(c) \cup {r}) => Apart(MissedOn(c))
      BY DEF Apart
    <3>5. Counted(c)
      BY DEF MissInv
    <3>6. \A q \in Requests :
            (pc[q] = "miss" /\ reads[q] = c /\ Apart(MissedOn(c) \cup {q})
               => found[q] = Cardinality(MissedOn(c)))
            /\ (Apart(MissedOn(c)) => code[c].misses = Cardinality(MissedOn(c)))
      BY <3>5 DEF Counted
    <3>7. ASSUME NEW q \in Requests, pc'[q] = "miss", reads'[q] = c,
                 Apart(MissedOn(c) \cup {q})'
          PROVE  found'[q] = Cardinality(MissedOn(c))
      <4>1. CASE q = r
        BY <2>1, <3>2, <3>4, <3>6, <3>7, <4>1
      <4>2. CASE q # r
        BY <2>1, <2>2, <3>2, <3>6, <3>7, <4>2
      <4> QED BY <4>1, <4>2
    <3>8. code'[c].misses = code[c].misses /\ IsFiniteSet(MissedOn(c))
      BY <2>1, <3>5 DEF Counted
    <3> QED BY <3>1, <3>3, <3>6, <3>7, <3>8 DEF Counted
  <2> QED BY <2>1, <2>3 DEF MissInv
<1>7. ASSUME NEW r \in Requests, Miss(r)
      PROVE  MissInv'
  <2>1. /\ pc[r] = "miss" /\ stored' = stored /\ reads' = reads /\ found' = found
        /\ reads[r] \in stored /\ code'[reads[r]].misses = found[r] + 1
        /\ \A c \in stored : c # reads[r] => code'[c] = code[c]
        /\ \A q \in Requests \ {r} : outcome'[q] = outcome[q] /\ pc'[q] = pc[q]
        /\ outcome[r] # "missed" /\ outcome'[r] = "missed" /\ pc'[r] = "over"
    <3>1. reads[r] \in stored /\ code[reads[r]] \in Rows
      BY <1>7 DEF Miss, TypeOK
    <3> QED BY <1>7, <3>1 DEF Miss, Finish, Go, TypeOK, PhaseInv, Rows
  <2> DEFINE c == reads[r]
             M == MissedOn(c)
  <2>2. ASSUME NEW d \in stored, d # c
        PROVE  Counted(d)'
    <3>1. MissedOn(d)' = MissedOn(d)
      BY <2>1, <2>2 DEF MissedOn
    <3>2. \A q \in Requests : Apart(MissedOn(d) \cup {q})' => Apart(MissedOn(d) \cup {q})
      BY <1>1, <1>2, <3>1 DEF TypeOK, Apart
    <3>3. Apart(MissedOn(d))' => Apart(MissedOn(d))
      BY <1>1, <1>2, <3>1 DEF TypeOK, Apart
    <3> QED BY <2>1, <2>2, <3>1, <3>2, <3>3 DEF Counted, MissInv
  <2>3. M' = M \cup {r} /\ r \notin M
    BY <2>1 DEF MissedOn
  <2>4. IsFiniteSet(M) /\ IsFiniteSet(M') /\ Cardinality(M') = Cardinality(M) + 1
    BY <2>1, <2>3, FS_AddElement DEF MissInv, Counted
  <2>5. Apart(M)' => Apart(M \cup {r})
    <3>1. \A S \in SUBSET Requests : Apart(S)' => Apart(S)
      BY <1>1
    <3>2. M' \in SUBSET Requests /\ M \cup {r} = M'
      BY <2>3 DEF MissedOn
    <3>3. Apart(M)' => \A p, q \in M' : p # q => ~Overlap(p, q)'
      BY DEF Apart
    <3> HIDE DEF M
    <3> QED BY <3>1, <3>2, <3>3 DEF Apart
  <2>6. ASSUME NEW q \in Requests, pc'[q] = "miss"
        PROVE  ~Apart(M \cup {q})'
    <3>1. q # r /\ InFlight(q) /\ InFlight(r)
      BY <2>1, <2>6 DEF InFlight
    <3>2. Overlap(q, r)'
      BY <3>1, NextFlight DEF FlightInv
    <3> QED BY <2>3, <3>1, <3>2 DEF Apart
  <2>7. Apart(M)' => code'[c].misses = Cardinality(M')
    BY <2>1, <2>4, <2>5 DEF MissInv, Counted
  <2>8. Counted(c)'
    BY <2>1, <2>4, <2>6, <2>7 DEF Counted
  <2> QED BY <2>1, <2>2, <2>8 DEF MissInv
<1>8. CASE Tick \/ UNCHANGED vars
  BY <1>3, <1>8 DEF Tick, vars, MissInv
<1> QED BY <1>4, <1>5, <1>6, <1>7, <1>8 DEF Next

-----------------------------------------------------------------------------
(* Codes one after the other *)

(* Nobody has asked for a code at the start.                               *)
LEMMA InitSpaced == Init => NumberInv /\ SpacedInv /\ RetiredInv /\ WindowInv
<1> SUFFICES ASSUME Init
             PROVE  NumberInv /\ SpacedInv /\ RetiredInv /\ WindowInv
  OBVIOUS
<1>1. /\ stored = {}
      /\ \A r \in Requests : pc[r] = "new" /\ ~Asking(r) /\ ~Numbered(r)
  BY DEF Init, Asking, Forgetting, Numbered
<1>2. NumberInv /\ SpacedInv /\ RetiredInv
  BY <1>1 DEF NumberInv, SpacedInv, RetiredInv
<1>3. WindowInv
  <2>1. ASSUME NEW S \in SUBSET Requests, IsFiniteSet(S), Cardinality(S) > Limit,
               \A r \in S : Asking(r)
        PROVE  FALSE
    <3>1. S = {}
      BY <1>1, <2>1
    <3> QED BY <2>1, <3>1, FS_EmptySet, SettingsAssumption
  <2> QED BY <1>1, <2>1, FS_EmptySet DEF WindowInv
<1> QED BY <1>2, <1>3

(* What a step does to the requests for a code: one begins, or none does.  *)
LEMMA Askers ==
    ASSUME TypeOK, PhaseInv, [Next]_vars
    PROVE  /\ now' >= now
           /\ \A q \in Requests : Asking(q) => asked'[q].at = asked[q].at
           /\ \/ \E r \in Requests : Ask(r)
              \/ \A q \in Requests : Asking(q)' => Asking(q)
<1> USE DEF database, locals
<1>0. now \in Nat /\ \A r \in stored : pc[r] = "over"
  BY SettingsAssumption DEF TypeOK, PhaseInv
<1>1. ASSUME NEW r \in Requests, Ask(r)
      PROVE  now' = now /\ \A q \in Requests : Asking(q) => asked'[q].at = asked[q].at
  <2>1. /\ now' = now /\ ~Asking(r)
        /\ \A q \in Requests \ {r} : asked'[q] = asked[q]
    BY <1>0, <1>1 DEF Ask, Asking, Forgetting, TypeOK
  <2> QED BY <2>1
<1>2. ASSUME NEW r \in Requests, Store(r)
      PROVE  /\ now' = now /\ stored' = stored
             /\ \A q \in Requests : asked'[q].at = asked[q].at
             /\ pc[r] = "store" /\ \A q \in Requests \ {r} : pc'[q] = pc[q]
  <2>1. /\ now' = now /\ stored' = stored /\ pc[r] = "store"
        /\ \A q \in Requests \ {r} : pc'[q] = pc[q] /\ asked'[q] = asked[q]
        /\ asked'[r] = [asked[r] EXCEPT !.id = nextId]
    BY <1>2 DEF Store, Go, TypeOK
  <2>2. asked[r] \in [at: Nat, id: Nat]
    BY DEF TypeOK
  <2>3. asked'[r].at = asked[r].at
    BY <2>1, <2>2
  <2> QED BY <2>1, <2>3
<1>3. ASSUME NEW r \in Requests,
             \/ Unavailable(r) \/ AskedTooMuch(r) \/ Select(r)
             \/ Send(r) \/ DeliveryFails(r) \/ ReadNone(r)
             \/ Miss(r) \/ MarkVerified(r) \/ Consume(r) \/ Interrupt(r)
             \/ \E c \in Requests : ReadWrong(r, c) \/ ReadToVerify(r, c) \/ ReadToReset(r, c)
      PROVE  /\ now' = now /\ stored' = stored /\ asked' = asked
             /\ \A q \in Requests : Forgetting(q)' => Forgetting(q)
  <2>1. now' = now /\ stored' = stored /\ asked' = asked
    BY <1>3 DEF Unavailable, AskedTooMuch, Select, Send, DeliveryFails, ReadNone, Miss,
                MarkVerified, Consume, Interrupt, ReadWrong, ReadToVerify, ReadToReset, Read
  <2>2. \A q \in Requests : Forgetting(q)' => Forgetting(q)
    BY <1>3 DEF Unavailable, AskedTooMuch, Select, Send, DeliveryFails, ReadNone, Miss,
                MarkVerified, Consume, Interrupt, ReadWrong, ReadToVerify, ReadToReset,
                Finish, Go, Forgetting, TypeOK
  <2> QED BY <2>1, <2>2
<1>4. ASSUME NEW r \in Requests, Commit(r)
      PROVE  /\ now' = now /\ asked' = asked /\ stored' = stored \cup {r}
             /\ pc[r] = "commit" /\ \A q \in Requests : Forgetting(q)' => Forgetting(q)
  BY <1>4 DEF Commit, Finish, Go, Forgetting, TypeOK
<1>5. CASE Tick \/ UNCHANGED vars
  BY <1>0, <1>5 DEF Tick, vars, Asking, Forgetting
<1> QED BY <1>0, <1>1, <1>2, <1>3, <1>4, <1>5 DEF Next, Asking, Forgetting

(* Every request that begins looks at all that are under way.              *)
LEMMA AskSees ==
    ASSUME TypeOK, PhaseInv, NEW r \in Requests, Ask(r)
    PROVE  /\ ~Asking(r) /\ asked'[r].at = now /\ stored' = stored /\ code' = code
           /\ \A q \in Requests \ {r} : /\ Asking(q)' <=> Asking(q)
                                        /\ asked'[q] = asked[q]
                                        /\ ~Overlap(q, r)' => ~Forgetting(q)
<1>1. /\ pc[r] = "new" /\ stored' = stored /\ code' = code
      /\ asked' = [asked EXCEPT ![r].at = now]
      /\ during'[r] = {q \in Requests \ {r} : InFlight(q)}
      /\ \A q \in Requests \ {r} : pc'[q] = pc[q]
  BY DEF Ask, Go, Observe, TypeOK, database
<1>2. /\ \A q \in Requests \ {r} : asked'[q] = asked[q]
      /\ asked'[r] = [asked[r] EXCEPT !.at = now]
  BY <1>1 DEF TypeOK
<1>3. asked[r] \in [at: Nat, id: Nat]
  BY DEF TypeOK
<1>4. asked'[r].at = now
  BY <1>2, <1>3
<1> QED BY <1>1, <1>2, <1>4 DEF Asking, Forgetting, Overlap, InFlight, PhaseInv

(* When no code is cooling down, every stored one keeps the cooldown.      *)
LEMMA CooledDown ==
    ASSUME TypeOK, NumberInv, ~CoolingDown, NEW c \in stored
    PROVE  asked[c].at + Cooldown <= now
<1>1. PICK d \in stored : Latest(d)
  BY DEF NumberInv
<1>2. /\ Cooldown \in Nat /\ now \in Nat
      /\ c \in Requests /\ d \in Requests /\ code[c] \in Rows /\ code[d] \in Rows
  BY SettingsAssumption DEF TypeOK
<1>3. code[c].at \in Nat /\ code[d].at \in Nat
  BY <1>2 DEF Rows
<1>4. code[d].at + Cooldown <= now
  BY <1>1, <1>2, <1>3 DEF CoolingDown
<1>5. c = d \/ Newer(d, c)
  BY <1>1 DEF Latest
<1>6. code[c].at <= code[d].at
  BY <1>3, <1>5 DEF Newer
<1> QED BY <1>2, <1>3, <1>4, <1>6 DEF NumberInv

(* Rows stay numbered apart, as they were asked for, and one is the latest. *)
LEMMA NextNumber ==
    ASSUME TypeOK, PhaseInv, NumberInv, [Next]_vars
    PROVE  NumberInv'
<1> USE DEF database, locals
<1>0. /\ now \in Nat /\ nextId \in Nat /\ stored \subseteq Requests
      /\ \A q \in Requests : asked[q] \in [at: Nat, id: Nat] /\ code[q] \in Rows
      /\ \A q \in stored : pc[q] = "over"
  BY SettingsAssumption DEF TypeOK, PhaseInv
<1>1. now' \in Nat /\ TypeOK'
  BY NextType, SettingsAssumption DEF TypeOK
<1>2. ASSUME stored' = stored, nextId' = nextId, now' >= now,
             \A q \in Requests : /\ asked'[q].id = asked[q].id
                                 /\ Asking(q) => asked'[q].at = asked[q].at
                                 /\ Numbered(q)' => Numbered(q)
                                 /\ Asking(q)' => Asking(q) \/ asked'[q].at <= now
      PROVE  NumberInv'
  <2>1. \A c \in stored : code'[c].at = code[c].at /\ code'[c].id = code[c].id
    BY UsedStays
  <2>2. \A c \in stored : asked'[c].at = asked[c].at
    BY <1>0, <1>2 DEF Asking
  <2>3. \A c, d \in stored : Newer(c, d) => Newer(c, d)'
    BY <2>1 DEF Newer
  <2>4. \A c \in stored : Latest(c) => Latest(c)'
    BY <1>2, <2>3 DEF Latest
  <2>5. ASSUME NEW q \in Requests, Asking(q)'
        PROVE  asked'[q].at <= now'
    <3>1. asked[q].at \in Nat
      BY <1>0
    <3>2. asked'[q].at <= now
      BY <1>2, <2>5 DEF NumberInv
    <3>3. asked'[q].at \in Nat
      BY <1>1 DEF TypeOK
    <3> QED BY <1>0, <1>1, <1>2, <3>2, <3>3
  <2>6. \A c \in stored' : code'[c].at = asked'[c].at /\ code'[c].id = asked'[c].id
    BY <1>0, <1>2, <2>1, <2>2 DEF NumberInv
  <2>7. \A q \in Requests : Numbered(q)' => asked'[q].id < nextId'
    BY <1>2 DEF NumberInv
  <2>8. \A q, r \in Requests :
          q # r /\ Numbered(q)' /\ Numbered(r)' => asked'[q].id # asked'[r].id
    BY <1>2 DEF NumberInv
  <2>9. stored' # {} => \E c \in stored' : Latest(c)'
    BY <1>2, <2>4 DEF NumberInv
  <2> QED BY <2>5, <2>6, <2>7, <2>8, <2>9 DEF NumberInv
<1>3. ASSUME NEW r \in Requests, Ask(r)
      PROVE  NumberInv'
  <2>1. /\ pc[r] = "new" /\ stored' = stored /\ nextId' = nextId /\ now' = now
        /\ asked' = [asked EXCEPT ![r].at = now] /\ pc' = [pc EXCEPT ![r] = "invalidate"]
    BY <1>3 DEF Ask, Go
  <2>2. /\ \A q \in Requests \ {r} : asked'[q] = asked[q] /\ pc'[q] = pc[q]
        /\ asked'[r] = [asked[r] EXCEPT !.at = now] /\ pc'[r] = "invalidate"
    BY <2>1 DEF TypeOK
  <2>3. asked'[r].id = asked[r].id /\ asked'[r].at = now
    BY <1>0, <2>2
  <2>4. \A q \in Requests : Numbered(q)' => Numbered(q)
    BY <2>1, <2>2 DEF Numbered
  <2>5. \A q \in Requests : Asking(q) => asked'[q].at = asked[q].at
    BY Askers
  <2>6. \A q \in Requests \ {r} : Asking(q)' => Asking(q)
    BY <2>1, <2>2 DEF Asking, Forgetting
  <2> QED BY <1>0, <1>2, <2>1, <2>2, <2>3, <2>4, <2>5, <2>6
<1>4. ASSUME NEW r \in Requests, Store(r)
      PROVE  NumberInv'
  <2>1. /\ pc[r] = "store" /\ UNCHANGED <<now, stored, code>> /\ nextId' = nextId + 1
        /\ asked' = [asked EXCEPT ![r].id = nextId] /\ pc' = [pc EXCEPT ![r] = "send"]
    BY <1>4 DEF Store, Go
  <2>2. /\ \A q \in Requests \ {r} : asked'[q] = asked[q] /\ pc'[q] = pc[q]
        /\ asked'[r] = [asked[r] EXCEPT !.id = nextId] /\ pc'[r] = "send"
    BY <2>1 DEF TypeOK
  <2>3. asked'[r].id = nextId /\ asked'[r].at = asked[r].at /\ r \notin stored
    BY <1>0, <2>1, <2>2
  <2>4. \A q \in Requests : Asking(q)' => Asking(q)
    BY <2>1, <2>2 DEF Asking, Forgetting
  <2>5. \A q \in Requests \ {r} : Numbered(q)' => Numbered(q)
    BY <2>1, <2>2 DEF Numbered
  <2>6. \A q \in Requests \ {r} : Numbered(q)' => asked'[q].id < nextId
    BY <2>2, <2>5 DEF NumberInv
  <2>7. \A q \in Requests : Numbered(q)' => asked'[q].id < nextId'
    BY <1>0, <2>1, <2>2, <2>3, <2>6
  <2>8. \A p, q \in Requests :
          p # q /\ Numbered(p)' /\ Numbered(q)' => asked'[p].id # asked'[q].id
    <3>1. \A q \in Requests \ {r} : Numbered(q)' => asked'[q].id # nextId
      BY <1>0, <2>2, <2>6
    <3>2. \A p, q \in Requests \ {r} :
            p # q /\ Numbered(p)' /\ Numbered(q)' => asked'[p].id # asked'[q].id
      BY <2>2, <2>5 DEF NumberInv
    <3> QED BY <2>3, <3>1, <3>2
  <2>9. \A c \in stored' : code'[c].at = asked'[c].at /\ code'[c].id = asked'[c].id
    BY <1>0, <2>1, <2>2, <2>3 DEF NumberInv
  <2>10. \A q \in Requests : Asking(q)' => asked'[q].at <= now'
    BY <2>1, <2>2, <2>3, <2>4 DEF NumberInv
  <2>11. stored' # {} => \E c \in stored' : Latest(c)'
    BY <2>1 DEF NumberInv, Latest, Newer
  <2> QED BY <2>7, <2>8, <2>9, <2>10, <2>11 DEF NumberInv
<1>5. ASSUME NEW r \in Requests, Commit(r)
      PROVE  NumberInv'
  <2>1. /\ pc[r] = "commit" /\ UNCHANGED <<now, nextId, asked>> /\ stored' = stored \cup {r}
        /\ code'[r] = NewRow(asked[r].at, asked[r].id)
        /\ pc'[r] = "over" /\ \A q \in Requests \ {r} : pc'[q] = pc[q]
    BY <1>5 DEF Commit, Finish, Go, TypeOK
  <2>2. code'[r].at = asked[r].at /\ code'[r].id = asked[r].id /\ r \notin stored
    BY <1>0, <2>1 DEF NewRow
  <2>3. \A q \in Requests : (Numbered(q)' => Numbered(q)) /\ (Asking(q)' => Asking(q))
    BY <2>1 DEF Numbered, Asking, Forgetting
  <2>4. \A c \in stored : code'[c].at = code[c].at /\ code'[c].id = code[c].id
    BY UsedStays
  <2>5. \A c \in stored' : code'[c].at = asked'[c].at /\ code'[c].id = asked'[c].id
    BY <2>1, <2>2, <2>4 DEF NumberInv
  <2>6. \E c \in stored' : Latest(c)'
    <3>1. CASE stored = {}
      BY <2>1, <3>1 DEF Latest
    <3>2. ASSUME NEW c \in stored, Latest(c)
          PROVE  Latest(c)' \/ Latest(r)'
      <4>1. \A d \in stored \ {c} : Newer(c, d)'
        BY <2>4, <3>2 DEF Latest, Newer
      <4>2. code'[c].id # code'[r].id
        BY <1>0, <2>1, <2>2, <2>4 DEF NumberInv, Numbered
      <4>3. \A d \in stored' : code'[d].at \in Nat /\ code'[d].id \in Nat
        BY <1>1 DEF TypeOK, Rows
      <4>4. Newer(c, r)' \/ Newer(r, c)'
        BY <2>1, <4>2, <4>3 DEF Newer
      <4>5. CASE Newer(c, r)'
        BY <2>1, <4>1, <4>5 DEF Latest
      <4>6. CASE Newer(r, c)'
        <5>1. \A d \in stored \ {c} : Newer(r, d)'
          BY <2>1, <4>1, <4>3, <4>6 DEF Newer
        <5> QED BY <2>1, <4>6, <5>1 DEF Latest
      <4> QED BY <4>4, <4>5, <4>6
    <3> QED BY <2>1, <3>1, <3>2 DEF NumberInv
  <2> QED BY <2>1, <2>3, <2>5, <2>6 DEF NumberInv
<1>6. ASSUME NEW r \in Requests,
             \/ Unavailable(r) \/ AskedTooMuch(r) \/ Select(r)
             \/ Send(r) \/ DeliveryFails(r) \/ ReadNone(r)
             \/ Miss(r) \/ MarkVerified(r) \/ Consume(r) \/ Interrupt(r)
             \/ \E c \in Requests : ReadWrong(r, c) \/ ReadToVerify(r, c) \/ ReadToReset(r, c)
      PROVE  NumberInv'
  <2>1. UNCHANGED <<now, stored, asked, nextId>>
    BY <1>6 DEF Unavailable, AskedTooMuch, Select, Send, DeliveryFails, ReadNone, Miss,
                MarkVerified, Consume, Interrupt, ReadWrong, ReadToVerify, ReadToReset, Read
  <2>2. \A q \in Requests : /\ pc'[q] \in {"send", "commit"} => pc[q] \in {"send", "commit"}
                            /\ Forgetting(q)' => Forgetting(q)
    BY <1>6 DEF Unavailable, AskedTooMuch, Select, Send, DeliveryFails, ReadNone, Miss,
                MarkVerified, Consume, Interrupt, ReadWrong, ReadToVerify, ReadToReset,
                Finish, Go, Forgetting, TypeOK
  <2> QED BY <1>0, <1>2, <2>1, <2>2 DEF Numbered, Asking
<1>7. CASE Tick \/ UNCHANGED vars
  BY <1>0, <1>2, <1>7 DEF Tick, vars, Numbered, Asking, Forgetting
<1> QED BY <1>3, <1>4, <1>5, <1>6, <1>7 DEF Next

(* Requests for a code that do not overlap keep the cooldown.              *)
LEMMA NextSpaced ==
    ASSUME TypeOK, PhaseInv, FlightInv, NumberInv, SpacedInv, [Next]_vars
    PROVE  SpacedInv'
<1>1. \A q, r \in Requests : Overlap(q, r) => Overlap(q, r)'
  BY NextFlight
<1>2. CASE \A q \in Requests : Asking(q)' => Asking(q)
  BY <1>1, <1>2, Askers DEF SpacedInv
<1>3. ASSUME NEW r \in Requests, Ask(r)
      PROVE  SpacedInv'
  <2>1. /\ asked'[r].at = now
        /\ \A q \in Requests \ {r} : /\ Asking(q)' <=> Asking(q)
                                     /\ asked'[q] = asked[q]
                                     /\ ~Overlap(q, r)' => ~Forgetting(q)
    BY <1>3, AskSees
  <2>2. ~CoolingDown
    BY <1>3 DEF Ask, MayAsk
  <2>3. \A q \in stored : asked[q].at + Cooldown <= now
    BY <2>2, CooledDown
  <2>4. ASSUME NEW q \in Requests \ {r}, ~Overlap(q, r)', Asking(q)'
        PROVE  asked'[q].at + Cooldown <= asked'[r].at
    <3>1. Asking(q) /\ ~Forgetting(q) /\ asked'[q] = asked[q]
      BY <2>1, <2>4
    <3>2. q \in stored
      BY <3>1 DEF Asking
    <3> QED BY <2>1, <2>3, <3>1, <3>2
  <2>5. \A q \in Requests : Overlap(q, r)' <=> Overlap(r, q)'
    BY DEF Overlap
  <2>6. ASSUME NEW p \in Requests \ {r}, NEW q \in Requests \ {r},
               p # q, ~Overlap(p, q)', Asking(p)', Asking(q)'
        PROVE  \/ asked'[p].at + Cooldown <= asked'[q].at
               \/ asked'[q].at + Cooldown <= asked'[p].at
    <3>1. Asking(p) /\ Asking(q) /\ asked'[p] = asked[p] /\ asked'[q] = asked[q]
      BY <2>1, <2>6
    <3>2. ~Overlap(p, q)
      BY <1>1, <2>6
    <3> QED BY <2>6, <3>1, <3>2 DEF SpacedInv
  <2> QED BY <2>4, <2>5, <2>6 DEF SpacedInv
<1> QED BY <1>2, <1>3, Askers

(* A new code retires the ones that were stored when it was asked for.     *)
LEMMA NextRetire ==
    ASSUME TypeOK, PhaseInv, FlightInv, RetiredInv, [Next]_vars
    PROVE  RetiredInv'
<1> USE DEF database, locals
<1>1. \A q, r \in Requests : ~Overlap(q, r)' => ~Overlap(q, r)
  BY NextFlight
<1>2. \A c \in stored : c \in stored' /\ pc[c] = "over" /\ (code[c].used => code'[c].used)
  BY UsedStays DEF PhaseInv, TypeOK
<1>3. ASSUME stored' = stored,
             \A r \in Requests : pc'[r] \in {"store", "send", "commit"}
                => pc[r] \in {"store", "send", "commit"} /\ targets'[r] = targets[r]
      PROVE  RetiredInv'
  BY <1>1, <1>2, <1>3 DEF RetiredInv
<1>4. ASSUME NEW r \in Requests, Select(r)
      PROVE  RetiredInv'
  <2>1. /\ stored' = stored /\ code' = code
        /\ targets' = [targets EXCEPT ![r] = {c \in stored : ~code[c].used}]
        /\ pc[r] = "invalidate" /\ pc' = [pc EXCEPT ![r] = "store"]
    BY <1>4 DEF Select, Go
  <2>2. /\ targets'[r] = {c \in stored : ~code[c].used} /\ r \notin stored
        /\ \A q \in Requests \ {r} : targets'[q] = targets[q] /\ pc'[q] = pc[q]
    BY <1>2, <2>1 DEF TypeOK
  <2> QED BY <1>1, <2>1, <2>2 DEF RetiredInv
<1>5. ASSUME NEW r \in Requests, Store(r)
      PROVE  RetiredInv'
  <2>1. /\ stored' = stored /\ code' = code
        /\ targets' = [targets EXCEPT ![r] = {c \in targets[r] : ~code[c].used}]
        /\ pc[r] = "store" /\ pc' = [pc EXCEPT ![r] = "send"]
    BY <1>5 DEF Store, Go
  <2>2. /\ targets'[r] = {c \in targets[r] : ~code[c].used} /\ r \notin stored
        /\ \A q \in Requests \ {r} : targets'[q] = targets[q] /\ pc'[q] = pc[q]
    BY <1>2, <2>1 DEF TypeOK
  <2> QED BY <1>1, <2>1, <2>2 DEF RetiredInv
<1>6. ASSUME NEW r \in Requests, Commit(r)
      PROVE  RetiredInv'
  <2>1. /\ pc[r] = "commit" /\ targets' = targets /\ stored' = stored \cup {r}
        /\ pc'[r] = "over" /\ \A q \in Requests \ {r} : pc'[q] = pc[q]
        /\ \A c \in targets[r] : c # r => code'[c] = [code[c] EXCEPT !.used = TRUE]
    BY <1>6 DEF Commit, Finish, Go, TypeOK
  <2>2. \A c \in targets[r] : c \in stored /\ c # r /\ code[c] \in Rows
    BY <1>2, <2>1 DEF TypeOK
  <2>3. \A c \in targets[r] : code'[c].used
    BY <2>1, <2>2, UsedColumn
  <2>4. \A q \in stored : q # r /\ ~Overlap(q, r) => code'[q].used
    BY <1>2, <2>1, <2>3 DEF RetiredInv, TypeOK
  <2>5. \A q \in Requests : InFlight(q) => q = r \/ Overlap(q, r)
    BY <2>1 DEF FlightInv, InFlight
  <2>6. \A q \in Requests : Overlap(q, r) <=> Overlap(r, q)
    BY DEF Overlap
  <2>7. ASSUME NEW p \in Requests, NEW q \in Requests,
               p # q, ~Overlap(p, q)', p \in stored'
        PROVE  /\ pc'[q] \in {"store", "send", "commit"} => code'[p].used \/ p \in targets'[q]
               /\ q \in stored' => code'[p].used \/ code'[q].used
    <3>1. ~Overlap(p, q)
      BY <1>1, <2>7
    <3>2. CASE p = r
      <4>1. ~InFlight(q)
        BY <2>5, <2>6, <2>7, <3>1, <3>2
      <4>2. q # r /\ pc'[q] = pc[q] /\ ~Overlap(q, r)
        BY <2>1, <2>6, <2>7, <3>1, <3>2
      <4> QED BY <2>1, <2>4, <4>1, <4>2 DEF InFlight
    <3>3. CASE q = r /\ p # r
      BY <2>1, <2>4, <2>7, <3>1, <3>3
    <3>4. CASE p # r /\ q # r
      BY <1>2, <2>1, <2>7, <3>1, <3>4 DEF RetiredInv
    <3> QED BY <3>2, <3>3, <3>4
  <2> QED BY <2>7 DEF RetiredInv
<1>7. ASSUME NEW r \in Requests,
             \/ Unavailable(r) \/ Ask(r) \/ AskedTooMuch(r)
             \/ Send(r) \/ DeliveryFails(r) \/ ReadNone(r)
             \/ Miss(r) \/ MarkVerified(r) \/ Consume(r) \/ Interrupt(r)
             \/ \E c \in Requests : ReadWrong(r, c) \/ ReadToVerify(r, c) \/ ReadToReset(r, c)
      PROVE  RetiredInv'
  <2>1. stored' = stored /\ targets' = targets
    BY <1>7 DEF Unavailable, Ask, AskedTooMuch, Send, DeliveryFails, ReadNone, Miss,
                MarkVerified, Consume, Interrupt, ReadWrong, ReadToVerify, ReadToReset, Read
  <2>2. \A q \in Requests : pc'[q] \in {"store", "send", "commit"}
                              => pc[q] \in {"store", "send", "commit"}
    BY <1>7 DEF Unavailable, Ask, AskedTooMuch, Send, DeliveryFails, ReadNone, Miss,
                MarkVerified, Consume, Interrupt, ReadWrong, ReadToVerify, ReadToReset,
                Finish, Go, TypeOK
  <2> QED BY <1>3, <2>1, <2>2
<1>8. CASE Tick \/ UNCHANGED vars
  BY <1>3, <1>8 DEF Tick, vars
<1> QED BY <1>4, <1>5, <1>6, <1>7, <1>8 DEF Next

(* In one window there is room for Limit requests that did not overlap.    *)
LEMMA NextWindow ==
    ASSUME TypeOK, PhaseInv, FlightInv, NumberInv, WindowInv, [Next]_vars
    PROVE  WindowInv'
<1>1. IsFiniteSet(stored)'
  <2>1. stored' = stored \/ \E r \in Requests : stored' = stored \cup {r}
    BY ZenonT(30) DEF Next, Unavailable, Ask, AskedTooMuch, Select, Store, Send, DeliveryFails,
           Commit, ReadNone, Miss, MarkVerified, Consume, Interrupt, Tick, vars, database,
           locals, ReadWrong, ReadToVerify, ReadToReset, Read
  <2> QED BY <2>1, FS_AddElement DEF WindowInv
<1>2. ASSUME NEW S \in SUBSET Requests, Apart(S)'
      PROVE  Apart(S)
  BY <1>2, NextFlight DEF Apart
<1>3. ASSUME NEW S \in SUBSET Requests, \A q \in S : Asking(q), Spread(S)
      PROVE  Spread(S)'
  BY <1>3, Askers DEF Spread
<1>4. ASSUME \A q \in Requests : Asking(q)' => Asking(q),
             NEW S \in SUBSET Requests, IsFiniteSet(S), Cardinality(S) > Limit,
             Apart(S)', \A q \in S : Asking(q)'
      PROVE  Spread(S)'
  <2>1. Apart(S)
    BY <1>2, <1>4
  <2>2. \A q \in S : Asking(q)
    BY <1>4 DEF Asking, Forgetting
  <2> QED BY <1>3, <1>4, <2>1, <2>2 DEF WindowInv
<1>5. ASSUME NEW r \in Requests, Ask(r),
             NEW S \in SUBSET Requests, IsFiniteSet(S), Cardinality(S) > Limit,
             Apart(S)', \A q \in S : Asking(q)'
      PROVE  Spread(S)'
  <2>1. /\ asked'[r].at = now
        /\ \A q \in Requests \ {r} : /\ Asking(q)' <=> Asking(q)
                                     /\ asked'[q] = asked[q]
                                     /\ ~Overlap(q, r)' => ~Forgetting(q)
    BY <1>5, AskSees
  <2>2. CASE r \notin S
    <3>1. Apart(S) /\ \A q \in S : Asking(q)
      BY <1>2, <1>5, <2>1, <2>2
    <3> QED BY <1>3, <1>5, <3>1 DEF WindowInv
  <2>3. CASE r \in S
    <3>1. S \ {r} \subseteq stored
      <4>1. ASSUME NEW q \in S \ {r}
            PROVE  q \in stored
        <5>1. Asking(q) /\ ~Overlap(q, r)'
          BY <1>5, <2>1, <2>3 DEF Apart
        <5> QED BY <2>1, <5>1 DEF Asking
      <4> QED BY <4>1
    <3>2. IsFiniteSet(S \ {r}) /\ Cardinality(S \ {r}) = Cardinality(S) - 1
      BY <1>5, <2>3, FS_RemoveElement
    <3>3. IsFiniteSet(Recent) /\ Cardinality(Recent) < Limit
      BY <1>5, FS_Subset DEF Ask, MayAsk, Recent, WindowInv
    <3>4. ~(S \ {r} \subseteq Recent)
      <4>1. /\ Limit \in Nat /\ Cardinality(S) \in Nat
            /\ Cardinality(S \ {r}) \in Nat /\ Cardinality(Recent) \in Nat
        BY <1>5, <3>2, <3>3, FS_CardinalityType, SettingsAssumption
      <4>2. S \ {r} \subseteq Recent => Cardinality(S \ {r}) <= Cardinality(Recent)
        BY <3>3, FS_Subset
      <4> QED BY <1>5, <3>2, <3>3, <4>1, <4>2
    <3>5. PICK c \in S \ {r} : ~(code[c].at + Window >= now)
      BY <3>1, <3>4 DEF Recent
    <3>6. asked'[c].at = code[c].at
      BY <2>1, <3>1, <3>5 DEF NumberInv
    <3>7. code[c].at \in Nat /\ Window \in Nat /\ now \in Nat
      BY SettingsAssumption DEF TypeOK, Rows
    <3> QED BY <2>1, <2>3, <3>5, <3>6, <3>7 DEF Spread
  <2> QED BY <2>2, <2>3
<1>6. ASSUME NEW S \in SUBSET Requests, IsFiniteSet(S), Cardinality(S) > Limit,
             Apart(S)', \A q \in S : Asking(q)'
      PROVE  Spread(S)'
  BY <1>4, <1>5, <1>6, Askers
<1> QED BY <1>1, <1>6 DEF WindowInv

-----------------------------------------------------------------------------
(* The theorems *)

CodeInv ==
    /\ TypeOK /\ PhaseInv /\ FlightInv
    /\ ReuseInv /\ MissInv /\ OnlyCodeRetiresCode
    /\ NumberInv /\ SpacedInv /\ RetiredInv /\ WindowInv

(* All parts of the invariant hold together.                               *)
LEMMA Codes == Spec => []CodeInv
<1>1. Init => CodeInv
  BY InitType, InitPhase, InitSpaced DEF CodeInv
<1>2. CodeInv /\ [Next]_vars => CodeInv'
  BY NextType, NextPhase, NextFlight, NextReuse, NextMiss, NextRetired,
     NextNumber, NextSpaced, NextRetire, NextWindow DEF CodeInv
<1> QED BY <1>1, <1>2, PTL DEF Spec

(* Only requests that overlap reset the password twice with one code, and  *)
(* only mistaken entries that overlap are counted as fewer than they are.  *)
THEOREM ResetOnceCountedAll == Spec => []OnlyOverlapMiscounts
<1>1. CodeInv => OnlyOverlapMiscounts
  <2>1. ReuseInv => OnlyOverlapReusesCode
    BY DEF ReuseInv, OnlyOverlapReusesCode, ResetWith, Resetting
  <2>2. MissInv => OnlyOverlapLosesMiss
    BY DEF MissInv, Counted, Apart, OnlyOverlapLosesMiss
  <2> QED BY <2>1, <2>2 DEF CodeInv, OnlyOverlapMiscounts
<1> QED BY <1>1, Codes, PTL

(* Codes asked for one after the other are not both usable, keep the       *)
(* cooldown, and number no more than Limit in a window.                    *)
THEOREM CodesKeepTheirDistance == Spec => []OnlyOverlapCrowdsCodes
<1>1. CodeInv => OnlyOverlapCrowdsCodes
  <2> SUFFICES ASSUME CodeInv
               PROVE  OnlyOverlapCrowdsCodes
    OBVIOUS
  <2> USE DEF CodeInv
  <2>1. /\ stored \subseteq Requests /\ IsFiniteSet(stored)
        /\ \A c \in stored : Asking(c) /\ code[c].at = asked[c].at
    BY DEF TypeOK, NumberInv, Asking, WindowInv
  <2>2. ASSUME NEW c \in stored, NEW d \in stored, c # d, ~Overlap(c, d)
        PROVE  /\ code[c].used \/ code[d].used
               /\ code[c].at + Cooldown <= code[d].at \/ code[d].at + Cooldown <= code[c].at
    BY <2>1, <2>2 DEF RetiredInv, SpacedInv
  <2>3. ASSUME NEW S \in SUBSET stored, Cardinality(S) > Limit,
               \A c, d \in S : c # d => ~Overlap(c, d)
        PROVE  \E c, d \in S : code[c].at + Window < code[d].at
    <3>1. IsFiniteSet(S) /\ S \subseteq Requests /\ Apart(S)
      BY <2>1, <2>3, FS_Subset DEF Apart
    <3>2. Spread(S)
      BY <2>1, <2>3, <3>1 DEF WindowInv
    <3> QED BY <2>1, <3>2 DEF Spread
  <2> QED BY <2>2, <2>3 DEF OnlyOverlapCrowdsCodes
<1> QED BY <1>1, Codes, PTL

(* A code stops working only because it was spent or a newer one is stored: *)
(* no request that fails on its way takes the client's code away.          *)
THEOREM FailuresKeepTheCode == Spec => []OnlyCodeRetiresCode
<1>1. CodeInv => OnlyCodeRetiresCode
  BY DEF CodeInv
<1> QED BY <1>1, Codes, PTL

-----------------------------------------------------------------------------
(* Row locks *)

(* A request that has written rows, and the rows another one is about to   *)
(* write and waits for.                                                    *)
Holding(r) == pc[r] \in {"send", "commit"}

Wanted(r) ==
    CASE pc[r] = "store" -> targets[r]
      [] pc[r] \in {"miss", "verify", "reset"} -> {reads[r]}
      [] OTHER -> {}

Waiting(r) == \E c \in Wanted(r) : Locked(c, r)

(* A row is written by one open transaction, which found it unused, and    *)
(* nobody has used it since.                                               *)
LocksInv ==
    \A r \in Requests :
        Holding(r) =>
            \A c \in targets[r] :
                /\ ~code[c].used
                /\ \A q \in Requests \ {r} : Holding(q) => c \notin targets[q]

(* Only the commit of the transaction that has written a row changes it.   *)
OnlyHolderWrites ==
    \A r \in Requests :
        Holding(r) =>
            \A c \in targets[r] :
                code'[c] # code[c] => pc[r] = "commit" /\ outcome'[r] = "coded"

(* While anything is under way something that waits for no row is; and     *)
(* whoever waits for a row waits for one request, which waits for none.    *)
WaitsEnd ==
    /\ (\E r \in Requests : InFlight(r)) => \E r \in Requests : InFlight(r) /\ ~Waiting(r)
    /\ \A r \in Requests : \A c \in Wanted(r) :
         Locked(c, r) =>
             \E q \in Requests \ {r} :
                 /\ InFlight(q) /\ ~Waiting(q)
                 /\ \A p \in Requests : Holding(p) /\ c \in targets[p] <=> p = q

(* Whoever holds rows waits for none.                                      *)
LEMMA HoldersGoOn ==
    ASSUME NEW r \in Requests, Holding(r)
    PROVE  InFlight(r) /\ ~Waiting(r)
BY DEF Holding, Waiting, Wanted, InFlight

(* Whoever waits for a row can do nothing but wait, or be cut off.         *)
LEMMA WaitersStand ==
    ASSUME NEW r \in Requests, Waiting(r)
    PROVE  ~Continue(r)
BY DEF Waiting, Wanted, Continue, Select, Store, Send, DeliveryFails, Commit,
       Miss, MarkVerified, Consume

(* A step of one request that neither writes a code nor takes rows.        *)
LEMMA LeavesLocks ==
    ASSUME LocksInv, code' = code, \A r \in Requests : Holding(r)' => Holding(r),
           \A r \in Requests : Holding(r)' => targets'[r] = targets[r]
    PROVE  LocksInv'
BY DEF LocksInv

(* A written row belongs to its transaction until that commits: an UPDATE  *)
(* of another request has waited for it.                                   *)
LEMMA NextLocks ==
    ASSUME TypeOK, PhaseInv, LocksInv, [Next]_vars
    PROVE  LocksInv' /\ OnlyHolderWrites
<1> USE DEF database, locals
<1>1. ASSUME NEW r \in Requests, Store(r)
      PROVE  LocksInv' /\ OnlyHolderWrites
  <2>1. /\ code' = code
        /\ targets'[r] = {c \in targets[r] : ~code[c].used}
        /\ \A q \in Requests \ {r} : targets'[q] = targets[q] /\ (Holding(q)' <=> Holding(q))
    BY <1>1 DEF Store, Go, TypeOK, Holding
  <2>2. \A c \in targets[r], q \in Requests \ {r} : Holding(q) => c \notin targets[q]
    BY <1>1 DEF Store, Locked, Holding
  <2> QED BY <2>1, <2>2 DEF LocksInv, OnlyHolderWrites
<1>2. ASSUME NEW r \in Requests, Commit(r)
      PROVE  LocksInv' /\ OnlyHolderWrites
  <2>1. /\ targets' = targets /\ Holding(r) /\ ~Holding(r)' /\ pc[r] = "commit"
        /\ outcome'[r] = "coded"
        /\ \A q \in Requests \ {r} : Holding(q)' <=> Holding(q)
    BY <1>2 DEF Commit, Finish, Go, TypeOK, Holding
  <2>2. r \notin stored
    BY <2>1 DEF PhaseInv
  <2>3. \A c \in stored : c \notin targets[r] => code'[c] = code[c]
    BY <1>2, <2>2 DEF Commit, TypeOK
  <2>4. ASSUME NEW q \in Requests \ {r}, Holding(q), NEW c \in targets[q]
        PROVE  code'[c] = code[c]
    BY <2>1, <2>3, <2>4 DEF LocksInv, TypeOK
  <2> QED BY <2>1, <2>4 DEF LocksInv, OnlyHolderWrites
<1>3. ASSUME NEW r \in Requests, Miss(r) \/ MarkVerified(r) \/ Consume(r)
      PROVE  LocksInv' /\ OnlyHolderWrites
  <2>1. /\ targets' = targets /\ ~Holding(r) /\ ~Holding(r)'
        /\ \A q \in Requests \ {r} : Holding(q)' <=> Holding(q)
        /\ ~Locked(reads[r], r)
    BY <1>3 DEF Miss, MarkVerified, Consume, Finish, Go, TypeOK, Holding
  <2>2. \A c \in Requests : c # reads[r] => code'[c] = code[c]
    BY <1>3 DEF Miss, MarkVerified, Consume, TypeOK
  <2>3. ASSUME NEW q \in Requests \ {r}, Holding(q), NEW c \in targets[q]
        PROVE  code'[c] = code[c]
    BY <2>1, <2>2, <2>3 DEF Locked, Holding, TypeOK
  <2> QED BY <2>1, <2>3 DEF LocksInv, OnlyHolderWrites
<1>4. ASSUME NEW r \in Requests,
             \/ Unavailable(r) \/ Ask(r) \/ AskedTooMuch(r) \/ Select(r)
             \/ Send(r) \/ DeliveryFails(r) \/ ReadNone(r) \/ Interrupt(r)
             \/ \E c \in Requests : ReadWrong(r, c) \/ ReadToVerify(r, c) \/ ReadToReset(r, c)
      PROVE  LocksInv' /\ OnlyHolderWrites
  <2>1. code' = code
    BY <1>4 DEF Unavailable, Ask, AskedTooMuch, Select, Send, DeliveryFails, ReadNone,
                Interrupt, ReadWrong, ReadToVerify, ReadToReset, Read
  <2>2. \A q \in Requests : Holding(q)' => Holding(q)
    <3>1. \A q \in Requests \ {r} : pc'[q] = pc[q]
      BY <1>4 DEF Unavailable, Ask, AskedTooMuch, Select, Send, DeliveryFails, ReadNone,
                  Interrupt, ReadWrong, ReadToVerify, ReadToReset, Finish, Go, TypeOK
    <3>2. pc'[r] \in {"send", "commit"} => pc[r] = "send"
      BY <1>4 DEF Unavailable, Ask, AskedTooMuch, Select, Send, DeliveryFails, ReadNone,
                  Interrupt, ReadWrong, ReadToVerify, ReadToReset, Finish, Go, TypeOK
    <3> QED BY <3>1, <3>2 DEF Holding
  <2>3. \A q \in Requests : Holding(q)' => targets'[q] = targets[q]
    <3>1. targets' = targets \/ Select(r)
      BY <1>4 DEF Unavailable, Ask, AskedTooMuch, Send, DeliveryFails, ReadNone,
                  Interrupt, ReadWrong, ReadToVerify, ReadToReset, Read
    <3>2. Select(r) => \A q \in Requests \ {r} : targets'[q] = targets[q]
      BY DEF Select, TypeOK
    <3>3. Select(r) => ~Holding(r)'
      BY DEF Select, Go, TypeOK, Holding
    <3> QED BY <3>1, <3>2, <3>3
  <2> QED BY <2>1, <2>2, <2>3, LeavesLocks DEF OnlyHolderWrites
<1>5. CASE Tick \/ UNCHANGED vars
  BY <1>5 DEF Tick, vars, LocksInv, OnlyHolderWrites, Holding
<1> QED BY <1>1, <1>2, <1>3, <1>4, <1>5 DEF Next

LockInv == TypeOK /\ PhaseInv /\ LocksInv

(* Rows are held by one request at a time.                                 *)
LEMMA Locks == Spec => []LockInv
<1>1. Init => LocksInv
  BY DEF Init, LocksInv, Holding
<1>2. Init => LockInv
  BY <1>1, InitType, InitPhase DEF LockInv
<1>3. LockInv /\ [Next]_vars => LockInv'
  BY NextType, NextPhase, NextLocks DEF LockInv
<1> QED BY <1>2, <1>3, PTL DEF Spec

(* The rows that forgot_password invalidates are no one else's from then   *)
(* until it has sent the code and committed, or has been rolled back: what *)
(* it retires is what it found, and no update of another request is lost.  *)
THEOREM RetiringExcludes == Spec => []LocksInv /\ [][OnlyHolderWrites]_vars
<1>1. LockInv /\ [Next]_vars => [OnlyHolderWrites]_vars
  BY NextLocks DEF LockInv
<1>2. LockInv => LocksInv
  BY DEF LockInv
<1> QED BY <1>1, <1>2, Locks, PTL DEF Spec

(* Requests that wait for each other's rows never all wait: a request      *)
(* holds rows from the end of its own wait only, so the rows another one   *)
(* waits for are held by one that goes on.                                 *)
THEOREM WaitingEnds == Spec => []WaitsEnd
<1>1. ASSUME LockInv, NEW r \in Requests, NEW c \in Wanted(r), Locked(c, r)
      PROVE  \E q \in Requests \ {r} :
                 /\ InFlight(q) /\ ~Waiting(q)
                 /\ \A p \in Requests : Holding(p) /\ c \in targets[p] <=> p = q
  <2>1. PICK q \in Requests \ {r} : Holding(q) /\ c \in targets[q]
    BY <1>1 DEF Locked, Holding
  <2>2. \A p \in Requests : Holding(p) /\ c \in targets[p] => p = q
    BY <1>1, <2>1 DEF LockInv, LocksInv
  <2> QED BY <2>1, <2>2, HoldersGoOn
<1>2. ASSUME LockInv
      PROVE  WaitsEnd
  <2>1. ASSUME NEW r \in Requests, InFlight(r)
        PROVE  \E q \in Requests : InFlight(q) /\ ~Waiting(q)
    BY <1>1, <1>2, <2>1 DEF Waiting
  <2> QED BY <1>1, <1>2, <2>1 DEF WaitsEnd
<1> QED BY <1>2, Locks, PTL

-----------------------------------------------------------------------------
(* Serial requests implement Recovery *)

(* What a request works from is what is stored, until it ends.             *)
FreshFor(r) ==
    /\ pc[r] \in {"store", "send", "commit"} => targets[r] = {c \in stored : ~code[c].used}
    /\ pc[r] \in {"miss", "verify", "reset"} =>
         /\ ~code[reads[r]].used
         /\ found[r] = code[reads[r]].misses /\ found[r] < MaxAttempts
         /\ pc[r] = "reset" => code[reads[r]].verified

FreshInv ==
    /\ \A r \in Requests : pc[r] = "commit" => r \in mailed
    /\ Serial => \A r \in Requests : FreshFor(r)

(* What Recovery sees of the state.                                        *)
Open == {c \in stored : ~code[c].used}
Entries == [c \in stored |-> code[c].misses]
Confirmed == {c \in stored : code[c].verified}
Spent == {c \in Requests : ResetWith(c) # {}}

(* Requests that never overlapped did not before.                          *)
LEMMA SerialBefore ==
    ASSUME TypeOK, PhaseInv, [Next]_vars, Serial'
    PROVE  Serial
BY Moves DEF Serial, PhaseInv, TypeOK

(* Whoever is under way is alone.                                          *)
LEMMA Alone ==
    ASSUME FlightInv, Serial, NEW q \in Requests, NEW r \in Requests, InFlight(q), InFlight(r)
    PROVE  q = r
BY DEF FlightInv, Overlap, Serial

(* What a request works from stays as it is while it is alone.             *)
LEMMA NextFresh ==
    ASSUME TypeOK, PhaseInv, FlightInv, FlightInv', FreshInv, [Next]_vars
    PROVE  FreshInv'
<1> USE DEF database, locals
<1>1. ASSUME NEW r \in Requests, pc'[r] = "commit"
      PROVE  r \in mailed'
  <2>1. mailed \subseteq mailed'
    <3>1. ASSUME NEW q \in Requests, Send(q) \/ DeliveryFails(q)
          PROVE  mailed \subseteq mailed'
      BY <3>1 DEF Send, DeliveryFails
    <3>2. ASSUME NEW q \in Requests,
                 \/ Unavailable(q) \/ Ask(q) \/ AskedTooMuch(q) \/ Select(q) \/ Store(q)
                 \/ Commit(q) \/ ReadNone(q) \/ Miss(q) \/ MarkVerified(q) \/ Consume(q)
                 \/ Interrupt(q)
          PROVE  mailed' = mailed
      BY <3>2 DEF Unavailable, Ask, AskedTooMuch, Select, Store, Commit, ReadNone, Miss,
         MarkVerified, Consume, Interrupt
    <3>3. ASSUME NEW q \in Requests, NEW c \in Requests,
                 ReadWrong(q, c) \/ ReadToVerify(q, c) \/ ReadToReset(q, c)
          PROVE  mailed' = mailed
      BY <3>3 DEF ReadWrong, ReadToVerify, ReadToReset, Read
    <3>4. Tick \/ UNCHANGED vars => mailed' = mailed
      BY DEF Tick, vars
    <3> QED BY <3>1, <3>2, <3>3, <3>4 DEF Next
  <2>2. pc[r] = "commit" \/ Send(r)
    <3>1. ASSUME NEW q \in Requests, Send(q)
          PROVE  pc'[r] = pc[r] \/ q = r
      BY <3>1 DEF Send, Go, TypeOK
    <3>2. ASSUME NEW q \in Requests,
                 \/ Unavailable(q) \/ Ask(q) \/ AskedTooMuch(q) \/ Select(q) \/ Store(q)
                 \/ DeliveryFails(q) \/ Commit(q) \/ ReadNone(q) \/ Miss(q) \/ MarkVerified(q)
                 \/ Consume(q) \/ Interrupt(q)
                 \/ \E c \in Requests : ReadWrong(q, c) \/ ReadToVerify(q, c) \/ ReadToReset(q, c)
          PROVE  pc'[r] = pc[r]
      <4>1. \E step \in {"invalidate", "store", "send", "miss", "verify", "reset", "over"} : Go(q, step)
        BY <3>2 DEF Unavailable, Ask, AskedTooMuch, Select, Store, DeliveryFails, Commit,
           ReadNone, ReadWrong, ReadToVerify, ReadToReset, Miss, MarkVerified, Consume,
           Interrupt, Finish
      <4> QED BY <1>1, <4>1 DEF Go, TypeOK
    <3>3. Tick \/ UNCHANGED vars => pc' = pc
      BY DEF Tick, vars
    <3> QED BY <1>1, <3>1, <3>2, <3>3 DEF Next
  <2> QED BY <2>1, <2>2 DEF FreshInv, Send
<1>2. ASSUME Serial', NEW q \in Requests
      PROVE  FreshFor(q)'
  <2>0. Serial /\ FreshFor(q)
    BY <1>2, SerialBefore DEF FreshInv
  <2>1. ASSUME pc'[q] = pc[q], targets'[q] = targets[q], reads'[q] = reads[q],
               found'[q] = found[q], UNCHANGED <<stored, code>>
        PROVE  FreshFor(q)'
    BY <2>0, <2>1 DEF FreshFor
  <2>2. ASSUME ~InFlight(q)'
        PROVE  FreshFor(q)'
    BY <2>2 DEF FreshFor, InFlight
  <2>3. ASSUME NEW r \in Requests, Unavailable(r) \/ AskedTooMuch(r) \/ ReadNone(r)
        PROVE  FreshFor(q)'
    <3>1. /\ UNCHANGED <<targets, reads, found, stored, code>> /\ pc'[r] = "over"
          /\ q # r => pc'[q] = pc[q]
      BY <2>3 DEF Unavailable, AskedTooMuch, ReadNone, Finish, Go, TypeOK
    <3> QED BY <2>1, <2>2, <3>1 DEF InFlight
  <2>4. ASSUME NEW r \in Requests, DeliveryFails(r) \/ Commit(r) \/ Miss(r) \/ MarkVerified(r)
                                   \/ Consume(r) \/ Interrupt(r)
        PROVE  FreshFor(q)'
    <3>1. InFlight(r) /\ pc'[r] = "over" /\ (q # r => pc'[q] = pc[q])
      BY <2>4 DEF DeliveryFails, Commit, Miss, MarkVerified, Consume, Interrupt, InFlight,
         Finish, Go, TypeOK
    <3>2. q # r => ~InFlight(q)
      BY <2>0, <3>1, Alone
    <3> QED BY <2>2, <3>1, <3>2 DEF InFlight
  <2>5. ASSUME NEW r \in Requests, Ask(r) \/ Select(r) \/ Store(r) \/ Send(r)
                 \/ \E c \in Requests : ReadWrong(r, c) \/ ReadToVerify(r, c) \/ ReadToReset(r, c)
        PROVE  FreshFor(q)'
    <3>1. CASE ~InFlight(r)'
      <4>1. PICK c \in Requests : ReadToVerify(r, c) \/ ReadToReset(r, c)
        BY <2>5, <3>1 DEF Ask, Select, Store, Send, ReadWrong, Go, InFlight, TypeOK
      <4>2. /\ q # r => pc'[q] = pc[q] /\ reads'[q] = reads[q] /\ found'[q] = found[q]
            /\ UNCHANGED <<targets, stored, code>>
        BY <4>1 DEF ReadToVerify, ReadToReset, Read, Finish, Go, TypeOK
      <4> QED BY <2>1, <2>2, <3>1, <4>2
    <3>2. CASE InFlight(r)' /\ q # r
      <4>1. ~InFlight(q)'
        BY <1>2, <3>2 DEF FlightInv, Overlap, Serial
      <4> QED BY <2>2, <4>1
    <3>3. CASE q = r /\ Ask(r)
      BY <3>3 DEF Ask, Go, FreshFor, TypeOK
    <3>4. CASE q = r /\ Select(r)
      BY <3>4 DEF Select, Go, FreshFor, TypeOK
    <3>5. CASE q = r /\ Store(r)
      BY <2>0, <3>5 DEF Store, Go, FreshFor, TypeOK
    <3>6. CASE q = r /\ Send(r)
      BY <2>0, <3>6 DEF Send, Go, FreshFor, TypeOK
    <3>7. ASSUME q = r, InFlight(r)', NEW c \in Requests,
                 ReadWrong(r, c) \/ ReadToVerify(r, c) \/ ReadToReset(r, c)
          PROVE  FreshFor(q)'
      <4>1. /\ reads'[r] = c /\ found'[r] = code[c].misses /\ UNCHANGED <<stored, code>>
            /\ ~code[c].used /\ code[c].misses < MaxAttempts
        BY <3>7 DEF ReadWrong, ReadToVerify, ReadToReset, Read, Usable, TypeOK
      <4>2. /\ pc'[r] \in {"miss", "verify", "reset"}
            /\ pc'[r] = "reset" => code[c].verified
        BY <3>7 DEF ReadWrong, ReadToVerify, ReadToReset, Go, Finish, InFlight, TypeOK
      <4> QED BY <3>7, <4>1, <4>2 DEF FreshFor
    <3> QED BY <2>5, <3>1, <3>2, <3>3, <3>4, <3>5, <3>6, <3>7
  <2>6. CASE Tick \/ UNCHANGED vars
    BY <2>1, <2>6 DEF Tick, vars
  <2> QED BY <2>3, <2>4, <2>5, <2>6 DEF Next
<1> QED BY <1>1, <1>2 DEF FreshInv

(* A step is one of Recovery's if it is one in what Recovery sees.         *)
LEMMA Seen ==
    /\ UNCHANGED <<mailed, Open, Entries, Confirmed, Spent>> => UNCHANGED Rec!vars
    /\ \A c \in Requests :
         /\ mailed' = mailed \cup {c}
         /\ UNCHANGED <<Open, Entries, Confirmed, Spent>>
         => Rec!Send(c)
    /\ \A c \in Requests :
         /\ c \in mailed \ stored
         /\ Open' = {c}
         /\ Entries' = [d \in stored \cup {c} |-> IF d = c THEN 0 ELSE Entries[d]]
         /\ UNCHANGED <<mailed, Confirmed, Spent>>
         => Rec!Issue(c)
    /\ \A c \in Open : code[c].misses < MaxAttempts =>
         /\ /\ Entries' = [Entries EXCEPT ![c] = @ + 1]
            /\ UNCHANGED <<mailed, Open, Confirmed, Spent>>
            => Rec!Mistake(c)
         /\ /\ Confirmed' = Confirmed \cup {c}
            /\ UNCHANGED <<mailed, Open, Entries, Spent>>
            => Rec!Confirm(c)
         /\ /\ c \in Confirmed \ Spent /\ Open' = {} /\ Spent' = Spent \cup {c}
            /\ UNCHANGED <<mailed, Entries, Confirmed>>
            => Rec!Reset(c)
<1>1. DOMAIN Entries = stored /\ \A c \in Open : Entries[c] = code[c].misses
  BY DEF Entries, Open
<1> QED BY <1>1 DEF Rec!vars, Rec!Send, Rec!Issue, Rec!issued, Rec!Good, Rec!Mistake, Rec!Confirm,
     Rec!Reset, Open, Entries, Confirmed, Spent

(* No password was reset in a step.                                        *)
LEMMA SpentSame ==
    ASSUME \A q \in Requests : outcome'[q] = "reset" <=> outcome[q] = "reset",
           \A q \in Requests : outcome[q] = "reset" => reads'[q] = reads[q]
    PROVE  Spent' = Spent
<1>1. \A c \in Requests : ResetWith(c)' = ResetWith(c)
  BY DEF ResetWith
<1> QED BY <1>1 DEF Spent

(* Steps that Recovery does not see.                                       *)
LEMMA Unseen ==
    ASSUME TypeOK, PhaseInv,
           \/ \E r \in Requests :
                \/ Unavailable(r) \/ Ask(r) \/ AskedTooMuch(r) \/ Select(r) \/ Store(r)
                \/ ReadNone(r) \/ Interrupt(r)
                \/ \E c \in Requests : ReadWrong(r, c) \/ ReadToVerify(r, c) \/ ReadToReset(r, c)
           \/ Tick \/ UNCHANGED vars
    PROVE  UNCHANGED Rec!vars
<1> USE DEF database, locals
<1>1. UNCHANGED <<mailed, stored, code>>
  BY DEF Unavailable, Ask, AskedTooMuch, Select, Store, ReadNone, Interrupt,
     ReadWrong, ReadToVerify, ReadToReset, Read, Tick, vars
<1>2. UNCHANGED <<mailed, Open, Entries, Confirmed>>
  BY <1>1 DEF Open, Entries, Confirmed
<1>3. ASSUME NEW r \in Requests,
             \/ Unavailable(r) \/ Ask(r) \/ AskedTooMuch(r) \/ Select(r) \/ Store(r)
             \/ ReadNone(r) \/ Interrupt(r)
             \/ \E c \in Requests : ReadWrong(r, c) \/ ReadToVerify(r, c) \/ ReadToReset(r, c)
      PROVE  Spent' = Spent
  <2>1. /\ pc[r] # "over"
        /\ UNCHANGED outcome
           \/ \E what \in {"accepted", "invalid", "verified", "interrupted"} :
                outcome' = [outcome EXCEPT ![r] = what]
        /\ \A q \in Requests \ {r} : reads'[q] = reads[q]
    BY <1>3 DEF Unavailable, Ask, AskedTooMuch, Select, Store, ReadNone, Interrupt,
       ReadWrong, ReadToVerify, ReadToReset, Read, InFlight, Finish, TypeOK
  <2>2. outcome[r] = "none"
    BY <2>1 DEF PhaseInv
  <2> QED BY <2>1, <2>2, SpentSame DEF TypeOK
<1>4. ASSUME Tick \/ UNCHANGED vars
      PROVE  Spent' = Spent
  BY <1>4, SpentSame DEF Tick, vars
<1>5. Spent' = Spent
  BY <1>3, <1>4
<1> QED BY <1>2, <1>5, Seen

(* A message that may have gone out is in the mailbox or not.              *)
LEMMA Sends ==
    ASSUME TypeOK, PhaseInv, NEW r \in Requests, Send(r) \/ DeliveryFails(r)
    PROVE  [Rec!Next]_(Rec!vars)
<1> USE DEF database, locals
<1>1. /\ mailed' \in {mailed, mailed \cup {r}} /\ UNCHANGED <<stored, code, reads>>
      /\ pc[r] = "send" /\ (UNCHANGED outcome \/ outcome' = [outcome EXCEPT ![r] = "accepted"])
  BY DEF Send, DeliveryFails, Finish
<1>2. UNCHANGED <<Open, Entries, Confirmed>>
  BY <1>1 DEF Open, Entries, Confirmed
<1>3. Spent' = Spent
  <2>1. outcome[r] = "none"
    BY <1>1 DEF PhaseInv
  <2> QED BY <1>1, <2>1, SpentSame DEF TypeOK
<1>4. CASE mailed' = mailed
  BY <1>2, <1>3, <1>4, Seen
<1>5. CASE mailed' = mailed \cup {r}
  <2>1. Rec!Send(r)
    BY <1>2, <1>3, <1>5, Seen
  <2> QED BY <2>1 DEF Rec!Next
<1> QED BY <1>1, <1>4, <1>5

(* A new code is good, and retires the one before it.                      *)
LEMMA CommitIssues ==
    ASSUME TypeOK, PhaseInv, NEW r \in Requests, FreshFor(r), r \in mailed, Commit(r)
    PROVE  Rec!Next
<1> USE DEF database, locals
<1>1. /\ pc[r] = "commit" /\ stored' = stored \cup {r} /\ UNCHANGED <<mailed, reads>>
      /\ outcome' = [outcome EXCEPT ![r] = "coded"] /\ outcome[r] = "none" /\ r \notin stored
  BY DEF Commit, Finish, PhaseInv
<1>2. /\ code'[r].used = FALSE /\ code'[r].verified = FALSE /\ code'[r].misses = 0
  BY DEF Commit, NewRow
<1>3. \A c \in stored : /\ code'[c].used
                        /\ code'[c].verified = code[c].verified /\ code'[c].misses = code[c].misses
  <2> TAKE c \in stored
  <2>1. c \in Requests /\ code[c] \in Rows /\ c # r
    BY <1>1 DEF TypeOK
  <2>2. CASE code[c].used
    <3>1. c \notin targets[r]
      BY <1>1, <2>2 DEF FreshFor
    <3> QED BY <2>1, <2>2, <3>1 DEF Commit
  <2>3. CASE ~code[c].used
    <3>1. c \in targets[r]
      BY <1>1, <2>3 DEF FreshFor
    <3>2. code'[c] = [code[c] EXCEPT !.used = TRUE]
      BY <2>1, <3>1 DEF Commit
    <3> QED BY <2>1, <3>2 DEF Rows
  <2> QED BY <2>2, <2>3
<1>4. Open' = {r} /\ Confirmed' = Confirmed
  BY <1>1, <1>2, <1>3 DEF Open, Confirmed
<1>5. Entries' = [d \in stored \cup {r} |-> IF d = r THEN 0 ELSE Entries[d]]
  BY <1>1, <1>2, <1>3 DEF Entries
<1>6. Spent' = Spent
  BY <1>1, SpentSame DEF TypeOK
<1>7. Rec!Issue(r)
  BY <1>1, <1>4, <1>5, <1>6, Seen
<1> QED BY <1>7 DEF Rec!Next

(* An entry or a reset counts for the one code that is good.               *)
LEMMA UsesCode ==
    ASSUME TypeOK, PhaseInv, ReuseInv, RetiredInv, Serial,
           NEW r \in Requests, FreshFor(r), Miss(r) \/ MarkVerified(r) \/ Consume(r)
    PROVE  Rec!Next
<1> USE DEF database, locals
<1>1. PICK c \in Requests : c = reads[r]
  BY DEF TypeOK, Miss, MarkVerified, Consume
<1>2. /\ c \in stored /\ ~code[c].used /\ code[c].misses < MaxAttempts
      /\ found[r] = code[c].misses /\ code[c] \in Rows
      /\ Consume(r) => code[c].verified
  BY <1>1 DEF TypeOK, Miss, MarkVerified, Consume, FreshFor
<1>3. UNCHANGED <<mailed, stored, reads>> /\ outcome[r] = "none"
  BY DEF Miss, MarkVerified, Consume, PhaseInv
<1>4. c \in Open
  BY <1>2 DEF Open
<1>5. \A d \in stored \ {c} : code'[d] = code[d]
  BY <1>1 DEF Miss, MarkVerified, Consume, TypeOK
<1>6. CASE Miss(r)
  <2>1. /\ code'[c].misses = code[c].misses + 1 /\ code'[c].used = code[c].used
        /\ code'[c].verified = code[c].verified
    BY <1>1, <1>2, <1>6 DEF Miss, TypeOK, Rows
  <2>2. outcome' = [outcome EXCEPT ![r] = "missed"]
    BY <1>6 DEF Miss, Finish
  <2>3. Open' = Open /\ Confirmed' = Confirmed
    BY <1>3, <1>5, <2>1 DEF Open, Confirmed
  <2>4. Entries' = [Entries EXCEPT ![c] = @ + 1]
    BY <1>2, <1>3, <1>5, <2>1 DEF Entries
  <2>5. Spent' = Spent
    BY <1>3, <2>2, SpentSame DEF TypeOK
  <2>6. Rec!Mistake(c)
    BY <1>2, <1>3, <1>4, <2>3, <2>4, <2>5, Seen
  <2> QED BY <2>6 DEF Rec!Next
<1>7. CASE MarkVerified(r)
  <2>1. /\ code'[c].misses = code[c].misses /\ code'[c].used = code[c].used
        /\ code'[c].verified
    BY <1>1, <1>2, <1>7 DEF MarkVerified, TypeOK, Rows
  <2>2. outcome' = [outcome EXCEPT ![r] = "verified"]
    BY <1>7 DEF MarkVerified, Finish
  <2>3. Open' = Open /\ Confirmed' = Confirmed \cup {c} /\ Entries' = Entries
    BY <1>2, <1>3, <1>5, <2>1 DEF Open, Confirmed, Entries
  <2>4. Spent' = Spent
    BY <1>3, <2>2, SpentSame DEF TypeOK
  <2>5. Rec!Confirm(c)
    BY <1>2, <1>3, <1>4, <2>3, <2>4, Seen
  <2> QED BY <2>5 DEF Rec!Next
<1>8. CASE Consume(r)
  <2>1. /\ code'[c].misses = code[c].misses /\ code'[c].used
        /\ code'[c].verified = code[c].verified
    BY <1>1, <1>2, <1>8 DEF Consume, TypeOK, Rows
  <2>2. outcome' = [outcome EXCEPT ![r] = "reset"]
    BY <1>8 DEF Consume, Finish
  <2>3. \A d \in stored : d # c => code[d].used
    BY <1>2 DEF RetiredInv, Overlap, Serial, TypeOK
  <2>4. Open' = {} /\ Confirmed' = Confirmed /\ Entries' = Entries
    BY <1>3, <1>5, <2>1, <2>3 DEF Open, Confirmed, Entries
  <2>5. ResetWith(c) = {}
    BY <1>2 DEF ResetWith, ReuseInv
  <2>6. /\ ResetWith(c)' = {r}
        /\ \A d \in Requests \ {c} : ResetWith(d)' = ResetWith(d)
    BY <1>1, <1>3, <2>2, <2>5 DEF ResetWith, TypeOK
  <2>7. Spent' = Spent \cup {c} /\ c \in Confirmed \ Spent
    BY <1>2, <1>8, <2>5, <2>6 DEF Spent, Confirmed
  <2>8. Rec!Reset(c)
    BY <1>2, <1>3, <1>4, <2>4, <2>7, Seen
  <2> QED BY <2>8 DEF Rec!Next
<1> QED BY <1>6, <1>7, <1>8

(* A request works from what is stored.                                    *)
LEMMA Freshness == Spec => []FreshInv
<1>1. Init => FreshInv
  BY DEF Init, FreshInv, FreshFor
<1>2. CodeInv /\ FreshInv /\ [Next]_vars => FreshInv'
  BY NextFresh, NextFlight DEF CodeInv
<1> QED BY <1>1, <1>2, Codes, PTL DEF Spec

(* Requests that follow one another, interrupted or failing as they may,   *)
(* recover a password as Recovery says: one code is good at a time, and    *)
(* resets the password after it was confirmed, once, before it was         *)
(* mistaken too often (forgot_password, verify_reset_otp, reset_password). *)
THEOREM RefinesRecovery == Spec => SerialIsRecovery
<1>1. Init => Rec!Init
  <2> SUFFICES ASSUME Init PROVE Rec!Init
    OBVIOUS
  <2>1. stored = {} /\ mailed = {} /\ \A c \in Requests : ResetWith(c) = {}
    BY DEF Init, ResetWith
  <2> QED BY <2>1 DEF Rec!Init
<1>2. ASSUME CodeInv, FreshInv, [Next]_vars, Serial'
      PROVE  [Rec!Next]_(Rec!vars)
  <2>1. Serial /\ \A r \in Requests : FreshFor(r)
    BY <1>2, SerialBefore DEF CodeInv, FreshInv
  <2>2. ASSUME NEW r \in Requests, Commit(r)
        PROVE  Rec!Next
    <3>1. r \in mailed
      BY <1>2, <2>2 DEF FreshInv, Commit
    <3> QED BY <1>2, <2>1, <2>2, <3>1, CommitIssues DEF CodeInv
  <2>3. ASSUME NEW r \in Requests, Miss(r) \/ MarkVerified(r) \/ Consume(r)
        PROVE  Rec!Next
    BY <1>2, <2>1, <2>3, UsesCode DEF CodeInv
  <2> QED BY <1>2, <2>2, <2>3, Unseen, Sends DEF CodeInv, Next
<1>3. CodeInv /\ FreshInv /\ [Next]_vars => [Serial' => [Rec!Next]_(Rec!vars)]_vars
  BY <1>2
<1> QED BY <1>1, <1>3, Codes, Freshness, PTL DEF Spec, SerialIsRecovery

-----------------------------------------------------------------------------
(* A password is reset with a confirmed code, whatever overlaps            *)

(* The code a request worked with, and the request that confirmed it.      *)
ConfirmedBy(v, c) == outcome[v] = "verified" /\ reads[v] = c

(* Who is not begun has overtaken nobody.                                  *)
UnseenInv == \A q, r \in Requests : pc[r] = "new" => r \notin during[q]

ConfirmInv ==
    /\ stored \subseteq mailed
    /\ \A c \in stored : code[c].verified => \E v \in Requests : ConfirmedBy(v, c)
    /\ \A r \in Requests :
         Resetting(r) =>
            /\ code[reads[r]].verified
            /\ \E v \in Requests : ConfirmedBy(v, reads[r]) /\ ~Overlap(v, r)

(* The password is reset only by a request that presented a code which had *)
(* been mailed and which an earlier request, over when this one began, had *)
(* confirmed.                                                              *)
ResetIsConfirmed ==
    \A r \in Requests :
        outcome[r] = "reset" =>
            /\ reads[r] \in stored \cap mailed /\ code[reads[r]].used
            /\ \E v \in Requests \ {r} : ConfirmedBy(v, reads[r]) /\ ~Overlap(v, r)

(* A request that is looked around for is under way.                       *)
LEMMA NextUnseen ==
    ASSUME TypeOK, PhaseInv, UnseenInv, [Next]_vars
    PROVE  UnseenInv'
<1>1. \A r \in Requests : pc'[r] = "new" => pc[r] = "new"
  <2>1. ASSUME NEW q \in Requests, NEW r \in Requests,
               \/ Unavailable(q) \/ Ask(q) \/ AskedTooMuch(q) \/ Select(q) \/ Store(q)
               \/ Send(q) \/ DeliveryFails(q) \/ Commit(q) \/ ReadNone(q)
               \/ Miss(q) \/ MarkVerified(q) \/ Consume(q) \/ Interrupt(q)
               \/ \E c \in Requests : ReadWrong(q, c) \/ ReadToVerify(q, c) \/ ReadToReset(q, c),
               pc'[r] = "new"
        PROVE  pc[r] = "new"
    <3>1. \E step \in Steps \ {"new"} : Go(q, step)
      BY <2>1 DEF Unavailable, Ask, AskedTooMuch, Select, Store, Send, DeliveryFails, Commit,
         ReadNone, ReadWrong, ReadToVerify, ReadToReset, Miss, MarkVerified, Consume,
         Interrupt, Finish, Steps
    <3> QED BY <2>1, <3>1 DEF Go, TypeOK
  <2>2. Tick \/ UNCHANGED vars => pc' = pc
    BY DEF Tick, vars
  <2> QED BY <2>1, <2>2 DEF Next
<1>2. CASE UNCHANGED <<pc, during, outcome, reads>>
  BY <1>2 DEF UnseenInv
<1>3. ASSUME NEW r \in Requests, pc[r] # "over",
             \A q \in Requests \ {r} : pc'[q] = pc[q] /\ during'[q] = during[q],
             \/ pc[r] # "new" /\ during' = during
             \/ pc[r] = "new" /\ during'[r] = {q \in Requests \ {r} : InFlight(q)}
             \/ pc[r] = "new" /\ pc'[r] = "over" /\ during' = during
      PROVE  UnseenInv'
  BY <1>1, <1>3 DEF UnseenInv, InFlight
<1> QED BY <1>1, <1>2, <1>3, Moves

(* A stored code that was confirmed stays so, and was confirmed by a       *)
(* request that was told.                                                  *)
LEMMA VerifiedStays ==
    ASSUME TypeOK, PhaseInv, [Next]_vars
    PROVE  /\ \A c \in stored : c \in stored' /\ (code[c].verified => code'[c].verified)
           /\ \A c \in stored' :
                code'[c].verified =>
                   \/ c \in stored /\ code[c].verified
                   \/ \E v \in Requests : ConfirmedBy(v, c)'
<1> USE DEF database, locals
<1>1. stored \subseteq Requests /\ \A c \in stored : code[c] \in Rows
  BY DEF TypeOK
<1>2. CASE UNCHANGED <<stored, code>>
  BY <1>2
<1>3. ASSUME NEW r \in Requests, Commit(r)
      PROVE  /\ stored' = stored \cup {r} /\ r \notin stored /\ ~code'[r].verified
             /\ \A c \in stored :
                  code'[c] = code[c] \/ code'[c] = [code[c] EXCEPT !.used = TRUE]
  BY <1>1, <1>3 DEF Commit, PhaseInv, NewRow, TypeOK
<1>4. ASSUME NEW r \in Requests, Miss(r) \/ Consume(r)
      PROVE  /\ stored' = stored
             /\ \A c \in stored : \/ code'[c] = code[c]
                                  \/ code'[c] = [code[c] EXCEPT !.misses = found[r] + 1]
                                  \/ code'[c] = [code[c] EXCEPT !.used = TRUE]
  BY <1>1, <1>4 DEF Miss, Consume, TypeOK
<1>5. ASSUME NEW r \in Requests, Commit(r) \/ Miss(r) \/ Consume(r), NEW c \in stored
      PROVE  code'[c].verified = code[c].verified
  <2>1. CASE code'[c] = [code[c] EXCEPT !.misses = found[r] + 1]
    BY <1>1, <2>1 DEF Rows
  <2>2. CASE code'[c] = [code[c] EXCEPT !.used = TRUE]
    BY <1>1, <2>2 DEF Rows
  <2> QED BY <1>3, <1>4, <1>5, <2>1, <2>2
<1>6. ASSUME NEW r \in Requests, MarkVerified(r)
      PROVE  /\ stored' = stored /\ ConfirmedBy(r, reads[r])'
             /\ \A c \in stored : IF c = reads[r] THEN code'[c].verified ELSE code'[c] = code[c]
  BY <1>1, <1>6 DEF MarkVerified, Finish, ConfirmedBy, TypeOK, Rows
<1>7. ASSUME NEW r \in Requests, MarkVerified(r), NEW c \in stored, c = reads[r]
      PROVE  \E v \in Requests : ConfirmedBy(v, c)'
  BY <1>6, <1>7 DEF ConfirmedBy, MarkVerified
<1>8. ASSUME NEW r \in Requests,
             \/ Unavailable(r) \/ Ask(r) \/ AskedTooMuch(r) \/ Select(r) \/ Store(r)
             \/ Send(r) \/ DeliveryFails(r) \/ ReadNone(r) \/ Interrupt(r)
             \/ \E c \in Requests : ReadWrong(r, c) \/ ReadToVerify(r, c) \/ ReadToReset(r, c)
      PROVE  UNCHANGED <<stored, code>>
  BY <1>8 DEF Unavailable, Ask, AskedTooMuch, Select, Store, Send, DeliveryFails, ReadNone,
              Interrupt, ReadWrong, ReadToVerify, ReadToReset, Read
<1>9. CASE Tick \/ UNCHANGED vars
  BY <1>9 DEF Tick, vars
<1>10. ASSUME NEW r \in Requests, Commit(r) \/ Miss(r) \/ Consume(r)
       PROVE  /\ \A c \in stored : c \in stored' /\ code'[c].verified = code[c].verified
              /\ \A c \in stored' : code'[c].verified => c \in stored
  BY <1>3, <1>4, <1>5, <1>10
<1>11. CASE \E r \in Requests : Commit(r) \/ Miss(r) \/ Consume(r)
  BY <1>10, <1>11
<1>12. CASE \E r \in Requests : MarkVerified(r)
  BY <1>6, <1>7, <1>12
<1> QED BY <1>2, <1>8, <1>9, <1>11, <1>12 DEF Next

(* What became of a request stays, and who overlapped it.                  *)
LEMMA EndsStay ==
    ASSUME TypeOK, PhaseInv, [Next]_vars
    PROVE  /\ \A v, c \in Requests : ConfirmedBy(v, c) => ConfirmedBy(v, c)'
           /\ \A v, r \in Requests :
                outcome[v] # "none" /\ pc[r] # "new" /\ ~Overlap(v, r) => ~Overlap(v, r)'
<1>1. CASE UNCHANGED <<pc, during, outcome, reads>>
  BY <1>1 DEF ConfirmedBy, Overlap
<1>2. ASSUME NEW r \in Requests, pc[r] # "over",
             \A q \in Requests \ {r} : /\ during'[q] = during[q] /\ outcome'[q] = outcome[q]
                                       /\ reads'[q] = reads[q],
             pc[r] # "new" => during' = during
      PROVE  /\ \A v, c \in Requests : ConfirmedBy(v, c) => ConfirmedBy(v, c)'
             /\ \A v, q \in Requests :
                  outcome[v] # "none" /\ pc[q] # "new" /\ ~Overlap(v, q) => ~Overlap(v, q)'
  BY <1>2 DEF ConfirmedBy, Overlap, PhaseInv
<1> QED BY <1>1, <1>2, Moves

(* A reset begins with a code that was confirmed before.                   *)
LEMMA NextConfirm ==
    ASSUME TypeOK, PhaseInv, UnseenInv, FreshInv, ConfirmInv, [Next]_vars
    PROVE  ConfirmInv'
<1> USE DEF database, locals
<1>1. stored' \subseteq mailed'
  <2>1. ASSUME NEW r \in Requests, Commit(r)
        PROVE  stored' \subseteq mailed'
    BY <2>1 DEF Commit, FreshInv, ConfirmInv
  <2>2. ASSUME NEW r \in Requests,
               \/ Unavailable(r) \/ Ask(r) \/ AskedTooMuch(r) \/ Select(r) \/ Store(r)
               \/ Send(r) \/ DeliveryFails(r) \/ ReadNone(r) \/ Interrupt(r)
               \/ Miss(r) \/ MarkVerified(r) \/ Consume(r)
               \/ \E c \in Requests : ReadWrong(r, c) \/ ReadToVerify(r, c) \/ ReadToReset(r, c)
        PROVE  stored' = stored /\ mailed \subseteq mailed'
    BY <2>2 DEF Unavailable, Ask, AskedTooMuch, Select, Store, Send, DeliveryFails, ReadNone,
                Interrupt, Miss, MarkVerified, Consume, ReadWrong, ReadToVerify, ReadToReset, Read
  <2>3. CASE Tick \/ UNCHANGED vars
    BY <2>3 DEF Tick, vars, ConfirmInv
  <2> QED BY <2>1, <2>2, <2>3 DEF Next, ConfirmInv
<1>2. \A c \in stored' : code'[c].verified => \E v \in Requests : ConfirmedBy(v, c)'
  BY VerifiedStays, EndsStay DEF ConfirmInv, TypeOK
<1>3. ASSUME NEW r \in Requests, Resetting(r), reads'[r] = reads[r]
      PROVE  /\ code'[reads'[r]].verified
             /\ \E v \in Requests : ConfirmedBy(v, reads[r])' /\ ~Overlap(v, r)'
  <2>1. /\ pc[r] # "new" /\ reads[r] \in stored /\ reads[r] \in Requests
    BY <1>3 DEF Resetting, PhaseInv, TypeOK
  <2>2. PICK v \in Requests : ConfirmedBy(v, reads[r]) /\ ~Overlap(v, r)
    BY <1>3 DEF ConfirmInv
  <2>3. outcome[v] # "none"
    BY <2>2 DEF ConfirmedBy
  <2>4. PICK c \in Requests : c = reads[r]
    BY <2>1
  <2>5. ConfirmedBy(v, c)' /\ ~Overlap(v, r)'
    BY <2>1, <2>2, <2>3, <2>4, EndsStay
  <2>6. code'[c].verified
    BY <1>3, <2>1, <2>4, VerifiedStays DEF ConfirmInv
  <2> QED BY <1>3, <2>4, <2>5, <2>6 DEF ConfirmedBy
<1>4. ASSUME NEW r \in Requests, Resetting(r)', ~Resetting(r)
      PROVE  /\ code'[reads'[r]].verified
             /\ \E v \in Requests : ConfirmedBy(v, reads[r])' /\ ~Overlap(v, r)'
  <2>1. PICK c \in Requests : ReadToReset(r, c) /\ pc'[r] = "reset"
    <3>1. pc'[r] # pc[r] \/ outcome'[r] # outcome[r]
      BY <1>4 DEF Resetting
    <3>2. ASSUME NEW q \in Requests,
                 \/ Unavailable(q) \/ Ask(q) \/ AskedTooMuch(q) \/ Select(q) \/ Store(q)
                 \/ Send(q) \/ DeliveryFails(q) \/ Commit(q) \/ ReadNone(q)
                 \/ Miss(q) \/ MarkVerified(q) \/ Consume(q) \/ Interrupt(q)
                 \/ \E c \in Requests : ReadWrong(q, c) \/ ReadToVerify(q, c)
          PROVE  FALSE
      <4>1. /\ \A p \in Requests \ {q} : pc'[p] = pc[p] /\ outcome'[p] = outcome[p]
            /\ ~Resetting(q)' \/ Resetting(q)
        BY <3>2 DEF Unavailable, Ask, AskedTooMuch, Select, Store, Send, DeliveryFails, Commit,
           ReadNone, ReadWrong, ReadToVerify, Miss, MarkVerified, Consume,
           Interrupt, Finish, Go, Resetting, TypeOK, PhaseInv
      <4> QED BY <1>4, <3>1, <4>1
    <3>3. ~(Tick \/ UNCHANGED vars)
      BY <3>1 DEF Tick, vars
    <3>4. PICK q \in Requests, c \in Requests : ReadToReset(q, c)
      BY <3>2, <3>3 DEF Next
    <3>5. q = r /\ pc'[r] = "reset"
      BY <1>4, <3>1, <3>4 DEF ReadToReset, Finish, Go, Resetting, TypeOK, Read, PhaseInv
    <3> QED BY <3>4, <3>5
  <2>2. /\ c \in stored /\ code[c].verified /\ UNCHANGED <<code, stored>> /\ reads'[r] = c
        /\ pc[r] = "new" /\ during' = [during EXCEPT ![r] = {q \in Requests \ {r} : InFlight(q)}]
    BY <2>1 DEF ReadToReset, Read, Usable, Latest, Observe, Finish, Go, TypeOK
  <2>3. PICK v \in Requests : ConfirmedBy(v, c)
    BY <2>2 DEF ConfirmInv
  <2>4. pc[v] = "over" /\ v # r /\ ConfirmedBy(v, c)'
    BY <2>2, <2>3, EndsStay DEF ConfirmedBy, PhaseInv
  <2>5. ~Overlap(v, r)'
    BY <2>2, <2>4 DEF Overlap, InFlight, UnseenInv, TypeOK
  <2> QED BY <2>2, <2>4, <2>5 DEF ConfirmedBy
<1>5. \A r \in Requests : Resetting(r) => reads'[r] = reads[r]
  BY Moves DEF Resetting, PhaseInv
<1> QED BY <1>1, <1>2, <1>3, <1>4, <1>5 DEF ConfirmInv

(* No interleaving of requests resets the password without a confirmed     *)
(* code: the request that confirmed it was over before the one that reset  *)
(* it began (verify_reset_otp, reset_password).                            *)
THEOREM ResetsAreConfirmed == Spec => []ResetIsConfirmed
<1>1. Init => UnseenInv /\ ConfirmInv
  BY DEF Init, UnseenInv, ConfirmInv, Resetting
<1>2. CodeInv /\ UnseenInv /\ FreshInv /\ ConfirmInv /\ [Next]_vars => UnseenInv' /\ ConfirmInv'
  BY NextUnseen, NextConfirm DEF CodeInv
<1>3. CodeInv /\ ConfirmInv => ResetIsConfirmed
  <2> SUFFICES ASSUME CodeInv, ConfirmInv, NEW r \in Requests, outcome[r] = "reset"
               PROVE  /\ reads[r] \in stored \cap mailed /\ code[reads[r]].used
                      /\ \E v \in Requests \ {r} : ConfirmedBy(v, reads[r]) /\ ~Overlap(v, r)
    BY DEF ResetIsConfirmed
  <2>1. PICK v \in Requests : ConfirmedBy(v, reads[r]) /\ ~Overlap(v, r)
    BY DEF ConfirmInv, Resetting
  <2>2. v # r
    BY <2>1 DEF ConfirmedBy
  <2>3. reads[r] \in stored
    BY DEF CodeInv, PhaseInv, TypeOK
  <2> QED BY <2>1, <2>2, <2>3 DEF CodeInv, ReuseInv, ConfirmInv
<1> QED BY <1>1, <1>2, <1>3, Codes, Freshness, PTL DEF Spec
=============================================================================
