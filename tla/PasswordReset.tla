---------------------------- MODULE PasswordReset -----------------------------
(***************************************************************************)
(* Password recovery of one account: a code is requested (forgot_password),*)
(* confirmed (verify_reset_otp) and spent (reset_password).  A request is  *)
(* a coroutine; each step is one statement, with its commit where the code *)
(* commits, at read committed: an UPDATE takes its rows from the snapshot  *)
(* it begins with, waits for a row another transaction has written, and    *)
(* keeps its locks to the end of the transaction.  A code is named by the  *)
(* request it was generated for, so that codes never coincide by chance.   *)
(***************************************************************************)
EXTENDS Naturals, FiniteSets

CONSTANTS
    Requests, NoRequest,
    Cooldown,       \* PASSWORD_RESET_REQUEST_COOLDOWN_SECONDS
    Window, Limit,  \* PASSWORD_RESET_REQUEST_WINDOW_MINUTES, _LIMIT
    Ttl,            \* PASSWORD_RESET_CODE_TTL_MINUTES
    MaxAttempts,    \* PASSWORD_RESET_MAX_ATTEMPTS
    MaxTime         \* bound on the clock

ASSUME NoRequestAssumption == NoRequest \notin Requests
ASSUME SettingsAssumption ==
    /\ {Cooldown, Window, Ttl, MaxTime} \subseteq Nat
    /\ {Limit, MaxAttempts} \subseteq Nat \ {0}

VARIABLES
    now,        \* the clock, in ticks
    stored,     \* the codes that have a committed row
    code,       \* password_reset_codes: the committed row of a code
    nextId,     \* its primary key sequence
    mailed,     \* codes that reached the client's mailbox
    pc,         \* where a request is
    asked,      \* a forgot request: requested_at and id of its row
    targets,    \* a forgot request: rows its UPDATE selected, then wrote
    reads,      \* a verify or reset request: the code it read
    found,      \* a verify or reset request: attempt_count as it read it
    outcome,    \* how a request ended
    during      \* history: requests in flight when it first read

database == <<stored, code, nextId>>
locals == <<asked, targets, reads, found, during>>
vars == <<now, database, mailed, pc, locals, outcome>>

Rows == [at: Nat, id: Nat, verified: BOOLEAN, used: BOOLEAN, misses: Nat]
Steps == {"new", "invalidate", "store", "send", "commit",
          "miss", "verify", "reset", "over"}
Outcomes == {"none", "accepted", "coded", "invalid", "missed", "verified",
             "reset", "interrupted"}

NewRow(at, id) ==
    [at |-> at, id |-> id, verified |-> FALSE, used |-> FALSE, misses |-> 0]

InFlight(r) == pc[r] \notin {"new", "over"}
Go(r, step) == pc' = [pc EXCEPT ![r] = step]
Finish(r, what) == Go(r, "over") /\ outcome' = [outcome EXCEPT ![r] = what]

Observe(r) == during' = [during EXCEPT ![r] = {q \in Requests \ {r} : InFlight(q)}]

\* Mutant: the rows are locked by a statement before the one that waits.
LockedFromSelect(c, r) ==
    \E q \in Requests \ {r} : pc[q] \in {"store", "send", "commit"} /\ c \in targets[q]

(* A row another transaction has written and not yet committed.            *)
Locked(c, r) ==
    \E q \in Requests \ {r} : pc[q] \in {"send", "commit"} /\ c \in targets[q]

Newer(c, d) ==
    \/ code[c].at > code[d].at
    \/ code[c].at = code[d].at /\ code[c].id > code[d].id

(* get_latest_for_user *)
Latest(c) == c \in stored /\ \A d \in stored \ {c} : Newer(c, d)

-----------------------------------------------------------------------------
Init ==
    /\ now = 0
    /\ stored = {}
    /\ code = [r \in Requests |-> NewRow(0, 0)]
    /\ nextId = 0
    /\ mailed = {}
    /\ pc = [r \in Requests |-> "new"]
    /\ asked = [r \in Requests |-> [at |-> 0, id |-> 0]]
    /\ targets = [r \in Requests |-> {}]
    /\ reads = [r \in Requests |-> NoRequest]
    /\ found = [r \in Requests |-> 0]
    /\ outcome = [r \in Requests |-> "none"]
    /\ during = [r \in Requests |-> {}]

(* An account that is unknown, inactive or without a password: the answer  *)
(* is that of any other request, and nothing is read or written.           *)
Unavailable(r) ==
    /\ pc[r] = "new"
    /\ \E what \in {"accepted", "invalid"} : Finish(r, what)
    /\ UNCHANGED <<now, database, mailed, locals>>

-----------------------------------------------------------------------------
(* forgot_password *)

CoolingDown == \E c \in Requests : Latest(c) /\ code[c].at + Cooldown > now

\* Mutant: only the codes that can still be used are counted.
RecentUnused == {c \in stored : code[c].at + Window >= now /\ ~code[c].used}

(* count_requests_since *)
Recent == {c \in stored : code[c].at + Window >= now}

(* Rows only ever arrive, so reading the latest code and counting them in  *)
(* two statements refuses and admits what reading both at once does.       *)
MayAsk == Cardinality(Recent) < Limit /\ ~CoolingDown

Ask(r) ==
    /\ pc[r] = "new"
    /\ MayAsk
    /\ Observe(r)
    /\ asked' = [asked EXCEPT ![r].at = now]
    /\ Go(r, "invalidate")
    /\ UNCHANGED <<now, database, mailed, targets, reads, found, outcome>>

AskedTooMuch(r) ==
    /\ pc[r] = "new"
    /\ ~MayAsk
    /\ Finish(r, "accepted")
    /\ UNCHANGED <<now, database, mailed, locals>>

(* invalidate_active_for_user begins: its snapshot has the unused codes.   *)
Select(r) ==
    /\ pc[r] = "invalidate"
    /\ targets' = [targets EXCEPT ![r] = {c \in stored : ~code[c].used}]
    /\ Go(r, "store")
    /\ UNCHANGED <<now, database, mailed, asked, reads, found, outcome, during>>

\* Mutant: the invalidation is committed before the code is sent.
StoreInvalidated(r) ==
    /\ pc[r] = "store"
    /\ \A c \in targets[r] : ~Locked(c, r)
    /\ code' = [c \in Requests |-> IF c \in targets[r]
                                   THEN [code[c] EXCEPT !.used = TRUE] ELSE code[c]]
    /\ asked' = [asked EXCEPT ![r].id = nextId]
    /\ nextId' = nextId + 1
    /\ Go(r, "send")
    /\ UNCHANGED <<now, stored, mailed, targets, reads, found, outcome, during>>

(* The UPDATE ends, having waited for its rows and skipped the ones that   *)
(* were used meanwhile, and the new code is inserted and flushed.          *)
Store(r) ==
    /\ pc[r] = "store"
    /\ \A c \in targets[r] : ~Locked(c, r)
    /\ targets' = [targets EXCEPT ![r] = {c \in @ : ~code[c].used}]
    /\ asked' = [asked EXCEPT ![r].id = nextId]
    /\ nextId' = nextId + 1
    /\ Go(r, "send")
    /\ UNCHANGED <<now, stored, code, mailed, reads, found, outcome, during>>

(* send_code, with the transaction open.                                   *)
Send(r) ==
    /\ pc[r] = "send"
    /\ mailed' = mailed \cup {r}
    /\ Go(r, "commit")
    /\ UNCHANGED <<now, database, locals, outcome>>

(* The mail server, or the connection to it, failed: the transaction is    *)
(* rolled back.  The message may have been accepted all the same.          *)
DeliveryFails(r) ==
    /\ pc[r] = "send"
    /\ mailed' \in {mailed, mailed \cup {r}}
    /\ Finish(r, "accepted")
    /\ UNCHANGED <<now, database, locals>>

Commit(r) ==
    /\ pc[r] = "commit"
    /\ code' = [c \in Requests |->
                  IF c = r THEN NewRow(asked[r].at, asked[r].id)
                  ELSE IF c \in targets[r] THEN [code[c] EXCEPT !.used = TRUE]
                  ELSE code[c]]
    /\ stored' = stored \cup {r}
    /\ Finish(r, "coded")
    /\ UNCHANGED <<now, nextId, mailed, locals>>

-----------------------------------------------------------------------------
(* verify_reset_otp and reset_password *)

(* _get_reset_record *)
Usable(c) ==
    /\ Latest(c)
    /\ ~code[c].used
    /\ code[c].at + Ttl > now
    /\ code[c].misses < MaxAttempts

(* The code entered is one that was mailed, or a mistaken one.             *)
Entered == mailed \cup {NoRequest}

ReadNone(r) ==
    /\ pc[r] = "new"
    /\ ~ \E c \in Requests : Usable(c)
    /\ Finish(r, "invalid")
    /\ UNCHANGED <<now, database, mailed, locals>>

(* The record is read and the code compared, with no await in between.     *)
Read(r, c) ==
    /\ pc[r] = "new"
    /\ Usable(c)
    /\ Observe(r)
    /\ reads' = [reads EXCEPT ![r] = c]
    /\ found' = [found EXCEPT ![r] = code[c].misses]
    /\ UNCHANGED <<now, database, mailed, asked, targets>>

ReadWrong(r, c) ==
    /\ Entered \ {c} # {}
    /\ Read(r, c)
    /\ Go(r, "miss")
    /\ UNCHANGED outcome

ReadToVerify(r, c) ==
    /\ c \in Entered
    /\ Read(r, c)
    /\ IF code[c].verified
       THEN Finish(r, "verified")
       ELSE Go(r, "verify") /\ UNCHANGED outcome

\* Mutant: a code need not be confirmed.
ReadToResetAtOnce(r, c) ==
    /\ c \in Entered
    /\ Read(r, c)
    /\ Go(r, "reset")
    /\ UNCHANGED outcome

ReadToReset(r, c) ==
    /\ c \in Entered
    /\ Read(r, c)
    /\ IF code[c].verified
       THEN Go(r, "reset") /\ UNCHANGED outcome
       ELSE Finish(r, "invalid")

(* increment_attempts: the value read, plus one, is written to the row.    *)
Miss(r) ==
    /\ pc[r] = "miss"
    /\ ~Locked(reads[r], r)
    /\ code' = [code EXCEPT ![reads[r]].misses = found[r] + 1]
    /\ Finish(r, "missed")
    /\ UNCHANGED <<now, stored, nextId, mailed, locals>>

MarkVerified(r) ==
    /\ pc[r] = "verify"
    /\ ~Locked(reads[r], r)
    /\ code' = [code EXCEPT ![reads[r]].verified = TRUE]
    /\ Finish(r, "verified")
    /\ UNCHANGED <<now, stored, nextId, mailed, locals>>

\* Mutant: the password changes and the code stays usable.
ConsumeNothing(r) ==
    /\ pc[r] = "reset"
    /\ Finish(r, "reset")
    /\ UNCHANGED <<now, database, mailed, locals>>

(* The new password, consume and revoke_all_for_user are one transaction.  *)
Consume(r) ==
    /\ pc[r] = "reset"
    /\ ~Locked(reads[r], r)
    /\ code' = [code EXCEPT ![reads[r]].used = TRUE]
    /\ Finish(r, "reset")
    /\ UNCHANGED <<now, stored, nextId, mailed, locals>>

-----------------------------------------------------------------------------
(* The environment: time passes; an exception or a lost connection ends a  *)
(* request, and its open transaction with it.                              *)
Tick ==
    /\ now < MaxTime
    /\ now' = now + 1
    /\ UNCHANGED <<database, mailed, pc, locals, outcome>>

Interrupt(r) ==
    /\ InFlight(r)
    /\ Finish(r, "interrupted")
    /\ UNCHANGED <<now, database, mailed, locals>>

Next ==
    \/ \E r \in Requests :
         \/ Unavailable(r)
         \/ Ask(r) \/ AskedTooMuch(r) \/ Select(r) \/ Store(r)
         \/ Send(r) \/ DeliveryFails(r) \/ Commit(r)
         \/ ReadNone(r)
         \/ \E c \in Requests : ReadWrong(r, c) \/ ReadToVerify(r, c) \/ ReadToReset(r, c)
         \/ Miss(r) \/ MarkVerified(r) \/ Consume(r)
         \/ Interrupt(r)
    \/ Tick

Spec == Init /\ [][Next]_vars

(* What a request does once it has begun, the end of a wait included.      *)
Continue(r) ==
    \/ Select(r) \/ Store(r) \/ Send(r) \/ DeliveryFails(r) \/ Commit(r)
    \/ Miss(r) \/ MarkVerified(r) \/ Consume(r)

-----------------------------------------------------------------------------
(* The types of the variables; a request that writes has read a stored     *)
(* code, and a code that was verified or spent is a stored one.            *)
TypeOK ==
    /\ now \in 0..MaxTime
    /\ code \in [Requests -> Rows]
    /\ stored \subseteq Requests
    /\ nextId \in Nat
    /\ mailed \subseteq Requests
    /\ pc \in [Requests -> Steps]
    /\ asked \in [Requests -> [at: Nat, id: Nat]]
    /\ targets \in [Requests -> SUBSET Requests]
    /\ reads \in [Requests -> Requests \cup {NoRequest}]
    /\ found \in [Requests -> Nat]
    /\ outcome \in [Requests -> Outcomes]
    /\ during \in [Requests -> SUBSET Requests]
    /\ \A r \in Requests :
         /\ targets[r] \subseteq stored
         /\ reads[r] # NoRequest => reads[r] \in stored
         /\ pc[r] \in {"miss", "verify", "reset"} => reads[r] # NoRequest

Overlap(q, r) == q \in during[r] \/ r \in during[q]

ResetWith(c) == {r \in Requests : outcome[r] = "reset" /\ reads[r] = c}
MissedOn(c) == {r \in Requests : outcome[r] = "missed" /\ reads[r] = c}

(* A code resets the password once.                                        *)
OnlyOverlapReusesCode ==
    \A c \in Requests : \A q, r \in ResetWith(c) : q # r => Overlap(q, r)

(* A mistaken entry counts against its code.                               *)
OnlyOverlapLosesMiss ==
    \A c \in stored :
        (\A q, r \in MissedOn(c) : q # r => ~Overlap(q, r))
            => code[c].misses = Cardinality(MissedOn(c))

(* What is done with a code is recorded with it: two resets with one code  *)
(* were both under way at some time, and the attempts of a code count all  *)
(* mistaken entries of it, unless two of these were.                       *)
OnlyOverlapMiscounts == OnlyOverlapReusesCode /\ OnlyOverlapLosesMiss

(* A new code retires the ones before it, which a client may find in the   *)
(* same mailbox: codes requested one after the other are not both unused,  *)
(* they keep the cooldown, and no more than Limit of them fall in one      *)
(* window.                                                                 *)
OnlyOverlapCrowdsCodes ==
    /\ \A c, d \in stored :
         c # d /\ ~Overlap(c, d)
           => /\ code[c].used \/ code[d].used
              /\ code[c].at + Cooldown <= code[d].at \/ code[d].at + Cooldown <= code[c].at
    /\ \A S \in SUBSET stored :
         /\ Cardinality(S) > Limit
         /\ \A c, d \in S : c # d => ~Overlap(c, d)
         => \E c, d \in S : code[c].at + Window < code[d].at

(* A code stops working because it was spent or because another one was    *)
(* sent and stored: a request that fails on its way, at the mail server or *)
(* anywhere else, leaves the client with the code it had.                  *)
OnlyCodeRetiresCode ==
    \A c \in stored :
        code[c].used =>
            \/ ResetWith(c) # {}
            \/ \E d \in stored \ {c} : c \in targets[d]

(* Requests that wait for each other's rows never all wait: the one that   *)
(* holds the rows waits for nothing but the mail server, which answers or  *)
(* times out.                                                              *)
NeverAllWaiting ==
    (\E r \in Requests : InFlight(r))
        => \E r \in Requests : InFlight(r) /\ ENABLED Continue(r)

-----------------------------------------------------------------------------
(* As long as requests follow one another, whatever became of the ones     *)
(* before, recovery behaves as Recovery says: a code is good as soon as    *)
(* the transaction that sent it is committed, and until it is used.        *)
Serial == \A r \in Requests : during[r] = {}

Rec == INSTANCE Recovery
    WITH sent <- mailed,
         open <- {c \in stored : ~code[c].used},
         entries <- [c \in stored |-> code[c].misses],
         confirmed <- {c \in stored : code[c].verified},
         spent <- {c \in Requests : ResetWith(c) # {}}

SerialIsRecovery == Rec!Init /\ [][Serial' => [Rec!Next]_(Rec!vars)]_vars
=============================================================================
