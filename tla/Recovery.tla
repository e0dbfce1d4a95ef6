------------------------------- MODULE Recovery --------------------------------
(***************************************************************************)
(* What a client that waits for its answers may rely on: one code is good  *)
(* at a time, the last one it was sent; the password is reset with that    *)
(* code, after it was confirmed, before too many mistaken entries, once.   *)
(***************************************************************************)
EXTENDS Naturals

CONSTANTS Requests, MaxAttempts

VARIABLES
    sent,       \* codes that are in the client's mailbox
    open,       \* the code that is good, if any
    entries,    \* mistaken entries for each code that was ever good
    confirmed,  \* codes that were confirmed
    spent       \* codes the password was reset with

vars == <<sent, open, entries, confirmed, spent>>

issued == DOMAIN entries

Init ==
    /\ sent = {}
    /\ open = {}
    /\ entries = [c \in {} |-> 0]
    /\ confirmed = {}
    /\ spent = {}

Send(c) ==
    /\ sent' = sent \cup {c}
    /\ UNCHANGED <<open, entries, confirmed, spent>>

(* A code that may be in the mailbox is good from now on, and no other.    *)
Issue(c) ==
    /\ c \in sent \ issued
    /\ open' = {c}
    /\ entries' = [d \in issued \cup {c} |-> IF d = c THEN 0 ELSE entries[d]]
    /\ UNCHANGED <<sent, confirmed, spent>>

Good(c) == c \in open /\ entries[c] < MaxAttempts

Mistake(c) ==
    /\ Good(c)
    /\ entries' = [entries EXCEPT ![c] = @ + 1]
    /\ UNCHANGED <<sent, open, confirmed, spent>>

Confirm(c) ==
    /\ Good(c)
    /\ confirmed' = confirmed \cup {c}
    /\ UNCHANGED <<sent, open, entries, spent>>

Reset(c) ==
    /\ Good(c)
    /\ c \in confirmed \ spent
    /\ open' = {}
    /\ spent' = spent \cup {c}
    /\ UNCHANGED <<sent, entries, confirmed>>

Next ==
    \E c \in Requests : Send(c) \/ Issue(c) \/ Mistake(c) \/ Confirm(c) \/ Reset(c)

Spec == Init /\ [][Next]_vars
=============================================================================
