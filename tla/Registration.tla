---------------------------- MODULE Registration ----------------------------
(***************************************************************************)
(* Registering, verifying an e-mail address by a code, asking for another  *)
(* code, and changing the address, from app/routers/auth/users.py, with    *)
(* the rate limits and counters of app/core/redis.py.  One account; it is  *)
(* looked up by its address, and written by its id.                        *)
(*                                                                         *)
(* The code is a column of the row.  A handler reads the row in one step   *)
(* and writes it in another, of which others know nothing: there is no     *)
(* lock.  A request that dies is one that takes no further step.  Codes    *)
(* are numbers; 0 is none, or a guess that is wrong.  Keys are the ticks   *)
(* they have left.                                                         *)
(***************************************************************************)
EXTENDS Naturals, FiniteSets

CONSTANTS Visitors,      \* requests in flight
          Addresses,
          TryLimit,      \* 5 requests, and 5 wrong codes
          CodeLife,      \* 300 s: of a code, a limit and a counter
          ResendLife,    \* 120 s
          MaxCodes,      \* bound on plan.codes
          Plans,         \* bounds, one of which holds for a behaviour: see Plan
          Nobody

ASSUME RegistrationAssumption ==
    /\ {CodeLife, ResendLife} \subseteq Nat \ {0} /\ TryLimit \in Nat \ {0, 1}
    /\ MaxCodes \in Nat /\ Nobody \notin Addresses /\ IsFiniteSet(Visitors)
\* The requests in flight, with one of which none overlap, the addresses they are
\* about, how many codes are made, and whether time passes.
Plan == [visitors : SUBSET Visitors, addresses : SUBSET Addresses,
         codes : 0..MaxCodes, time : BOOLEAN]
ASSUME PlanAssumption == Plans \subseteq Plan

VARIABLES
    account,    \* the row of users
    issued,     \* codes made
    mailed,     \* to which address a code went
    tries,      \* Rate_limit_Email:{email}:verify_otp, and what it has left
    triesLeft,
    resent,     \* Rate_limit_Email:{email}:resend_otp: what it has left
    misses,     \* otp_failed_attempts:{email}, and what it has left, 0 for ever
    missesLeft,
    doing, memo,   \* per request: what comes next, what it was asked and has read
    guesses,    \* history: wrong guesses while a code was good
    provedBy,   \* history: the address whose code verified the account
    plan

limits           == <<tries, triesLeft, resent, misses, missesLeft>>
registrationVars == <<account, issued, mailed, limits, doing, memo, guesses, provedBy, plan>>

NoAccount == [email |-> Nobody, verified |-> FALSE, otp |-> 0, left |-> 0]
NoMemo    == [email |-> Nobody, given |-> 0, otp |-> 0, left |-> 0]
CodeIds   == 1..MaxCodes

RegistrationInit ==
    /\ account = NoAccount /\ issued = 0 /\ mailed = [c \in CodeIds |-> Nobody]
    /\ tries = [e \in Addresses |-> 0] /\ triesLeft = [e \in Addresses |-> 0]
    /\ resent = [e \in Addresses |-> 0]
    /\ misses = [e \in Addresses |-> 0] /\ missesLeft = [e \in Addresses |-> 0]
    /\ doing = [v \in Visitors |-> "nothing"] /\ memo = [v \in Visitors |-> NoMemo]
    /\ guesses = [c \in CodeIds |-> 0] /\ provedBy = Nobody
    /\ plan \in Plans

Then(v, label, locals) == /\ doing' = [doing EXCEPT ![v] = label]
                          /\ memo' = [memo EXCEPT ![v] = locals]
Replies(v) == Then(v, "nothing", NoMemo)

Arrives(v, e) == doing[v] = "nothing" /\ v \in plan.visitors /\ e \in plan.addresses

\* mutant: OTP_EXPIRY_MINUTES = 15
NewCodeLong(e) == [email |-> e, given |-> 0, otp |-> issued + 1, left |-> 3 * CodeLife]

\* The next code, good for five minutes from now.
NewCode(e) == [email |-> e, given |-> 0, otp |-> issued + 1, left |-> CodeLife]
MakeCode   == issued < plan.codes /\ issued' = issued + 1

---------------------------------------------------------------------------
\* POST /account/register.  The address is UNIQUE: of two requests one gets a 409.

Register(v, e) ==
    /\ Arrives(v, e)
    /\ account = NoAccount
    /\ MakeCode /\ Then(v, "register", NewCode(e))
    /\ UNCHANGED <<account, mailed, limits, guesses, provedBy, plan>>

RegisterCommit(v) ==
    LET m == memo[v] IN
    /\ doing[v] = "register"
    /\ IF account = NoAccount
       THEN /\ account' = [email |-> m.email, verified |-> FALSE, otp |-> m.otp,
                           left |-> m.left]
            /\ mailed' = [mailed EXCEPT ![m.otp] = m.email]
       ELSE UNCHANGED <<account, mailed>>
    /\ Replies(v)
    /\ UNCHANGED <<issued, limits, guesses, provedBy, plan>>

---------------------------------------------------------------------------
\* POST /account/verify-otp

\* INCR and EXPIRE NX in one transaction; a request over the limit leaves no trace
\* that matters.
BeginVerify(v, e, given) ==
    /\ Arrives(v, e)
    /\ given # 0 => mailed[given] # Nobody
    /\ tries[e] < TryLimit
    /\ tries' = [tries EXCEPT ![e] = @ + 1]
    /\ triesLeft' = [triesLeft EXCEPT ![e] = IF tries[e] = 0 THEN CodeLife ELSE @]
    /\ Then(v, "verify", [NoMemo EXCEPT !.email = e, !.given = given])
    /\ UNCHANGED <<account, issued, mailed, resent, misses, missesLeft, guesses,
                   provedBy, plan>>

Unverified(v) == account.email = memo[v].email /\ ~account.verified

\* The code is compared before its age is; an old one is refused without a count.
VerifyRead(v) ==
    LET right == account.otp # 0 /\ memo[v].given = account.otp
        good  == account.otp # 0 /\ account.left > 0 IN
    /\ doing[v] = "verify"
    /\ \/ ~Unverified(v) /\ Replies(v) /\ UNCHANGED guesses
       \/ Unverified(v) /\ right /\ ~good /\ Replies(v) /\ UNCHANGED guesses
       \/ /\ Unverified(v) /\ right /\ good
          /\ Then(v, "activate", memo[v]) /\ UNCHANGED guesses
       \/ /\ Unverified(v) /\ ~right
          /\ Then(v, "miss", [memo[v] EXCEPT !.otp = account.otp])
          /\ guesses' = IF good THEN [guesses EXCEPT ![account.otp] = @ + 1] ELSE guesses
    /\ UNCHANGED <<account, issued, mailed, limits, provedBy, plan>>

Activate(v) ==
    /\ doing[v] = "activate"
    /\ account' = [account EXCEPT !.verified = TRUE, !.otp = 0, !.left = 0]
    /\ provedBy' = mailed[memo[v].given]
    /\ Then(v, "clear", memo[v])
    /\ UNCHANGED <<issued, mailed, limits, guesses, plan>>

ClearCounts(v) ==
    LET e == memo[v].email IN
    /\ doing[v] = "clear"
    /\ tries' = [tries EXCEPT ![e] = 0] /\ triesLeft' = [triesLeft EXCEPT ![e] = 0]
    /\ misses' = [misses EXCEPT ![e] = 0] /\ missesLeft' = [missesLeft EXCEPT ![e] = 0]
    /\ Replies(v)
    /\ UNCHANGED <<account, issued, mailed, resent, guesses, provedBy, plan>>

\* INCR, and EXPIRE in a command of its own.  Beyond TryLimit the model stops counting.
Miss(v) ==
    LET e == memo[v].email
        n == misses[e] + 1 IN
    /\ doing[v] = "miss"
    /\ misses' = [misses EXCEPT ![e] = IF n > TryLimit THEN @ ELSE n]
    /\ \/ n = 1 /\ Then(v, "window", memo[v])
       \/ n > 1 /\ n < TryLimit /\ Replies(v)
       \/ n >= TryLimit /\ Then(v, "spoil", memo[v])
    /\ UNCHANGED <<account, issued, mailed, tries, triesLeft, resent, missesLeft, guesses,
                   provedBy, plan>>

MissWindow(v) ==
    LET e == memo[v].email IN
    /\ doing[v] = "window"
    /\ missesLeft' = [missesLeft EXCEPT ![e] = IF misses[e] = 0 THEN 0 ELSE CodeLife]
    /\ Replies(v)
    /\ UNCHANGED <<account, issued, mailed, tries, triesLeft, resent, misses, guesses,
                   provedBy, plan>>

\* The code is taken out of the row, whichever it is by now, if the request has
\* read one.
Spoil(v) ==
    /\ doing[v] = "spoil"
    /\ account' = IF memo[v].otp = 0 THEN account
                  ELSE [account EXCEPT !.otp = 0, !.left = 0]
    /\ Then(v, "forget", memo[v])
    /\ UNCHANGED <<issued, mailed, limits, guesses, provedBy, plan>>

ForgetMisses(v) ==
    LET e == memo[v].email IN
    /\ doing[v] = "forget"
    /\ misses' = [misses EXCEPT ![e] = 0] /\ missesLeft' = [missesLeft EXCEPT ![e] = 0]
    /\ Replies(v)
    /\ UNCHANGED <<account, issued, mailed, tries, triesLeft, resent, guesses, provedBy, plan>>

---------------------------------------------------------------------------
\* POST /account/resend-otp, once in two minutes.

BeginResend(v, e) ==
    /\ Arrives(v, e)
    /\ resent[e] = 0
    /\ resent' = [resent EXCEPT ![e] = ResendLife]
    /\ Then(v, "resend", [NoMemo EXCEPT !.email = e])
    /\ UNCHANGED <<account, issued, mailed, tries, triesLeft, misses, missesLeft, guesses,
                   provedBy, plan>>

ResendRead(v) ==
    /\ doing[v] = "resend"
    /\ \/ Unverified(v) /\ MakeCode /\ Then(v, "recode", NewCode(memo[v].email))
       \/ ~Unverified(v) /\ Replies(v) /\ UNCHANGED issued
    /\ UNCHANGED <<account, mailed, limits, guesses, provedBy, plan>>

\* The mail goes to the address that the row has after the commit.
Recode(v) ==
    LET m == memo[v] IN
    /\ doing[v] = "recode"
    /\ account' = [account EXCEPT !.otp = m.otp, !.left = m.left]
    /\ mailed' = [mailed EXCEPT ![m.otp] = account.email]
    /\ Replies(v)
    /\ UNCHANGED <<issued, limits, guesses, provedBy, plan>>

---------------------------------------------------------------------------
\* PUT /account/{id} with another address, by a verified user who gives the password.
\* The code is mailed before the rest is checked and committed.

BeginChange(v, e) ==
    /\ Arrives(v, e)
    /\ account.verified /\ account.email # e
    /\ MakeCode /\ Then(v, "change", NewCode(e))
    /\ mailed' = [mailed EXCEPT ![issued + 1] = e]
    /\ UNCHANGED <<account, limits, guesses, provedBy, plan>>

\* mutant: a new address counts as verified
ChangeCommitVerified(v) ==
    LET m == memo[v] IN
    /\ doing[v] = "change"
    /\ account' = [account EXCEPT !.email = m.email, !.otp = m.otp, !.left = m.left]
    /\ Replies(v)
    /\ UNCHANGED <<issued, mailed, limits, guesses, provedBy, plan>>

\* A telephone number that is taken, or a wrong password for a new one, ends it.
ChangeCommit(v) ==
    LET m == memo[v] IN
    /\ doing[v] = "change"
    /\ \/ account' = [email |-> m.email, verified |-> FALSE, otp |-> m.otp, left |-> m.left]
       \/ UNCHANGED account
    /\ Replies(v)
    /\ UNCHANGED <<issued, mailed, limits, guesses, provedBy, plan>>

---------------------------------------------------------------------------
Less(n)        == IF n = 0 THEN 0 ELSE n - 1
Elapse(left)   == [e \in Addresses |-> Less(left[e])]
Drop(n, left)  == [e \in Addresses |-> IF left[e] = 1 THEN 0 ELSE n[e]]

\* Time passes whatever the requests are at, also between the count of a request
\* and its look at the row.
RegistrationTick ==
    /\ plan.time
    /\ account' = [account EXCEPT !.left = Less(@)]
    /\ memo' = [v \in Visitors |-> [memo[v] EXCEPT !.left = Less(@)]]
    /\ triesLeft' = Elapse(triesLeft) /\ tries' = Drop(tries, triesLeft)
    /\ missesLeft' = Elapse(missesLeft) /\ misses' = Drop(misses, missesLeft)
    /\ resent' = Elapse(resent)
    /\ UNCHANGED <<issued, mailed, doing, guesses, provedBy, plan>>

RegistrationNext ==
    \/ \E v \in Visitors :
        \/ \E e \in Addresses :
              \/ Register(v, e) \/ BeginResend(v, e) \/ BeginChange(v, e)
              \/ \E given \in CodeIds \cup {0} : BeginVerify(v, e, given)
        \/ RegisterCommit(v)
        \/ VerifyRead(v) \/ Activate(v) \/ ClearCounts(v)
        \/ Miss(v) \/ MissWindow(v) \/ Spoil(v) \/ ForgetMisses(v)
        \/ ResendRead(v) \/ Recode(v)
        \/ ChangeCommit(v)
    \/ RegistrationTick

---------------------------------------------------------------------------
RegistrationTypeOK ==
    /\ account \in [email : Addresses \cup {Nobody}, verified : BOOLEAN,
                    otp : 0..MaxCodes, left : Nat]
    /\ issued \in 0..MaxCodes /\ mailed \in [CodeIds -> Addresses \cup {Nobody}]
    /\ tries \in [Addresses -> 0..TryLimit] /\ triesLeft \in [Addresses -> 0..CodeLife]
    /\ resent \in [Addresses -> 0..ResendLife]
    /\ misses \in [Addresses -> 0..TryLimit] /\ missesLeft \in [Addresses -> 0..CodeLife]
    /\ memo \in [Visitors -> [email : Addresses \cup {Nobody}, given : 0..MaxCodes,
                              otp : 0..MaxCodes, left : Nat]]
    /\ guesses \in [CodeIds -> Nat] /\ provedBy \in Addresses \cup {Nobody}
    /\ plan \in Plans

\* An account counts as verified only if a code was entered that had been mailed to
\* the address it has now, as long as requests do not overlap.  Overlapping, a
\* second copy of the form verifies an address that update_user has just set.
VerifiedByOwnCode ==
    Cardinality(plan.visitors) = 1 /\ account.verified => provedBy = account.email

\* However requests race, counters expire and codes are replaced, the wrong guesses
\* at a code while it is good are fewer than twice TryLimit, plus one for each
\* other request in flight: it may have been counted (users.py:147) in a window that
\* was over before there was this code, and have read the row (users.py:154) after.
\* This as long as the account keeps its address: verification resets the count
\* of an address, and a change undoes the verification.
GuessesBounded ==
    (\E e \in Addresses : plan.addresses = {e}) =>
        \A c \in CodeIds :
            guesses[c] < 2 * TryLimit + (Cardinality(plan.visitors) - 1)
=============================================================================
