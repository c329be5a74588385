------------------------------ MODULE Accounts ------------------------------
(***************************************************************************)
(* What login, refresh, logout and the changes of an account share: the    *)
(* account's row in users, the tokens made for it, and its keys in Redis.  *)
(* One account: every key carries its id or its e-mail address, and no     *)
(* handler touches the keys of two accounts.                               *)
(*                                                                         *)
(* A key of Redis is the time at which it expires, or Gone.  Redis runs    *)
(* one command at a time; a step of a request is one command, or several   *)
(* that no property tells apart, and what the code computes up to the next.*)
(* A request that dies, or whose call to Redis fails, is one that takes no *)
(* further step: no property here assumes that a request goes on.          *)
(***************************************************************************)
EXTENDS Integers, FiniteSets

CONSTANTS Requests,       \* requests in flight
          Tokens,         \* jti of refresh tokens; the access token made with
                          \* one has the same name
          Ips,            \* addresses that customers come from
          Null,
          SessionTTL,     \* REFRESH_TOKEN_EXPIRE_DAYS, and the keys kept as long
          GraceTTL,       \* 30 s
          AccessTTL,      \* access_token_expire_minutes
          LockTTL,        \* 900 s
          CodeTTL,        \* 300 s
          IpLimit, EmailLimit, CodeLimit,   \* 5, 25 and 5 failures
          Second,         \* ticks of the clock in a second
          MaxClock,       \* bound on the clock
          Budgets,        \* bounds on what customers do, one of which holds for
                          \* a behaviour: see Budget
          GraceAtOnce,    \* nobody reads the grace key between the SETs at
                          \* auth.py:272 and :277
          SerialChanges   \* one change of the account at a time

ASSUME DurationAssumption ==
    /\ {SessionTTL, GraceTTL, AccessTTL, LockTTL, CodeTTL} \subseteq Nat \ {0}
    /\ {MaxClock, IpLimit, EmailLimit, CodeLimit} \subseteq Nat
    /\ Second \in Nat \ {0}
    /\ {GraceAtOnce, SerialChanges} \subseteq BOOLEAN
\* How many tokens are made, wrong passwords or codes tried, reset codes asked for,
\* changes of the account begun, and logouts.
Budget == [tokens : Nat, wrong : Nat, codes : Nat, changes : Nat, logouts : Nat]
ASSUME BudgetAssumption == Budgets \subseteq Budget
ASSUME NameAssumption ==
    /\ Null \notin Tokens \cup Ips \cup Requests
    /\ {"email", "code"} \cap Ips = {}

Gone == 0
Counters == Ips \cup {"email", "code"}

VARIABLES
    clock,
    user,        \* the row: generation of its password, is_active
    tokens,      \* what has been made and signed; nobody forgets a JWT
    session,     \* session:{user}:{jti}
    rotated,     \* rotated:{user}:{jti}
    grace,       \* rotated_grace:{user}:{jti}
    blacklist,   \* blacklist:{jti} of an access token
    revokedAt,   \* user_revoked_at:{user}: its value and its expiry
    code,        \* reset_pwd_otp:{email}
    fails,       \* failed_logins:{email}:{ip}, failed_logins:{email} and
                 \* reset_otp_failed_attempts:{email}
    window,      \* when the counter expires; Gone: it has no TTL, or is not there
    lock,        \* account_locked:{email}:{ip}, account_locked:{email}
    budget,      \* what is left of the bounds
    pc, req,
    revoked,     \* history: the latest time user_revoked_at has had
    loggedOut    \* history: access tokens whose logout has been acknowledged

sessionKeys == <<session, rotated, grace>>
accessKeys  == <<blacklist, revokedAt, revoked, loggedOut>>
countKeys   == <<fails, window, lock>>
vars == <<clock, user, tokens, sessionKeys, accessKeys, code, countKeys, budget, pc, req>>

Labels == {"idle", "login_clear", "login_store", "count", "window", "lock_out",
           "refresh_marker", "refresh_grace", "refresh_revoke", "refresh_user",
           "refresh_store", "refresh_rotated", "refresh_mark", "logout_delete",
           "commit", "scan", "drop", "stamp", "forgive"}
Token == [state : {"none", "made", "out"}, parent : Tokens \cup {Null},
          exp : Nat, iat : Nat, gen : Nat]
Req == [tok : Tokens \cup {Null}, new : Tokens \cup {Null}, key : Counters \cup {Null},
        ip : Ips \cup {Null}, n : Nat, ipn : Nat, gen : Nat, now : Nat,
        kind : {"none", "reset", "password", "delete"}, found : SUBSET Tokens]
NoReq == [tok |-> Null, new |-> Null, key |-> Null, ip |-> Null, n |-> 0, ipn |-> 0,
          gen |-> 0, now |-> 0, kind |-> "none", found |-> {}]
NoToken == [state |-> "none", parent |-> Null, exp |-> 0, iat |-> 0, gen |-> 0]
NoStamp == [at |-> 0, exp |-> Gone]

\* Every key that holds a time has one, and every request its locals.
KeysTypeOK ==
    /\ session \in [Tokens -> Nat]
    /\ rotated \in [Tokens -> Nat]
    /\ grace \in [Tokens -> Nat]
    /\ blacklist \in [Tokens -> Nat]
    /\ revokedAt \in [at : Nat, exp : Nat]
    /\ code \in Nat
    /\ revoked \in Nat
    /\ loggedOut \subseteq Tokens
CountersTypeOK ==
    /\ fails \in [Counters -> Nat]
    /\ window \in [Counters -> Nat]
    /\ lock \in [Counters -> Nat]
RowsTypeOK ==
    /\ clock \in Nat
    /\ user \in [pw : Nat, active : BOOLEAN]
    /\ tokens \in [Tokens -> Token]
    /\ budget \in Budget
LocalsTypeOK ==
    /\ pc \in [Requests -> Labels]
    /\ req \in [Requests -> Req]
TypeOK == KeysTypeOK /\ CountersTypeOK /\ RowsTypeOK /\ LocalsTypeOK

Init ==
    /\ clock = 0
    /\ user = [pw |-> 0, active |-> TRUE]
    /\ tokens = [j \in Tokens |-> NoToken]
    /\ session = [j \in Tokens |-> Gone]
    /\ rotated = [j \in Tokens |-> Gone]
    /\ grace = [j \in Tokens |-> Gone]
    /\ blacklist = [j \in Tokens |-> Gone]
    /\ revokedAt = NoStamp
    /\ code = Gone
    /\ fails = [k \in Counters |-> 0]
    /\ window = [k \in Counters |-> Gone]
    /\ lock = [k \in Counters |-> Gone]
    /\ budget \in Budgets
    /\ pc = [p \in Requests |-> "idle"]
    /\ req = [p \in Requests |-> NoReq]
    /\ revoked = 0
    /\ loggedOut = {}

Spend(what) ==
    /\ budget[what] > 0
    /\ budget' = [budget EXCEPT ![what] = @ - 1]

Goto(p, label, locals) ==
    /\ pc' = [pc EXCEPT ![p] = label]
    /\ req' = [req EXCEPT ![p] = locals]
Finish(p) == Goto(p, "idle", NoReq)

\* A JWT's exp is in whole seconds, its iat is not.
Whole(t) == Second * (t \div Second)

\* A refresh token that a client has and jwt.decode accepts.
Held(j) == tokens[j].state = "out" /\ clock < tokens[j].exp
AccessExp(j) == Whole(tokens[j].iat + AccessTTL)

\* Wrong variant: the last revocation is not looked at.
AcceptedUnstamped(j) ==
    tokens[j].state = "out" /\ clock < AccessExp(j) /\ blacklist[j] = Gone /\ user.active

\* get_current_user: signed, not expired, not on the blacklist, not older than
\* the last revocation, and the account is active.
Accepted(j) ==
    /\ tokens[j].state = "out"
    /\ clock < AccessExp(j)
    /\ blacklist[j] = Gone
    /\ ~ (tokens[j].iat < revokedAt.at)
    /\ user.active

\* A token with a new jti.
Make(j, parent, gen) ==
    /\ tokens[j].state = "none"
    /\ Spend("tokens")
    /\ tokens' = [tokens EXCEPT ![j] =
                    [state |-> "made", parent |-> parent, exp |-> Whole(clock + SessionTTL),
                     iat |-> clock, gen |-> gen]]

\* Time passes, and Redis deletes the keys that expire.
Expired(keys) == [x \in DOMAIN keys |-> IF keys[x] <= clock' THEN Gone ELSE keys[x]]
Tick ==
    /\ clock < MaxClock
    /\ clock' = clock + 1
    /\ session' = Expired(session)
    /\ rotated' = Expired(rotated)
    /\ grace' = Expired(grace)
    /\ blacklist' = Expired(blacklist)
    /\ lock' = Expired(lock)
    /\ code' = IF code <= clock' THEN Gone ELSE code
    /\ revokedAt' = IF revokedAt.exp <= clock' THEN NoStamp ELSE revokedAt
    /\ fails' = [k \in Counters |->
                   IF window[k] # Gone /\ window[k] <= clock' THEN 0 ELSE fails[k]]
    /\ window' = Expired(window)
    /\ UNCHANGED <<user, tokens, budget, pc, req, revoked, loggedOut>>
=============================================================================
