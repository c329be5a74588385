------------------------------ MODULE Sessions ------------------------------
(***************************************************************************)
(* Logging in, refreshing and logging out, from app/routers/auth/auth.py,  *)
(* and the changes of an account that end its sessions, from               *)
(* app/routers/auth/users.py.                                              *)
(***************************************************************************)
EXTENDS Accounts

LiveSessions == {j \in Tokens : session[j] # Gone}
CounterTTL(k) == IF k = "code" THEN CodeTTL ELSE LockTTL
Without(keys, S) == [x \in DOMAIN keys |-> IF x \in S THEN Gone ELSE keys[x]]

-----------------------------------------------------------------------------
(* POST /login *)

\* The locks are looked at before the password is.  The cap on concurrent
\* hashes refuses a request without a trace, and is left out.
BeginLogin(p, ip) ==
    /\ pc[p] = "idle"
    /\ lock[ip] = Gone
    /\ lock["email"] = Gone
    /\ \/ /\ user.active
          /\ Goto(p, "login_clear", [NoReq EXCEPT !.ip = ip, !.gen = user.pw])
          /\ UNCHANGED budget
       \/ /\ Spend("wrong")
          /\ Goto(p, "count", [NoReq EXCEPT !.ip = ip, !.key = ip])
    /\ UNCHANGED <<clock, user, tokens, sessionKeys, accessKeys, code, countKeys>>

\* Wrong variant: a success takes one failure back.
LoginClearOne(p) ==
    /\ pc[p] = "login_clear"
    /\ fails' = [fails EXCEPT ![req[p].ip] = @ - 1]
    /\ \E j \in Tokens :
          /\ Make(j, Null, req[p].gen)
          /\ Goto(p, "login_store", [req[p] EXCEPT !.new = j])
    /\ UNCHANGED <<clock, user, sessionKeys, accessKeys, code, window, lock>>

\* Three DELs; then the tokens are made.
LoginClear(p) ==
    LET ip == req[p].ip
        counted == {ip, "email"} IN
    /\ pc[p] = "login_clear"
    /\ fails' = [k \in Counters |-> IF k \in counted THEN 0 ELSE fails[k]]
    /\ window' = Without(window, counted)
    /\ lock' = [lock EXCEPT ![ip] = Gone]
    /\ \E j \in Tokens :
          /\ Make(j, Null, req[p].gen)
          /\ Goto(p, "login_store", [req[p] EXCEPT !.new = j])
    /\ UNCHANGED <<clock, user, sessionKeys, accessKeys, code>>

LoginStore(p) ==
    /\ pc[p] = "login_store"
    /\ session' = [session EXCEPT ![req[p].new] = clock + SessionTTL]
    /\ tokens' = [tokens EXCEPT ![req[p].new].state = "out"]
    /\ Finish(p)
    /\ UNCHANGED <<clock, user, rotated, grace, accessKeys, code, countKeys, budget>>

-----------------------------------------------------------------------------
(* A wrong password or code: INCR, EXPIRE if the counter is new, and at the  *)
(* limit a lock, or the end of the code.                                     *)

\* What follows when the n-th failure of counter k has been counted.
Counted(p, k, n) ==
    \/ k \in Ips /\ Goto(p, "count", [req[p] EXCEPT !.key = "email", !.ipn = n])
    \/ /\ k = "email" /\ req[p].ipn >= IpLimit
       /\ Goto(p, "lock_out", [req[p] EXCEPT !.key = req[p].ip])
    \/ /\ \/ k = "email" /\ req[p].ipn < IpLimit /\ n >= EmailLimit
          \/ k = "code" /\ n >= CodeLimit
       /\ Goto(p, "lock_out", req[p])
    \/ /\ \/ k = "email" /\ req[p].ipn < IpLimit /\ n < EmailLimit
          \/ k = "code" /\ n < CodeLimit
       /\ Finish(p)

\* Wrong variant: only the counter of the address gets a TTL.
CountIpWindow(p) ==
    LET k == req[p].key
        n == fails[k] + 1 IN
    /\ pc[p] = "count"
    /\ fails' = [fails EXCEPT ![k] = n]
    /\ IF n = 1 /\ k # "email"
       THEN Goto(p, "window", [req[p] EXCEPT !.n = n])
       ELSE Counted(p, k, n)
    /\ UNCHANGED <<clock, user, tokens, sessionKeys, accessKeys, code, window,
                   lock, budget>>

Count(p) ==
    LET k == req[p].key
        n == fails[k] + 1 IN
    /\ pc[p] = "count"
    /\ fails' = [fails EXCEPT ![k] = n]
    /\ IF n = 1 THEN Goto(p, "window", [req[p] EXCEPT !.n = n]) ELSE Counted(p, k, n)
    /\ UNCHANGED <<clock, user, tokens, sessionKeys, accessKeys, code, window,
                   lock, budget>>

\* EXPIRE does nothing to a counter that another request has deleted meanwhile.
Window(p) ==
    LET k == req[p].key IN
    /\ pc[p] = "window"
    /\ window' = [window EXCEPT ![k] = IF fails[k] = 0 THEN Gone ELSE clock + CounterTTL(k)]
    /\ Counted(p, k, req[p].n)
    /\ UNCHANGED <<clock, user, tokens, sessionKeys, accessKeys, code, fails,
                   lock, budget>>

LockOut(p) ==
    LET k == req[p].key IN
    /\ pc[p] = "lock_out"
    /\ IF k = "code"
       THEN code' = Gone /\ UNCHANGED lock
       ELSE lock' = [lock EXCEPT ![k] = clock + LockTTL] /\ UNCHANGED code
    /\ fails' = [fails EXCEPT ![k] = 0]
    /\ window' = [window EXCEPT ![k] = Gone]
    /\ Finish(p)
    /\ UNCHANGED <<clock, user, tokens, sessionKeys, accessKeys, budget>>

-----------------------------------------------------------------------------
(* POST /refresh *)

\* Wrong variant: GET, and no DEL.
RefreshTakeGet(p, j) ==
    /\ pc[p] = "idle"
    /\ Held(j)
    /\ Goto(p, IF session[j] # Gone THEN "refresh_user" ELSE "refresh_marker",
            [NoReq EXCEPT !.tok = j])
    /\ UNCHANGED <<clock, user, tokens, sessionKeys, accessKeys, code, countKeys, budget>>

\* GETDEL: one request gets the session.
RefreshTake(p, j) ==
    /\ pc[p] = "idle"
    /\ Held(j)
    /\ session' = [session EXCEPT ![j] = Gone]
    /\ Goto(p, IF session[j] # Gone THEN "refresh_user" ELSE "refresh_marker",
            [NoReq EXCEPT !.tok = j])
    /\ UNCHANGED <<clock, user, tokens, rotated, grace, accessKeys, code, countKeys, budget>>

\* A token without a session: has it been exchanged, or logged out?
RefreshMarker(p) ==
    /\ pc[p] = "refresh_marker"
    /\ IF rotated[req[p].tok] # Gone THEN Goto(p, "refresh_grace", req[p]) ELSE Finish(p)
    /\ UNCHANGED <<clock, user, tokens, sessionKeys, accessKeys, code, countKeys, budget>>

\* Wrong variant: no grace.
RefreshGraceless(p) ==
    /\ pc[p] = "refresh_grace"
    /\ Goto(p, "refresh_revoke", [req[p] EXCEPT !.found = LiveSessions])
    /\ UNCHANGED <<clock, user, tokens, sessionKeys, accessKeys, code, countKeys, budget>>

\* Exchanged a moment ago by another tab, or replayed?
RefreshGrace(p) ==
    /\ pc[p] = "refresh_grace"
    /\ GraceAtOnce =>
          ~ \E q \in Requests : pc[q] = "refresh_mark" /\ req[q].tok = req[p].tok
    /\ IF grace[req[p].tok] # Gone
       THEN Finish(p)
       ELSE Goto(p, "refresh_revoke", [req[p] EXCEPT !.found = LiveSessions])
    /\ UNCHANGED <<clock, user, tokens, sessionKeys, accessKeys, code, countKeys, budget>>

\* The sessions are deleted one by one.  SCAN returns those that were there all
\* the time, and may return some that have been added.
RefreshRevoke(p) ==
    /\ pc[p] = "refresh_revoke"
    /\ \/ \E j \in req[p].found \cup LiveSessions :
             /\ session' = [session EXCEPT ![j] = Gone]
             /\ Goto(p, "refresh_revoke", [req[p] EXCEPT !.found = @ \ {j}])
       \/ /\ req[p].found = {}
          /\ Finish(p)
          /\ UNCHANGED session
    /\ UNCHANGED <<clock, user, tokens, rotated, grace, accessKeys, code, countKeys, budget>>

\* The account must still be active; its session is gone already if it is not.
RefreshUser(p) ==
    LET old == req[p].tok IN
    /\ pc[p] = "refresh_user"
    /\ \/ /\ user.active
          /\ \E j \in Tokens :
                /\ Make(j, old, tokens[old].gen)
                /\ Goto(p, "refresh_store", [req[p] EXCEPT !.new = j])
       \/ /\ ~user.active
          /\ Finish(p)
          /\ UNCHANGED <<tokens, budget>>
    /\ UNCHANGED <<clock, user, sessionKeys, accessKeys, code, countKeys>>

RefreshStore(p) ==
    /\ pc[p] = "refresh_store"
    /\ session' = [session EXCEPT ![req[p].new] = clock + SessionTTL]
    /\ Goto(p, "refresh_rotated", req[p])
    /\ UNCHANGED <<clock, user, tokens, rotated, grace, accessKeys, code, countKeys, budget>>

\* Wrong variant: the marker lives as long as the grace window.
RefreshRotatedShort(p) ==
    /\ pc[p] = "refresh_rotated"
    /\ rotated' = [rotated EXCEPT ![req[p].tok] = clock + GraceTTL]
    /\ Goto(p, "refresh_mark", req[p])
    /\ UNCHANGED <<clock, user, tokens, session, grace, accessKeys, code, countKeys,
                   budget>>

RefreshRotated(p) ==
    /\ pc[p] = "refresh_rotated"
    /\ rotated' = [rotated EXCEPT ![req[p].tok] = clock + SessionTTL]
    /\ Goto(p, "refresh_mark", req[p])
    /\ UNCHANGED <<clock, user, tokens, session, grace, accessKeys, code, countKeys,
                   budget>>

\* Then the request ends: the access token is made and the cookie set.
RefreshMark(p) ==
    /\ pc[p] = "refresh_mark"
    /\ grace' = [grace EXCEPT ![req[p].tok] = clock + GraceTTL]
    /\ tokens' = [tokens EXCEPT ![req[p].new].state = "out", ![req[p].new].iat = clock]
    /\ Finish(p)
    /\ UNCHANGED <<clock, user, session, rotated, accessKeys, code, countKeys, budget>>

-----------------------------------------------------------------------------
(* POST /logout *)

\* Wrong variant: a second too short.
BlacklistExpShort(a) ==
    LET seconds == (AccessExp(a) - clock) \div Second - 1 IN
    IF seconds > 0 THEN clock + Second * seconds ELSE clock + 1

\* The rest of the access token's life in whole seconds.  With less than one left
\* the key stays for 3600 s, which is more than AccessTTL.
BlacklistExp(a) ==
    LET seconds == (AccessExp(a) - clock) \div Second IN
    IF seconds > 0 THEN clock + Second * seconds ELSE clock + AccessTTL

\* Either token may be missing.  jwt.decode refuses an expired access token, and
\* then nothing is written; a token on the blacklist is left there.
BeginLogout(p, a, j) ==
    /\ pc[p] = "idle"
    /\ Spend("logouts")
    /\ a # Null \/ j # Null
    /\ a # Null => tokens[a].state = "out"
    /\ j # Null => Held(j)
    /\ IF a # Null /\ clock < AccessExp(a) /\ blacklist[a] = Gone
       THEN /\ blacklist' = [blacklist EXCEPT ![a] = BlacklistExp(a)]
            /\ loggedOut' = loggedOut \cup {a}
       ELSE UNCHANGED <<blacklist, loggedOut>>
    /\ Goto(p, "logout_delete", [NoReq EXCEPT !.tok = j])
    /\ UNCHANGED <<clock, user, tokens, sessionKeys, revokedAt, revoked, code, countKeys>>

LogoutDelete(p) ==
    /\ pc[p] = "logout_delete"
    /\ session' = Without(session, {req[p].tok})
    /\ Finish(p)
    /\ UNCHANGED <<clock, user, tokens, rotated, grace, accessKeys, code, countKeys, budget>>

-----------------------------------------------------------------------------
(* Resetting the password by code, changing it, deleting the account: each   *)
(* commits, scans and deletes the sessions, and stamps user_revoked_at.      *)

Changing(p) == pc[p] \in {"commit", "scan", "drop", "stamp", "forgive"}
MayChange ==
    /\ Spend("changes")
    /\ SerialChanges => ~ \E q \in Requests : Changing(q)

ForgotPassword ==
    /\ user.active
    /\ Spend("codes")
    /\ code' = clock + CodeTTL
    /\ UNCHANGED <<clock, user, tokens, sessionKeys, accessKeys, countKeys, pc, req>>

BeginReset(p) ==
    /\ pc[p] = "idle"
    /\ code # Gone
    /\ \/ /\ MayChange
          /\ Goto(p, "commit", [NoReq EXCEPT !.kind = "reset"])
       \/ /\ Spend("wrong")
          /\ Goto(p, "count", [NoReq EXCEPT !.key = "code"])
    /\ UNCHANGED <<clock, user, tokens, sessionKeys, accessKeys, code, countKeys>>

\* update_user with a password, delete_user.
BeginUpdate(p, a, kind) ==
    /\ pc[p] = "idle"
    /\ Accepted(a)
    /\ MayChange
    /\ kind \in {"password", "delete"}
    /\ Goto(p, "commit", [NoReq EXCEPT !.kind = kind])
    /\ UNCHANGED <<clock, user, tokens, sessionKeys, accessKeys, code, countKeys>>

\* A reset looks the user up by e-mail, which a deleted account has no more.
CommitChange(p) ==
    LET kind == req[p].kind IN
    /\ pc[p] = "commit"
    /\ \/ /\ kind = "reset" => user.active
          /\ user' = [pw |-> user.pw + 1, active |-> user.active /\ kind # "delete"]
          /\ Goto(p, "scan", req[p])
       \/ /\ kind = "reset" /\ ~user.active
          /\ Finish(p)
          /\ UNCHANGED user
    /\ UNCHANGED <<clock, tokens, sessionKeys, accessKeys, code, countKeys, budget>>

RevokeScan(p) ==
    /\ pc[p] = "scan"
    /\ Goto(p, "drop", [req[p] EXCEPT !.found = LiveSessions])
    /\ UNCHANGED <<clock, user, tokens, sessionKeys, accessKeys, code, countKeys, budget>>

RevokeDrop(p) ==
    /\ pc[p] = "drop"
    /\ \E more \in SUBSET LiveSessions : session' = Without(session, req[p].found \cup more)
    /\ Goto(p, "stamp", [req[p] EXCEPT !.now = clock, !.found = {}])
    /\ UNCHANGED <<clock, user, tokens, rotated, grace, accessKeys, code, countKeys, budget>>

\* The time is read before the SET is sent.
RevokeStamp(p) ==
    /\ pc[p] = "stamp"
    /\ \E now \in req[p].now..clock :
          /\ revokedAt' = [at |-> now, exp |-> clock + AccessTTL]
          /\ revoked' = IF now > revoked THEN now ELSE revoked
    /\ IF req[p].kind = "reset" THEN Goto(p, "forgive", req[p]) ELSE Finish(p)
    /\ UNCHANGED <<clock, user, tokens, sessionKeys, blacklist, loggedOut, code,
                   countKeys, budget>>

\* A reset ends with the code, the counters and the locks.
Forgive(p) ==
    /\ pc[p] = "forgive"
    /\ code' = Gone
    /\ fails' = [k \in Counters |-> 0]
    /\ window' = [k \in Counters |-> Gone]
    /\ lock' = [k \in Counters |-> Gone]
    /\ Finish(p)
    /\ UNCHANGED <<clock, user, tokens, sessionKeys, accessKeys, budget>>

-----------------------------------------------------------------------------
Login(p)   == (\E ip \in Ips : BeginLogin(p, ip)) \/ LoginClear(p) \/ LoginStore(p)
Failure(p) == Count(p) \/ Window(p) \/ LockOut(p)
Refresh(p) ==
    \/ \E j \in Tokens : RefreshTake(p, j)
    \/ RefreshMarker(p) \/ RefreshGrace(p) \/ RefreshRevoke(p)
    \/ RefreshUser(p) \/ RefreshStore(p) \/ RefreshRotated(p) \/ RefreshMark(p)
Logout(p) ==
    \/ \E a, j \in Tokens \cup {Null} : BeginLogout(p, a, j)
    \/ LogoutDelete(p)
Change(p) ==
    \/ BeginReset(p)
    \/ \E a \in Tokens, kind \in {"password", "delete"} : BeginUpdate(p, a, kind)
    \/ CommitChange(p) \/ RevokeScan(p) \/ RevokeDrop(p) \/ RevokeStamp(p) \/ Forgive(p)

Next ==
    \/ \E p \in Requests : Login(p) \/ Failure(p) \/ Refresh(p) \/ Logout(p) \/ Change(p)
    \/ ForgotPassword
    \/ Tick

Spec == Init /\ [][Next]_vars

-----------------------------------------------------------------------------
\* A refresh token is exchanged for one token at most, however many tabs present
\* it at once (GETDEL in refresh_token).
ExchangedOnce ==
    \A i, j \in Tokens : tokens[i].parent = tokens[j].parent /\ tokens[i].parent # Null => i = j

\* A refresh that is about to end all sessions was made with a token exchanged
\* longer ago than the grace window: tabs that refresh together do not log the
\* customer out.
TabsNeverRevoke ==
    \A p \in Requests :
        /\ pc[p] = "refresh_revoke"
        /\ rotated[req[p].tok] # Gone
        => rotated[req[p].tok] + GraceTTL <= clock + SessionTTL

\* As long as a refresh token that has been exchanged is accepted by jwt.decode,
\* its rotation marker is there, so that refresh_token recognises a replay.
ReplayDetected ==
    \A i, j \in Tokens :
        tokens[i].parent = j /\ tokens[i].state = "out" /\ Held(j) => rotated[j] # Gone

\* An access token older than a revocation is not accepted again, when
\* user_revoked_at has expired neither.
RevokedStaysRevoked == \A j \in Tokens : tokens[j].iat < revoked => ~Accepted(j)

\* A logged-out access token is not accepted again until its last second, also
\* when its blacklist key has expired.  The key is kept for int(exp - now) seconds
\* (oauth2.py:79), and so is gone up to a second before the token is.
LogoutEndsAccess == \A j \in loggedOut : Accepted(j) => AccessExp(j) - clock < Second

\* A counter of failures that has no TTL is about to get one, or the request that
\* made it died between INCR and EXPIRE: no other order leaves one for ever.
CountersExpire ==
    \A k \in Counters :
        fails[k] > 0 /\ window[k] = Gone =>
            \E p \in Requests : pc[p] = "window" /\ req[p].key = k

\* Not kept by the code: after a change of the password no session begun with the
\* old one is left.
ResetEndsSessions ==
    (\A p \in Requests : pc[p] = "idle") =>
        \A j \in LiveSessions : tokens[j].gen = user.pw
=============================================================================
