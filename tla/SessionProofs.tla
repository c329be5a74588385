---------------------------- MODULE SessionProofs ----------------------------
(***************************************************************************)
(* Theorems about Sessions, for every value of its constants.              *)
(***************************************************************************)
EXTENDS Sessions, TLAPS

-----------------------------------------------------------------------------
(* Types *)

Counting   == {"count", "window"}
Refreshing == {"refresh_marker", "refresh_grace", "refresh_revoke", "refresh_user",
               "refresh_store", "refresh_rotated", "refresh_mark"}
Making     == {"login_store", "refresh_store", "refresh_rotated", "refresh_mark"}

\* A request's locals are what its label calls for.
Fits(label, r) ==
    /\ label \in Counting => r.key \in Counters
    /\ label \in Refreshing => r.tok \in Tokens
    /\ label \in Making => r.new \in Tokens
LocalsOK ==
    /\ LocalsTypeOK
    /\ \A p \in Requests : Fits(pc[p], req[p])
TypeInv == KeysTypeOK /\ CountersTypeOK /\ RowsTypeOK /\ LocalsOK

LEMMA ConstantTypes ==
    /\ SessionTTL \in Nat \ {0} /\ GraceTTL \in Nat \ {0} /\ AccessTTL \in Nat \ {0}
    /\ LockTTL \in Nat \ {0} /\ CodeTTL \in Nat \ {0} /\ Second \in Nat \ {0}
    /\ IpLimit \in Nat /\ EmailLimit \in Nat /\ CodeLimit \in Nat
BY DurationAssumption

LEMMA IdleType == NoReq \in Req
BY DEF NoReq, Req

LEMMA GotoType ==
    ASSUME LocalsOK, NEW p \in Requests, NEW label \in Labels, NEW r \in Req,
           Fits(label, r), Goto(p, label, r)
    PROVE  LocalsOK'
BY DEF LocalsOK, LocalsTypeOK, Goto, Fits, Counters

LEMMA FinishType ==
    ASSUME LocalsOK, NEW p \in Requests, Finish(p) PROVE LocalsOK'
<1>1. "idle" \in Labels /\ Fits("idle", NoReq)
  BY DEF Labels, Fits, Counting, Refreshing, Making
<1> QED
  BY <1>1, IdleType, GotoType DEF Finish

LEMMA SpendType ==
    ASSUME budget \in Budget, NEW what \in {"tokens", "wrong", "codes", "changes", "logouts"},
           Spend(what)
    PROVE  budget' \in Budget
BY DEF Spend, Budget

LEMMA WholeType == ASSUME NEW t \in Nat PROVE Whole(t) \in Nat /\ Whole(t) <= t
<1>1. Second \in Nat \ {0}
  BY ConstantTypes
<1>2. t = Second * (t \div Second) + (t % Second) /\ t % Second \in 0..(Second - 1)
  BY <1>1
<1>3. t \div Second \in Nat
  BY <1>1
<1> QED
  BY <1>1, <1>2, <1>3 DEF Whole

LEMMA MakeType ==
    ASSUME RowsTypeOK, NEW j \in Tokens, NEW parent \in Tokens \cup {Null},
           NEW gen \in Nat, Make(j, parent, gen)
    PROVE  tokens' \in [Tokens -> Token] /\ budget' \in Budget
<1>1. Whole(clock + SessionTTL) \in Nat
  BY ConstantTypes, WholeType DEF RowsTypeOK
<1>2. budget' \in Budget
  BY SpendType DEF Make, RowsTypeOK
<1>3. [state |-> "made", parent |-> parent, exp |-> Whole(clock + SessionTTL),
       iat |-> clock, gen |-> gen] \in Token
  BY <1>1 DEF Token, RowsTypeOK
<1> QED
  BY <1>2, <1>3 DEF Make, RowsTypeOK

LEMMA ReqType ==
    ASSUME LocalsOK, NEW p \in Requests
    PROVE  /\ req[p] \in Req
           /\ Fits(pc[p], req[p])
           /\ req[p].now \in Nat /\ req[p].gen \in Nat /\ req[p].n \in Nat
           /\ req[p].ip \in Ips \cup {Null} /\ req[p].found \subseteq Tokens
BY DEF LocalsOK, LocalsTypeOK, Req

LEMMA CountedType ==
    ASSUME LocalsOK, NEW p \in Requests, NEW k \in Counters, NEW n \in Nat,
           req[p].key = k, Counted(p, k, n)
    PROVE  LocalsOK'
<1> USE DEF Labels, Fits, Counting, Refreshing, Making
<1>1. req[p] \in Req /\ req[p].ip \in Counters \cup {Null}
  BY ReqType DEF Counters
<1>2. CASE Goto(p, "count", [req[p] EXCEPT !.key = "email", !.ipn = n])
  <2>1. [req[p] EXCEPT !.key = "email", !.ipn = n] \in Req
    BY <1>1 DEF Req, Counters
  <2>2. Fits("count", [req[p] EXCEPT !.key = "email", !.ipn = n])
    BY <1>1 DEF Req, Counters
  <2> QED
    BY <1>2, <2>1, <2>2, GotoType DEF Counted
<1>3. CASE Goto(p, "lock_out", [req[p] EXCEPT !.key = req[p].ip])
  <2>1. [req[p] EXCEPT !.key = req[p].ip] \in Req
    BY <1>1 DEF Req
  <2> QED
    BY <1>3, <2>1, GotoType
<1>4. CASE Goto(p, "lock_out", req[p])
  BY <1>1, <1>4, GotoType
<1>5. CASE Finish(p)
  BY <1>5, FinishType
<1> QED
  BY <1>2, <1>3, <1>4, <1>5 DEF Counted

LEMMA LoginTypes ==
    ASSUME TypeInv, NEW p \in Requests, Login(p)
    PROVE  TypeInv'
<1> USE DEF TypeInv, Labels, Fits, Counting, Refreshing, Making
<1>1. ASSUME NEW ip \in Ips, BeginLogin(p, ip) PROVE TypeInv'
  <2>1. /\ [NoReq EXCEPT !.ip = ip, !.gen = user.pw] \in Req
        /\ [NoReq EXCEPT !.ip = ip, !.key = ip] \in Req
    BY DEF NoReq, Req, Counters, RowsTypeOK
  <2>2. Fits("count", [NoReq EXCEPT !.ip = ip, !.key = ip])
    BY DEF NoReq, Counters
  <2>3. LocalsOK'
    BY <1>1, <2>1, <2>2, GotoType DEF BeginLogin
  <2>4. budget' \in Budget
    BY <1>1, SpendType DEF BeginLogin, RowsTypeOK
  <2> QED
    BY <1>1, <2>3, <2>4 DEF BeginLogin, KeysTypeOK, CountersTypeOK, RowsTypeOK, countKeys,
           sessionKeys, accessKeys
<1>2. ASSUME LoginClear(p) PROVE TypeInv'
  <2>1. CountersTypeOK'
    BY <1>2 DEF LoginClear, CountersTypeOK, Without, Gone
  <2>2. RowsTypeOK'
    BY <1>2, MakeType, ReqType DEF LoginClear, RowsTypeOK
  <2>3. LocalsOK'
    <3>1. PICK j \in Tokens : Goto(p, "login_store", [req[p] EXCEPT !.new = j])
      BY <1>2 DEF LoginClear
    <3>2. [req[p] EXCEPT !.new = j] \in Req /\ Fits("login_store", [req[p] EXCEPT !.new = j])
      BY ReqType DEF Req
    <3> QED
      BY <3>1, <3>2, GotoType
  <2> QED
    BY <1>2, <2>1, <2>2, <2>3 DEF LoginClear, KeysTypeOK, sessionKeys, accessKeys
<1>3. ASSUME LoginStore(p) PROVE TypeInv'
  <2>1. LocalsOK'
    BY <1>3, FinishType DEF LoginStore
  <2>2. clock + SessionTTL \in Nat
    BY ConstantTypes DEF RowsTypeOK
  <2>3. KeysTypeOK'
    BY <1>3, <2>2 DEF LoginStore, KeysTypeOK, sessionKeys, accessKeys
  <2>4. RowsTypeOK'
    BY <1>3 DEF LoginStore, RowsTypeOK, Token
  <2> QED
    BY <1>3, <2>1, <2>3, <2>4 DEF LoginStore, CountersTypeOK, countKeys
<1> QED
  BY <1>1, <1>2, <1>3 DEF Login

LEMMA FailureTypes ==
    ASSUME TypeInv, NEW p \in Requests, Failure(p)
    PROVE  TypeInv'
<1> USE DEF TypeInv, Labels, Fits, Counting, Refreshing, Making
<1>0. req[p] \in Req /\ (pc[p] \in Counting => req[p].key \in Counters)
  BY ReqType
<1>1. ASSUME Count(p) PROVE TypeInv'
  <2> DEFINE k == req[p].key
             n == fails[k] + 1
  <2>1. k \in Counters /\ n \in Nat
    BY <1>0, <1>1 DEF Count, CountersTypeOK
  <2>2. LocalsOK'
    <3>1. CASE Goto(p, "window", [req[p] EXCEPT !.n = n])
      <4>1. [req[p] EXCEPT !.n = n] \in Req /\ Fits("window", [req[p] EXCEPT !.n = n])
        BY <1>0, <2>1 DEF Req
      <4> QED
        BY <3>1, <4>1, GotoType
    <3>2. CASE Counted(p, k, n)
      BY <2>1, <3>2, CountedType
    <3> QED
      BY <1>1, <3>1, <3>2 DEF Count
  <2> QED
    BY <1>1, <2>1, <2>2 DEF Count, KeysTypeOK, CountersTypeOK, RowsTypeOK, sessionKeys, accessKeys
<1>2. ASSUME Window(p) PROVE TypeInv'
  <2> DEFINE k == req[p].key
  <2>1. k \in Counters /\ req[p].n \in Nat
    BY <1>0, <1>2, ReqType DEF Window
  <2>2. LocalsOK'
    BY <1>2, <2>1, CountedType DEF Window
  <2>3. clock + CounterTTL(k) \in Nat
    BY ConstantTypes DEF CounterTTL, RowsTypeOK
  <2> QED
    BY <1>2, <2>1, <2>2, <2>3 DEF Window, KeysTypeOK, CountersTypeOK, RowsTypeOK, sessionKeys,
           accessKeys, Gone
<1>3. ASSUME LockOut(p) PROVE TypeInv'
  <2>1. LocalsOK'
    BY <1>3, FinishType DEF LockOut
  <2>2. clock + LockTTL \in Nat
    BY ConstantTypes DEF RowsTypeOK
  <2>3. CountersTypeOK'
    BY <1>3, <2>2 DEF LockOut, CountersTypeOK, Gone
  <2>4. KeysTypeOK'
    BY <1>3 DEF LockOut, KeysTypeOK, sessionKeys, accessKeys, Gone
  <2> QED
    BY <1>3, <2>1, <2>3, <2>4 DEF LockOut, RowsTypeOK
<1> QED
  BY <1>1, <1>2, <1>3 DEF Failure

LEMMA RefreshTypes ==
    ASSUME TypeInv, NEW p \in Requests, Refresh(p)
    PROVE  TypeInv'
<1> USE DEF TypeInv, Labels, Fits, Counting, Refreshing, Making
<1>0. req[p] \in Req /\ (pc[p] \in Refreshing => req[p].tok \in Tokens)
  BY ReqType
<1>1. ASSUME NEW j \in Tokens, RefreshTake(p, j) PROVE TypeInv'
  <2>1. [NoReq EXCEPT !.tok = j] \in Req /\ [NoReq EXCEPT !.tok = j].tok = j
    BY DEF NoReq, Req
  <2>2. LocalsOK'
    BY <1>1, <2>1, GotoType DEF RefreshTake
  <2>3. KeysTypeOK'
    BY <1>1 DEF RefreshTake, KeysTypeOK, accessKeys, Gone
  <2> QED
    BY <1>1, <2>2, <2>3 DEF RefreshTake, CountersTypeOK, RowsTypeOK, countKeys
<1>2. ASSUME RefreshMarker(p) PROVE TypeInv'
  <2>1. LocalsOK'
    BY <1>0, <1>2, GotoType, FinishType DEF RefreshMarker
  <2> QED
    BY <1>2, <2>1 DEF RefreshMarker, KeysTypeOK, CountersTypeOK, RowsTypeOK, countKeys,
           sessionKeys, accessKeys
<1>3. ASSUME RefreshGrace(p) PROVE TypeInv'
  <2>1. [req[p] EXCEPT !.found = LiveSessions] \in Req
    BY <1>0 DEF Req, LiveSessions
  <2>2. LocalsOK'
    <3>1. Fits("refresh_revoke", [req[p] EXCEPT !.found = LiveSessions])
      BY <1>0, <1>3 DEF RefreshGrace, Req
    <3> QED
      BY <1>3, <2>1, <3>1, GotoType, FinishType DEF RefreshGrace
  <2> QED
    BY <1>3, <2>2 DEF RefreshGrace, KeysTypeOK, CountersTypeOK, RowsTypeOK, countKeys,
           sessionKeys, accessKeys
<1>4. ASSUME RefreshRevoke(p) PROVE TypeInv'
  <2>1. LocalsOK'
    <3>1. CASE Finish(p)
      BY <3>1, FinishType
    <3>2. ASSUME NEW j, Goto(p, "refresh_revoke", [req[p] EXCEPT !.found = @ \ {j}])
          PROVE  LocalsOK'
      <4>1. [req[p] EXCEPT !.found = @ \ {j}] \in Req
        BY <1>0 DEF Req
      <4>2. Fits("refresh_revoke", [req[p] EXCEPT !.found = @ \ {j}])
        BY <1>0, <1>4 DEF RefreshRevoke, Req
      <4> QED
        BY <3>2, <4>1, <4>2, GotoType
    <3> QED
      BY <1>4, <3>1, <3>2 DEF RefreshRevoke
  <2>2. session' \in [Tokens -> Nat]
    <3>1. session \in [Tokens -> Nat]
      BY DEF KeysTypeOK
    <3>2. (\E j : session' = [session EXCEPT ![j] = 0]) \/ session' = session
      BY <1>4 DEF RefreshRevoke, Gone
    <3> QED
      BY <3>1, <3>2
  <2>3. KeysTypeOK'
    BY <1>4, <2>2 DEF RefreshRevoke, KeysTypeOK, accessKeys
  <2> QED
    BY <1>4, <2>1, <2>3 DEF RefreshRevoke, CountersTypeOK, RowsTypeOK, countKeys
<1>5. ASSUME RefreshUser(p) PROVE TypeInv'
  <2> DEFINE old == req[p].tok
  <2>1. old \in Tokens /\ tokens[old].gen \in Nat
    BY <1>0, <1>5 DEF RefreshUser, RowsTypeOK, Token
  <2>2. RowsTypeOK'
    BY <1>5, <2>1, MakeType DEF RefreshUser, RowsTypeOK
  <2>3. LocalsOK'
    <3>1. CASE Finish(p)
      BY <3>1, FinishType
    <3>2. ASSUME NEW j \in Tokens, Goto(p, "refresh_store", [req[p] EXCEPT !.new = j])
          PROVE  LocalsOK'
      <4>1. [req[p] EXCEPT !.new = j] \in Req
        BY <1>0 DEF Req
      <4>2. Fits("refresh_store", [req[p] EXCEPT !.new = j])
        BY <1>0, <2>1 DEF Req
      <4> QED
        BY <3>2, <4>1, <4>2, GotoType
    <3> QED
      BY <1>5, <3>1, <3>2 DEF RefreshUser
  <2> QED
    BY <1>5, <2>2, <2>3 DEF RefreshUser, KeysTypeOK, CountersTypeOK, countKeys, sessionKeys,
           accessKeys
<1>6. ASSUME RefreshStore(p) PROVE TypeInv'
  <2>1. LocalsOK'
    BY <1>0, <1>6, GotoType, ReqType DEF RefreshStore
  <2>2. clock + SessionTTL \in Nat
    BY ConstantTypes DEF RowsTypeOK
  <2>3. KeysTypeOK'
    BY <1>6, <2>2 DEF RefreshStore, KeysTypeOK, accessKeys
  <2> QED
    BY <1>6, <2>1, <2>3 DEF RefreshStore, CountersTypeOK, RowsTypeOK, countKeys
<1>7. ASSUME RefreshRotated(p) PROVE TypeInv'
  <2>1. LocalsOK'
    BY <1>0, <1>7, GotoType, ReqType DEF RefreshRotated
  <2>2. clock + SessionTTL \in Nat
    BY ConstantTypes DEF RowsTypeOK
  <2>3. KeysTypeOK'
    BY <1>7, <2>2 DEF RefreshRotated, KeysTypeOK, accessKeys
  <2> QED
    BY <1>7, <2>1, <2>3 DEF RefreshRotated, CountersTypeOK, RowsTypeOK, countKeys
<1>8. ASSUME RefreshMark(p) PROVE TypeInv'
  <2>1. LocalsOK'
    BY <1>8, FinishType DEF RefreshMark
  <2>2. clock + GraceTTL \in Nat /\ clock \in Nat
    BY ConstantTypes DEF RowsTypeOK
  <2>3. KeysTypeOK'
    BY <1>8, <2>2 DEF RefreshMark, KeysTypeOK, accessKeys
  <2>4. tokens' \in [Tokens -> Token]
    BY <1>8, <2>2 DEF RefreshMark, RowsTypeOK, Token
  <2> QED
    BY <1>8, <2>1, <2>3, <2>4 DEF RefreshMark, CountersTypeOK, RowsTypeOK, countKeys
<1> QED
  BY <1>1, <1>2, <1>3, <1>4, <1>5, <1>6, <1>7, <1>8 DEF Refresh

LEMMA BlacklistExpType ==
    ASSUME RowsTypeOK, NEW a \in Tokens
    PROVE  AccessExp(a) \in Nat /\ BlacklistExp(a) \in Nat
<1>1. AccessExp(a) \in Nat
  BY ConstantTypes, WholeType DEF AccessExp, RowsTypeOK, Token
<1>2. clock \in Nat /\ AccessTTL \in Nat /\ Second \in Nat
  BY ConstantTypes DEF RowsTypeOK
<1> DEFINE seconds == (AccessExp(a) - clock) \div Second
<1>3. ASSUME seconds > 0 PROVE Second * seconds \in Nat
  <2>1. Second \in Nat \ {0} /\ AccessExp(a) - clock \in Int
    BY <1>1, <1>2, ConstantTypes
  <2>2. seconds \in Int
    BY <2>1
  <2>3. seconds \in Nat
    BY <1>3, <2>2
  <2> HIDE DEF seconds
  <2> QED
    BY <1>2, <2>3
<1> HIDE DEF seconds
<1>4. IF seconds > 0 THEN clock + Second * seconds \in Nat ELSE clock + AccessTTL \in Nat
  BY <1>2, <1>3
<1> QED
  BY <1>1, <1>4 DEF BlacklistExp, seconds

LEMMA LogoutTypes ==
    ASSUME TypeInv, NEW p \in Requests, Logout(p)
    PROVE  TypeInv'
<1> USE DEF TypeInv, Labels, Fits, Counting, Refreshing, Making
<1>1. ASSUME NEW a \in Tokens \cup {Null}, NEW j \in Tokens \cup {Null},
             BeginLogout(p, a, j)
      PROVE  TypeInv'
  <2>1. [NoReq EXCEPT !.tok = j] \in Req
    BY DEF NoReq, Req
  <2>2. LocalsOK'
    BY <1>1, <2>1, GotoType DEF BeginLogout
  <2>3. a # Null => BlacklistExp(a) \in Nat
    BY BlacklistExpType
  <2>4. KeysTypeOK'
    BY <1>1, <2>3 DEF BeginLogout, KeysTypeOK, sessionKeys
  <2>5. budget' \in Budget
    BY <1>1, SpendType DEF BeginLogout, RowsTypeOK
  <2> QED
    BY <1>1, <2>2, <2>4, <2>5 DEF BeginLogout, CountersTypeOK, RowsTypeOK, countKeys
<1>2. ASSUME LogoutDelete(p) PROVE TypeInv'
  <2>1. LocalsOK'
    BY <1>2, FinishType DEF LogoutDelete
  <2>2. KeysTypeOK'
    BY <1>2 DEF LogoutDelete, KeysTypeOK, Without, Gone, accessKeys
  <2> QED
    BY <1>2, <2>1, <2>2 DEF LogoutDelete, CountersTypeOK, RowsTypeOK, countKeys
<1> QED
  BY <1>1, <1>2 DEF Logout

LEMMA ChangeTypes ==
    ASSUME TypeInv, NEW p \in Requests, Change(p)
    PROVE  TypeInv'
<1> USE DEF TypeInv, Labels, Fits, Counting, Refreshing, Making
<1>0. req[p] \in Req
  BY ReqType
<1>1. ASSUME BeginReset(p) PROVE TypeInv'
  <2>1. /\ [NoReq EXCEPT !.kind = "reset"] \in Req
        /\ [NoReq EXCEPT !.key = "code"] \in Req
        /\ [NoReq EXCEPT !.key = "code"].key \in Counters
    BY DEF NoReq, Req, Counters
  <2>2. LocalsOK'
    BY <1>1, <2>1, GotoType DEF BeginReset
  <2>3. budget' \in Budget
    BY <1>1, SpendType DEF BeginReset, MayChange, RowsTypeOK
  <2> QED
    BY <1>1, <2>2, <2>3 DEF BeginReset, KeysTypeOK, CountersTypeOK, RowsTypeOK, countKeys,
           sessionKeys, accessKeys
<1>2. ASSUME NEW a \in Tokens, NEW kind \in {"password", "delete"}, BeginUpdate(p, a, kind)
      PROVE  TypeInv'
  <2>1. [NoReq EXCEPT !.kind = kind] \in Req
    BY DEF NoReq, Req
  <2>2. LocalsOK'
    BY <1>2, <2>1, GotoType DEF BeginUpdate
  <2>3. budget' \in Budget
    BY <1>2, SpendType DEF BeginUpdate, MayChange, RowsTypeOK
  <2> QED
    BY <1>2, <2>2, <2>3 DEF BeginUpdate, KeysTypeOK, CountersTypeOK, RowsTypeOK, countKeys,
           sessionKeys, accessKeys
<1>3. ASSUME CommitChange(p) PROVE TypeInv'
  <2>1. LocalsOK'
    BY <1>0, <1>3, GotoType, FinishType DEF CommitChange
  <2>2. user' \in [pw : Nat, active : BOOLEAN]
    <3> DEFINE on == user.active /\ req[p].kind # "delete"
    <3>1. user \in [pw : Nat, active : BOOLEAN]
      BY DEF RowsTypeOK
    <3>2. user' = user \/ user' = [pw |-> user.pw + 1, active |-> on]
      BY <1>3 DEF CommitChange
    <3>3. on \in BOOLEAN /\ user.pw + 1 \in Nat
      BY <3>1
    <3> HIDE DEF on
    <3> QED
      BY <3>1, <3>2, <3>3
  <2> QED
    BY <1>3, <2>1, <2>2 DEF CommitChange, KeysTypeOK, CountersTypeOK, RowsTypeOK, countKeys,
           sessionKeys, accessKeys
<1>4. ASSUME RevokeScan(p) PROVE TypeInv'
  <2>1. [req[p] EXCEPT !.found = LiveSessions] \in Req
    BY <1>0 DEF Req, LiveSessions
  <2>2. LocalsOK'
    BY <1>4, <2>1, GotoType DEF RevokeScan
  <2> QED
    BY <1>4, <2>2 DEF RevokeScan, KeysTypeOK, CountersTypeOK, RowsTypeOK, countKeys,
           sessionKeys, accessKeys
<1>5. ASSUME RevokeDrop(p) PROVE TypeInv'
  <2>1. [req[p] EXCEPT !.now = clock, !.found = {}] \in Req
    BY <1>0 DEF Req, RowsTypeOK
  <2>2. LocalsOK'
    BY <1>5, <2>1, GotoType DEF RevokeDrop
  <2>3. KeysTypeOK'
    BY <1>5 DEF RevokeDrop, KeysTypeOK, Without, Gone, accessKeys
  <2> QED
    BY <1>5, <2>2, <2>3 DEF RevokeDrop, CountersTypeOK, RowsTypeOK, countKeys
<1>6. ASSUME RevokeStamp(p) PROVE TypeInv'
  <2>1. LocalsOK'
    BY <1>0, <1>6, GotoType, FinishType DEF RevokeStamp
  <2>2. clock + AccessTTL \in Nat /\ clock \in Nat /\ req[p].now \in Nat
    BY ConstantTypes, ReqType DEF RowsTypeOK
  <2>3. KeysTypeOK'
    BY <1>6, <2>2 DEF RevokeStamp, KeysTypeOK, sessionKeys
  <2> QED
    BY <1>6, <2>1, <2>3 DEF RevokeStamp, CountersTypeOK, RowsTypeOK, countKeys
<1>7. ASSUME Forgive(p) PROVE TypeInv'
  <2>1. LocalsOK'
    BY <1>7, FinishType DEF Forgive
  <2> QED
    BY <1>7, <2>1 DEF Forgive, KeysTypeOK, CountersTypeOK, RowsTypeOK, sessionKeys, accessKeys,
           Gone
<1> QED
  BY <1>1, <1>2, <1>3, <1>4, <1>5, <1>6, <1>7 DEF Change

LEMMA ExpiredType ==
    ASSUME NEW D, NEW keys \in [D -> Nat]
    PROVE  Expired(keys) \in [D -> Nat]
BY DEF Expired, Gone

LEMMA TypesStep ==
    ASSUME TypeInv, [Next]_vars
    PROVE  TypeInv'
<1>1. CASE UNCHANGED vars
  BY <1>1 DEF vars, TypeInv, KeysTypeOK, CountersTypeOK, RowsTypeOK, LocalsOK, LocalsTypeOK,
         Fits, sessionKeys, accessKeys, countKeys
<1>2. CASE ForgotPassword
  <2>1. clock + CodeTTL \in Nat
    BY ConstantTypes DEF TypeInv, RowsTypeOK
  <2>2. budget' \in Budget
    BY <1>2, SpendType DEF ForgotPassword, TypeInv, RowsTypeOK
  <2> QED
    BY <1>2, <2>1, <2>2 DEF ForgotPassword, TypeInv, KeysTypeOK, CountersTypeOK, RowsTypeOK,
           LocalsOK, LocalsTypeOK, Fits, sessionKeys, accessKeys, countKeys
<1>3. CASE Tick
  <2>1. KeysTypeOK'
    BY <1>3, ExpiredType DEF Tick, TypeInv, KeysTypeOK, NoStamp, Gone
  <2>2. CountersTypeOK'
    BY <1>3, ExpiredType DEF Tick, TypeInv, CountersTypeOK
  <2>3. RowsTypeOK' /\ LocalsOK'
    BY <1>3 DEF Tick, TypeInv, RowsTypeOK, LocalsOK, LocalsTypeOK, Fits
  <2> QED
    BY <2>1, <2>2, <2>3 DEF TypeInv
<1> QED
  BY <1>1, <1>2, <1>3, LoginTypes, FailureTypes, RefreshTypes, LogoutTypes, ChangeTypes DEF Next

LEMMA TypesInit == Init => TypeInv
<1>1. NoToken \in Token
  BY DEF NoToken, Token
<1> QED
  BY <1>1, IdleType, BudgetAssumption DEF Init, TypeInv, KeysTypeOK, CountersTypeOK, RowsTypeOK,
         LocalsOK, LocalsTypeOK, Labels, Fits, Counting, Refreshing, Making, NoStamp, Gone

LEMMA Typed == Spec => []TypeInv
BY TypesInit, TypesStep, PTL DEF Spec

\* Every reachable state of Sessions has the declared types.
THEOREM SessionTypes == Spec => []TypeOK
<1>1. TypeInv => TypeOK
  BY DEF TypeInv, TypeOK, LocalsOK
<1> QED
  BY <1>1, Typed, PTL

-----------------------------------------------------------------------------
(* A refresh token is exchanged once.  The session of a token is what its    *)
(* exchange consumes: while it is there the token has no child, and once     *)
(* GETDEL has returned it to a request, that request alone is about to make  *)
(* the child.                                                                *)

Childless(j) == \A i \in Tokens : tokens[i].parent # j
SessionsUnspent ==
    \A j \in Tokens : session[j] # Gone =>
        Childless(j) /\ \A p \in Requests : pc[p] = "refresh_user" => req[p].tok # j
TakersAlone ==
    \A p \in Requests : pc[p] = "refresh_user" =>
        /\ tokens[req[p].tok].state = "out"
        /\ Childless(req[p].tok)
        /\ \A q \in Requests :
              pc[q] = "refresh_user" /\ req[q].tok = req[p].tok => q = p
MakersAlone ==
    \A p \in Requests : pc[p] \in Making =>
        /\ tokens[req[p].new].state = "made"
        /\ \A q \in Requests : pc[q] \in Making /\ req[q].new = req[p].new => q = p
ParentsOut ==
    \A i \in Tokens : tokens[i].parent # Null => tokens[tokens[i].parent].state = "out"
ExchangeInv ==
    SessionsUnspent /\ TakersAlone /\ MakersAlone /\ ParentsOut /\ ExchangedOnce

LEMMA GotoMoves ==
    ASSUME TypeInv, NEW p \in Requests, NEW label, NEW r, Goto(p, label, r)
    PROVE  /\ pc'[p] = label /\ req'[p] = r
           /\ \A q \in Requests : q # p => pc'[q] = pc[q] /\ req'[q] = req[q]
BY DEF TypeInv, LocalsOK, LocalsTypeOK, Goto

\* A step of a request that neither makes a token nor hands one out, and stores no
\* session.
LEMMA QuietExchange ==
    ASSUME TypeInv, ExchangeInv, NEW p \in Requests, NEW label, NEW r, Goto(p, label, r),
           tokens' = tokens, \A j \in Tokens : session'[j] \in {session[j], Gone},
           label # "refresh_user",
           label \in Making => pc[p] \in Making /\ r.new = req[p].new
    PROVE  ExchangeInv'
<1> USE DEF ExchangeInv
<1>1. /\ pc'[p] = label /\ req'[p] = r
      /\ \A q \in Requests : q # p => pc'[q] = pc[q] /\ req'[q] = req[q]
  BY GotoMoves
<1>2. SessionsUnspent'
  BY <1>1 DEF SessionsUnspent, Childless
<1>3. TakersAlone'
  BY <1>1 DEF TakersAlone, Childless
<1>4. MakersAlone'
  BY <1>1 DEF MakersAlone
<1>5. ParentsOut' /\ ExchangedOnce'
  BY DEF ParentsOut, ExchangedOnce
<1> QED
  BY <1>2, <1>3, <1>4, <1>5

\* A token is made, by a request that logs in or that alone holds its parent.
LEMMA MakeExchange ==
    ASSUME TypeInv, ExchangeInv, NEW p \in Requests, NEW j \in Tokens,
           NEW parent \in Tokens \cup {Null}, NEW gen, Make(j, parent, gen),
           NEW label \in Making, NEW r, r.new = j, Goto(p, label, r),
           session' = session, pc[p] \notin Making,
           parent # Null => pc[p] = "refresh_user" /\ req[p].tok = parent
    PROVE  ExchangeInv'
<1> USE DEF ExchangeInv
<1>1. /\ pc'[p] = label /\ req'[p] = r
      /\ \A q \in Requests : q # p => pc'[q] = pc[q] /\ req'[q] = req[q]
  BY GotoMoves
<1>2. label # "refresh_user"
  BY DEF Making
<1>3. /\ tokens'[j].state = "made" /\ tokens'[j].parent = parent
      /\ \A i \in Tokens : i # j => tokens'[i] = tokens[i]
  BY DEF Make, TypeInv, RowsTypeOK
<1>4. tokens[j].state = "none"
  BY DEF Make
<1>5. ASSUME parent # Null PROVE
        /\ tokens[parent].state = "out" /\ Childless(parent) /\ session[parent] = Gone
        /\ \A q \in Requests : q # p /\ pc[q] = "refresh_user" => req[q].tok # parent
  BY <1>5 DEF TakersAlone, SessionsUnspent
<1>6. SessionsUnspent'
  BY <1>1, <1>2, <1>3, <1>5, NameAssumption DEF SessionsUnspent, Childless
<1>7. TakersAlone'
  <2> SUFFICES ASSUME NEW q \in Requests, pc'[q] = "refresh_user"
               PROVE  /\ tokens'[req'[q].tok].state = "out"
                      /\ Childless(req[q].tok)'
                      /\ \A s \in Requests :
                            pc'[s] = "refresh_user" /\ req'[s].tok = req'[q].tok => s = q
    BY DEF TakersAlone
  <2>1. q # p /\ pc[q] = "refresh_user" /\ req'[q] = req[q]
    BY <1>1, <1>2
  <2>2. req[q].tok \in Tokens /\ tokens[req[q].tok].state = "out" /\ Childless(req[q].tok)
    BY <2>1 DEF TakersAlone, TypeInv, LocalsOK, Fits, Refreshing
  <2>3. parent # req[q].tok
    BY <1>5, <2>1, <2>2, NameAssumption
  <2> QED
    BY <1>1, <1>2, <1>3, <1>4, <2>1, <2>2, <2>3 DEF TakersAlone, Childless
<1>8. MakersAlone'
  <2>1. \A q \in Requests : pc[q] \in Making =>
            req[q].new \in Tokens /\ req[q].new # j
    BY <1>4 DEF MakersAlone, TypeInv, LocalsOK, Fits
  <2> QED
    BY <1>1, <1>3, <2>1 DEF MakersAlone
<1>9. ParentsOut'
  <2>1. \A i \in Tokens : tokens[i].parent \in Tokens \cup {Null}
    BY DEF TypeInv, RowsTypeOK, Token
  <2> QED
    BY <1>3, <1>4, <1>5, <2>1 DEF ParentsOut
<1>10. ExchangedOnce'
  BY <1>3, <1>5 DEF ExchangedOnce, Childless
<1> QED
  BY <1>6, <1>7, <1>8, <1>9, <1>10

\* A session is stored for the token that the request has made, which may be handed
\* out at once, or later.
LEMMA StoreExchange ==
    ASSUME TypeInv, ExchangeInv, NEW p \in Requests, pc[p] \in Making,
           NEW label, NEW r, Goto(p, label, r), label # "refresh_user",
           \A j \in Tokens : j # req[p].new => session'[j] = session[j],
           \A j \in Tokens : tokens'[j].parent = tokens[j].parent,
           \A j \in Tokens : j # req[p].new => tokens'[j] = tokens[j],
           \/ tokens'[req[p].new].state = "out" /\ label \notin Making
           \/ tokens' = tokens /\ label \in Making /\ r.new = req[p].new
    PROVE  ExchangeInv'
<1> USE DEF ExchangeInv
<1> DEFINE new == req[p].new
<1>1. /\ pc'[p] = label /\ req'[p] = r
      /\ \A q \in Requests : q # p => pc'[q] = pc[q] /\ req'[q] = req[q]
  BY GotoMoves
<1>2. new \in Tokens /\ tokens[new].state = "made"
  BY DEF MakersAlone, TypeInv, LocalsOK, Fits
<1>3. Childless(new) /\ \A q \in Requests : pc[q] = "refresh_user" => req[q].tok # new
  BY <1>2, NameAssumption DEF TakersAlone, ParentsOut, Childless
<1>4. SessionsUnspent'
  BY <1>1, <1>3 DEF SessionsUnspent, Childless
<1>5. TakersAlone'
  <2>1. \A q \in Requests : pc[q] = "refresh_user" => req[q].tok \in Tokens
    BY DEF TypeInv, LocalsOK, Fits, Refreshing
  <2> QED
    BY <1>1, <1>3, <2>1 DEF TakersAlone, Childless
<1>6. MakersAlone'
  <2>1. \A q \in Requests : q # p /\ pc[q] \in Making =>
            req[q].new \in Tokens /\ req[q].new # new
    BY DEF MakersAlone, TypeInv, LocalsOK, Fits
  <2> QED
    BY <1>1, <1>2, <2>1 DEF MakersAlone
<1>7. ParentsOut'
  <2>1. \A i \in Tokens : tokens[i].parent \in Tokens \cup {Null}
    BY DEF TypeInv, RowsTypeOK, Token
  <2> QED
    BY <1>2, <2>1 DEF ParentsOut
<1>8. ExchangedOnce'
  BY DEF ExchangedOnce
<1> QED
  BY <1>4, <1>5, <1>6, <1>7, <1>8

LEMMA ExchangeStep ==
    ASSUME TypeInv, ExchangeInv, [Next]_vars
    PROVE  ExchangeInv'
<1> USE DEF Labels, Making
<1>1. ASSUME UNCHANGED <<tokens, pc, req>>,
             \A j \in Tokens : session'[j] \in {session[j], Gone}
      PROVE  ExchangeInv'
  BY <1>1 DEF ExchangeInv, SessionsUnspent, TakersAlone, MakersAlone, ParentsOut, ExchangedOnce,
         Childless
<1>2. CASE Tick
  BY <1>1, <1>2 DEF Tick, Expired, TypeInv, KeysTypeOK
<1>3. CASE ForgotPassword \/ UNCHANGED vars
  BY <1>1, <1>3 DEF ForgotPassword, vars, sessionKeys
<1>4. ASSUME NEW p \in Requests, Login(p) PROVE ExchangeInv'
  <2>1. ASSUME NEW ip \in Ips, BeginLogin(p, ip) PROVE ExchangeInv'
    BY <2>1, QuietExchange DEF BeginLogin, sessionKeys
  <2>2. CASE LoginClear(p)
    <3>1. PICK j \in Tokens : /\ Make(j, Null, req[p].gen)
                              /\ Goto(p, "login_store", [req[p] EXCEPT !.new = j])
      BY <2>2 DEF LoginClear
    <3>2. [req[p] EXCEPT !.new = j].new = j
      BY ReqType DEF TypeInv, Req
    <3> QED
      BY <2>2, <3>1, <3>2, MakeExchange DEF LoginClear, sessionKeys
  <2>3. CASE LoginStore(p)
    <3>1. req[p].new \in Tokens
      BY <2>3, ReqType DEF LoginStore, TypeInv, Fits
    <3>2. /\ tokens'[req[p].new].state = "out"
          /\ \A j \in Tokens : tokens'[j].parent = tokens[j].parent
          /\ \A j \in Tokens : j # req[p].new => tokens'[j] = tokens[j]
      BY <2>3, <3>1 DEF LoginStore, TypeInv, RowsTypeOK, Token
    <3>3. \A j \in Tokens : j # req[p].new => session'[j] = session[j]
      BY <2>3, <3>1 DEF LoginStore, TypeInv, KeysTypeOK
    <3>4. Goto(p, "idle", NoReq) /\ pc[p] \in Making
      BY <2>3 DEF LoginStore, Finish
    <3> QED
      BY <3>1, <3>2, <3>3, <3>4, StoreExchange
  <2> QED
    BY <1>4, <2>1, <2>2, <2>3 DEF Login
<1>5. ASSUME NEW p \in Requests, Failure(p) PROVE ExchangeInv'
  <2>1. CASE Count(p)
    BY <2>1, QuietExchange DEF Count, Counted, Finish, sessionKeys
  <2>2. CASE Window(p)
    BY <2>2, QuietExchange DEF Window, Counted, Finish, sessionKeys
  <2>3. CASE LockOut(p)
    BY <2>3, QuietExchange DEF LockOut, Finish, sessionKeys
  <2> QED
    BY <1>5, <2>1, <2>2, <2>3 DEF Failure
<1>6. ASSUME NEW p \in Requests, Logout(p) PROVE ExchangeInv'
  <2>1. ASSUME NEW a \in Tokens \cup {Null}, NEW j \in Tokens \cup {Null},
               BeginLogout(p, a, j)
        PROVE  ExchangeInv'
    BY <2>1, QuietExchange DEF BeginLogout, sessionKeys
  <2>2. CASE LogoutDelete(p)
    BY <2>2, QuietExchange DEF LogoutDelete, Without, Finish, TypeInv, KeysTypeOK
  <2> QED
    BY <1>6, <2>1, <2>2 DEF Logout
<1>7. ASSUME NEW p \in Requests, Change(p) PROVE ExchangeInv'
  <2>1. CASE BeginReset(p)
    BY <2>1, QuietExchange DEF BeginReset, sessionKeys
  <2>2. ASSUME NEW a \in Tokens, NEW kind \in {"password", "delete"}, BeginUpdate(p, a, kind)
        PROVE  ExchangeInv'
    BY <2>2, QuietExchange DEF BeginUpdate, sessionKeys
  <2>3. CASE CommitChange(p)
    BY <2>3, QuietExchange DEF CommitChange, Finish, sessionKeys
  <2>4. CASE RevokeScan(p)
    BY <2>4, QuietExchange DEF RevokeScan, sessionKeys
  <2>5. CASE RevokeDrop(p)
    BY <2>5, QuietExchange DEF RevokeDrop, Without, TypeInv, KeysTypeOK
  <2>6. CASE RevokeStamp(p)
    BY <2>6, QuietExchange DEF RevokeStamp, Finish, sessionKeys
  <2>7. CASE Forgive(p)
    BY <2>7, QuietExchange DEF Forgive, Finish, sessionKeys
  <2> QED
    BY <1>7, <2>1, <2>2, <2>3, <2>4, <2>5, <2>6, <2>7 DEF Change
<1>8. ASSUME NEW p \in Requests, Refresh(p) PROVE ExchangeInv'
  <2>1. ASSUME NEW j \in Tokens, RefreshTake(p, j) PROVE ExchangeInv'
    <3>1. session'[j] = Gone /\ \A i \in Tokens : i # j => session'[i] = session[i]
      BY <2>1 DEF RefreshTake, TypeInv, KeysTypeOK
    <3>2. CASE session[j] = Gone
      BY <2>1, <3>1, <3>2, QuietExchange DEF RefreshTake
    <3>3. CASE session[j] # Gone
      <4>1. /\ pc'[p] = "refresh_user" /\ req'[p].tok = j
            /\ \A q \in Requests : q # p => pc'[q] = pc[q] /\ req'[q] = req[q]
        BY <2>1, <3>3, GotoMoves DEF RefreshTake, NoReq
      <4>2. tokens[j].state = "out" /\ tokens' = tokens
        BY <2>1 DEF RefreshTake, Held
      <4>3. Childless(j) /\ \A q \in Requests : pc[q] = "refresh_user" => req[q].tok # j
        BY <3>3 DEF ExchangeInv, SessionsUnspent
      <4> QED
        BY <3>1, <4>1, <4>2, <4>3 DEF ExchangeInv, SessionsUnspent, TakersAlone, MakersAlone,
               ParentsOut, ExchangedOnce, Childless
    <3> QED
      BY <3>2, <3>3
  <2>2. CASE RefreshMarker(p)
    BY <2>2, QuietExchange DEF RefreshMarker, Finish, sessionKeys
  <2>3. CASE RefreshGrace(p)
    BY <2>3, QuietExchange DEF RefreshGrace, Finish, sessionKeys
  <2>4. CASE RefreshRevoke(p)
    BY <2>4, QuietExchange DEF RefreshRevoke, Finish, TypeInv, KeysTypeOK
  <2>5. CASE RefreshUser(p)
    <3>1. CASE Finish(p) /\ UNCHANGED tokens
      BY <2>5, <3>1, QuietExchange DEF RefreshUser, Finish, sessionKeys
    <3>2. ASSUME NEW j \in Tokens, Make(j, req[p].tok, tokens[req[p].tok].gen),
                 Goto(p, "refresh_store", [req[p] EXCEPT !.new = j])
          PROVE  ExchangeInv'
      <4>1. [req[p] EXCEPT !.new = j].new = j /\ req[p].tok \in Tokens
        BY <2>5, ReqType DEF RefreshUser, TypeInv, Req, Fits, Refreshing
      <4> QED
        BY <2>5, <3>2, <4>1, MakeExchange DEF RefreshUser, sessionKeys
    <3> QED
      BY <2>5, <3>1, <3>2 DEF RefreshUser
  <2>6. CASE RefreshStore(p)
    BY <2>6, StoreExchange DEF RefreshStore, TypeInv, KeysTypeOK
  <2>7. CASE RefreshRotated(p)
    BY <2>7, QuietExchange DEF RefreshRotated
  <2>8. CASE RefreshMark(p)
    <3>1. req[p].new \in Tokens
      BY <2>8, ReqType DEF RefreshMark, TypeInv, Fits
    <3> QED
      BY <2>8, <3>1, StoreExchange DEF RefreshMark, Finish, TypeInv, RowsTypeOK, Token
  <2> QED
    BY <1>8, <2>1, <2>2, <2>3, <2>4, <2>5, <2>6, <2>7, <2>8 DEF Refresh
<1> QED
  BY <1>2, <1>3, <1>4, <1>5, <1>6, <1>7, <1>8 DEF Next

LEMMA ExchangeInit == Init => ExchangeInv
BY NameAssumption DEF Init, ExchangeInv, SessionsUnspent, TakersAlone, MakersAlone, ParentsOut,
   ExchangedOnce, Making, NoToken

LEMMA Exchanged == Spec => []ExchangeInv
BY Typed, ExchangeInit, ExchangeStep, PTL DEF Spec

\* However many requests present a refresh token at once, it is exchanged for one
\* token at most.
THEOREM SingleExchange == Spec => []ExchangedOnce
BY Exchanged, PTL DEF ExchangeInv

-----------------------------------------------------------------------------
(* A counter of failures expires: CountersExpire is inductive given the      *)
(* types, since INCR tells the one request that created the counter.         *)

\* A step of a request that sets no TTL and leaves the counters alone.
LEMMA QuietCounters ==
    ASSUME TypeInv, CountersExpire, NEW p \in Requests, NEW label, NEW r, Goto(p, label, r),
           UNCHANGED <<fails, window>>, pc[p] # "window"
    PROVE  CountersExpire'
BY GotoMoves DEF CountersExpire

\* Counters that are deleted, and others that a step leaves alone.
LEMMA DeletedCounters ==
    ASSUME TypeInv, CountersExpire, NEW p \in Requests, NEW label, NEW r, Goto(p, label, r),
           pc[p] # "window",
           \A k \in Counters : fails'[k] = 0 \/ (fails'[k] = fails[k] /\ window'[k] = window[k])
    PROVE  CountersExpire'
BY GotoMoves DEF CountersExpire

LEMMA CountersStep ==
    ASSUME TypeInv, CountersExpire, [Next]_vars
    PROVE  CountersExpire'
<1>1. CASE ForgotPassword \/ UNCHANGED vars
  BY <1>1 DEF ForgotPassword, vars, countKeys, CountersExpire
<1>2. CASE Tick
  <2>1. \A k \in Counters : fails'[k] > 0 /\ window'[k] = Gone =>
            fails[k] > 0 /\ window[k] = Gone
    BY <1>2 DEF Tick, Expired, TypeInv, CountersTypeOK, Gone
  <2> QED
    BY <1>2, <2>1 DEF Tick, CountersExpire
<1>3. ASSUME NEW p \in Requests, Login(p) PROVE CountersExpire'
  <2>1. ASSUME NEW ip \in Ips, BeginLogin(p, ip) PROVE CountersExpire'
    BY <2>1, QuietCounters DEF BeginLogin, countKeys
  <2>2. CASE LoginClear(p)
    <3>1. PICK j \in Tokens : Goto(p, "login_store", [req[p] EXCEPT !.new = j])
      BY <2>2 DEF LoginClear
    <3>2. pc[p] # "window"
      BY <2>2 DEF LoginClear
    <3>3. \A k \in Counters :
              fails'[k] = 0 \/ (fails'[k] = fails[k] /\ window'[k] = window[k])
      BY <2>2 DEF LoginClear, Without, TypeInv, CountersTypeOK
    <3> QED
      BY <3>1, <3>2, <3>3, DeletedCounters
  <2>3. CASE LoginStore(p)
    BY <2>3, QuietCounters DEF LoginStore, Finish, countKeys
  <2> QED
    BY <1>3, <2>1, <2>2, <2>3 DEF Login
<1>4. ASSUME NEW p \in Requests, Failure(p) PROVE CountersExpire'
  <2> DEFINE key == req[p].key
  <2>1. CASE Count(p)
    <3>1. key \in Counters /\ fails[key] \in Nat /\ window[key] \in Nat
      BY <2>1, ReqType DEF Count, TypeInv, Fits, Counting, CountersTypeOK
    <3>2. /\ fails'[key] = fails[key] + 1 /\ window' = window /\ pc[p] # "window"
          /\ \A k \in Counters : k # key => fails'[k] = fails[k]
      BY <2>1, <3>1 DEF Count, TypeInv, CountersTypeOK
    <3>3. CASE fails[key] + 1 = 1
      <4>1. pc'[p] = "window" /\ req'[p].key = key
        <5>1. Goto(p, "window", [req[p] EXCEPT !.n = fails[key] + 1])
          BY <2>1, <3>3 DEF Count
        <5>2. [req[p] EXCEPT !.n = fails[key] + 1].key = key
          BY ReqType DEF TypeInv, Req
        <5> QED
          BY <5>1, <5>2, GotoMoves
      <4>2. \A q \in Requests : q # p => pc'[q] = pc[q] /\ req'[q] = req[q]
        BY <2>1, <3>3, GotoMoves DEF Count
      <4> QED
        BY <3>2, <4>1, <4>2 DEF CountersExpire
    <3>4. CASE fails[key] + 1 # 1
      <4>1. fails[key] > 0
        BY <3>1, <3>4
      <4>2. \A q \in Requests : q # p => pc'[q] = pc[q] /\ req'[q] = req[q]
        BY <2>1, <3>4, GotoMoves DEF Count, Counted, Finish
      <4> QED
        BY <3>2, <4>1, <4>2 DEF CountersExpire
    <3> QED
      BY <3>3, <3>4
  <2>2. CASE Window(p)
    <3>1. key \in Counters
      BY <2>2, ReqType DEF Window, TypeInv, Fits, Counting
    <3>2. clock + CounterTTL(key) \in Nat \ {0}
      BY ConstantTypes DEF CounterTTL, TypeInv, RowsTypeOK
    <3>3. /\ fails' = fails /\ (fails[key] # 0 => window'[key] # Gone)
          /\ \A k \in Counters : k # key => window'[k] = window[k]
      BY <2>2, <3>1, <3>2 DEF Window, TypeInv, CountersTypeOK, Gone
    <3>4. \A q \in Requests : q # p => pc'[q] = pc[q] /\ req'[q] = req[q]
      BY <2>2, GotoMoves DEF Window, Counted, Finish
    <3> QED
      BY <3>3, <3>4 DEF CountersExpire
  <2>3. CASE LockOut(p)
    BY <2>3, DeletedCounters DEF LockOut, Finish, TypeInv, CountersTypeOK
  <2> QED
    BY <1>4, <2>1, <2>2, <2>3 DEF Failure
<1>5. ASSUME NEW p \in Requests, Logout(p) PROVE CountersExpire'
  BY <1>5, QuietCounters DEF Logout, BeginLogout, LogoutDelete, Finish, countKeys
<1>6. ASSUME NEW p \in Requests, Change(p) PROVE CountersExpire'
  <2>1. CASE BeginReset(p)
    BY <2>1, QuietCounters DEF BeginReset, countKeys
  <2>2. ASSUME NEW a \in Tokens, NEW kind \in {"password", "delete"}, BeginUpdate(p, a, kind)
        PROVE  CountersExpire'
    BY <2>2, QuietCounters DEF BeginUpdate, countKeys
  <2>3. CASE CommitChange(p) \/ RevokeScan(p) \/ RevokeDrop(p) \/ RevokeStamp(p)
    BY <2>3, QuietCounters DEF CommitChange, RevokeScan, RevokeDrop, RevokeStamp, Finish,
           countKeys
  <2>4. CASE Forgive(p)
    BY <2>4, DeletedCounters DEF Forgive, Finish
  <2> QED
    BY <1>6, <2>1, <2>2, <2>3, <2>4 DEF Change
<1>7. ASSUME NEW p \in Requests, Refresh(p) PROVE CountersExpire'
  <2>1. ASSUME NEW j \in Tokens, RefreshTake(p, j) PROVE CountersExpire'
    BY <2>1, QuietCounters DEF RefreshTake, countKeys
  <2>2. CASE RefreshMarker(p) \/ RefreshGrace(p) \/ RefreshRevoke(p)
    BY <2>2, QuietCounters DEF RefreshMarker, RefreshGrace, RefreshRevoke, Finish, countKeys
  <2>3. CASE RefreshUser(p) \/ RefreshStore(p)
    BY <2>3, QuietCounters DEF RefreshUser, RefreshStore, Finish, countKeys
  <2>4. CASE RefreshRotated(p) \/ RefreshMark(p)
    BY <2>4, QuietCounters DEF RefreshRotated, RefreshMark, Finish, countKeys
  <2> QED
    BY <1>7, <2>1, <2>2, <2>3, <2>4 DEF Refresh
<1> QED
  BY <1>1, <1>2, <1>3, <1>4, <1>5, <1>6, <1>7 DEF Next

LEMMA CountersInit == Init => CountersExpire
BY DEF Init, CountersExpire

\* No order of failures, successes and resets leaves a counter of failures without
\* a TTL, except while the request that made it has not sent EXPIRE yet.
THEOREM CountersEnd == Spec => []CountersExpire
BY Typed, CountersInit, CountersStep, PTL DEF Spec

-----------------------------------------------------------------------------
(* A replay is recognised.  The rotation marker of a token is set for        *)
(* SessionTTL before a child of it is handed out, and the token has at most  *)
(* that much of its own life left: from then on its marker outlives it.      *)

Renewing == {"refresh_store", "refresh_rotated", "refresh_mark"}
Marked(j) == clock >= tokens[j].exp \/ rotated[j] >= tokens[j].exp
LifeBounded == \A j \in Tokens : tokens[j].exp <= clock + SessionTTL
MakersParents ==
    \A p \in Requests :
        /\ pc[p] = "login_store" => tokens[req[p].new].parent = Null
        /\ pc[p] \in Renewing => tokens[req[p].new].parent = req[p].tok
MarkedFirst == \A p \in Requests : pc[p] = "refresh_mark" => Marked(req[p].tok)
ChildrenMarked ==
    \A i \in Tokens :
        tokens[i].parent # Null /\ tokens[i].state = "out" => Marked(tokens[i].parent)
ReplayInv == LifeBounded /\ MakersParents /\ MarkedFirst /\ ChildrenMarked

LEMMA TokenTypes ==
    ASSUME TypeInv, NEW j \in Tokens
    PROVE  /\ tokens[j].exp \in Nat /\ tokens[j].parent \in Tokens \cup {Null}
           /\ rotated[j] \in Nat /\ clock \in Nat /\ tokens[j] \in Token
BY DEF TypeInv, RowsTypeOK, KeysTypeOK, Token

\* A step of a request that neither makes a token nor hands one out.
LEMMA QuietReplay ==
    ASSUME TypeInv, ReplayInv, NEW p \in Requests, NEW label, NEW r, Goto(p, label, r),
           UNCHANGED <<clock, tokens>>,
           \A j \in Tokens : Marked(j) => Marked(j)',
           label \in Making => pc[p] \in Making /\ r = req[p] /\ pc[p] # "login_store"
                                 /\ label # "login_store",
           label = "refresh_mark" => Marked(req[p].tok)'
    PROVE  ReplayInv'
<1>1. /\ pc'[p] = label /\ req'[p] = r
      /\ \A q \in Requests : q # p => pc'[q] = pc[q] /\ req'[q] = req[q]
  BY GotoMoves
<1>2. LifeBounded'
  BY DEF ReplayInv, LifeBounded
<1>3. MakersParents'
  BY <1>1 DEF ReplayInv, MakersParents, Making, Renewing
<1>4. MarkedFirst'
  <2>1. \A q \in Requests : pc[q] = "refresh_mark" => req[q].tok \in Tokens
    BY DEF TypeInv, LocalsOK, Fits, Refreshing
  <2> QED
    BY <1>1, <2>1 DEF ReplayInv, MarkedFirst, Making
<1>5. ChildrenMarked'
  BY TokenTypes DEF ReplayInv, ChildrenMarked
<1> QED
  BY <1>2, <1>3, <1>4, <1>5 DEF ReplayInv

LEMMA MakeReplay ==
    ASSUME TypeInv, ExchangeInv, ReplayInv, NEW p \in Requests, NEW j \in Tokens,
           NEW parent \in Tokens \cup {Null}, NEW gen, Make(j, parent, gen),
           NEW label, NEW r, r.new = j, Goto(p, label, r),
           UNCHANGED <<clock, rotated>>,
           \/ label = "login_store" /\ parent = Null
           \/ label = "refresh_store" /\ r.tok = parent /\ parent # Null
    PROVE  ReplayInv'
<1>1. /\ pc'[p] = label /\ req'[p] = r
      /\ \A q \in Requests : q # p => pc'[q] = pc[q] /\ req'[q] = req[q]
  BY GotoMoves
<1>2. /\ tokens'[j].state = "made" /\ tokens'[j].parent = parent
      /\ tokens'[j].exp = Whole(clock + SessionTTL)
      /\ \A i \in Tokens : i # j => tokens'[i] = tokens[i]
  BY DEF Make, TypeInv, RowsTypeOK
<1>3. tokens[j].state = "none"
  BY DEF Make
<1>4. clock + SessionTTL \in Nat
  BY ConstantTypes DEF TypeInv, RowsTypeOK
<1>5. LifeBounded'
  BY <1>2, <1>4, WholeType DEF ReplayInv, LifeBounded
<1>6. MakersParents'
  <2>1. \A q \in Requests : pc[q] \in Making => req[q].new \in Tokens /\ req[q].new # j
    BY <1>3 DEF ExchangeInv, MakersAlone, TypeInv, LocalsOK, Fits
  <2> QED
    BY <1>1, <1>2, <2>1 DEF ReplayInv, MakersParents, Making, Renewing
<1>7. MarkedFirst'
  <2> SUFFICES ASSUME NEW q \in Requests, pc'[q] = "refresh_mark"
               PROVE  Marked(req[q].tok)' /\ req'[q] = req[q]
    BY DEF MarkedFirst
  <2>1. pc[q] = "refresh_mark" /\ req'[q] = req[q]
    BY <1>1
  <2>2. req[q].tok \in Tokens /\ req[q].new \in Tokens
    BY <2>1 DEF TypeInv, LocalsOK, Fits, Refreshing, Making
  <2>3. tokens[req[q].tok].state = "out"
    BY <2>1, <2>2, NameAssumption
       DEF ReplayInv, MakersParents, Renewing, ExchangeInv, ParentsOut
  <2>4. Marked(req[q].tok)
    BY <2>1 DEF ReplayInv, MarkedFirst
  <2> QED
    BY <1>2, <1>3, <2>1, <2>2, <2>3, <2>4 DEF Marked
<1>8. ChildrenMarked'
  <2> SUFFICES ASSUME NEW i \in Tokens, tokens'[i].parent # Null, tokens'[i].state = "out"
               PROVE  Marked(tokens[i].parent)' /\ tokens'[i] = tokens[i]
    BY DEF ChildrenMarked
  <2>1. i # j /\ tokens'[i] = tokens[i]
    BY <1>2
  <2>2. tokens[i].parent \in Tokens /\ tokens[tokens[i].parent].state = "out"
    BY <2>1, TokenTypes DEF ExchangeInv, ParentsOut
  <2>3. Marked(tokens[i].parent)
    BY <2>1 DEF ReplayInv, ChildrenMarked
  <2> QED
    BY <1>2, <1>3, <2>1, <2>2, <2>3 DEF Marked
<1> QED
  BY <1>5, <1>6, <1>7, <1>8 DEF ReplayInv

LEMMA HandOutReplay ==
    ASSUME TypeInv, ExchangeInv, ReplayInv, NEW p \in Requests, Finish(p),
           pc[p] \in {"login_store", "refresh_mark"},
           \A j \in Tokens : /\ tokens'[j].parent = tokens[j].parent
                             /\ tokens'[j].exp = tokens[j].exp
                             /\ j # req[p].new => tokens'[j] = tokens[j],
           UNCHANGED <<clock, rotated>>
    PROVE  ReplayInv'
<1> DEFINE new == req[p].new
<1>1. /\ pc'[p] = "idle"
      /\ \A q \in Requests : q # p => pc'[q] = pc[q] /\ req'[q] = req[q]
  BY GotoMoves DEF Finish
<1>2. new \in Tokens
  BY ReqType DEF TypeInv, Fits, Making
<1>3. \A j \in Tokens : Marked(j) => Marked(j)'
  BY DEF Marked
<1>4. LifeBounded'
  BY DEF ReplayInv, LifeBounded
<1>5. MakersParents'
  <2>1. \A q \in Requests : pc[q] \in Making => req[q].new \in Tokens
    BY DEF TypeInv, LocalsOK, Fits
  <2> QED
    BY <1>1, <2>1 DEF ReplayInv, MakersParents, Making, Renewing
<1>6. MarkedFirst'
  <2>1. \A q \in Requests : pc[q] = "refresh_mark" => req[q].tok \in Tokens
    BY DEF TypeInv, LocalsOK, Fits, Refreshing
  <2> QED
    BY <1>1, <1>3, <2>1 DEF ReplayInv, MarkedFirst
<1>7. ChildrenMarked'
  <2> SUFFICES ASSUME NEW i \in Tokens, tokens[i].parent # Null, tokens'[i].state = "out"
               PROVE  Marked(tokens[i].parent)
    BY <1>3, TokenTypes DEF ChildrenMarked
  <2>1. CASE i # new
    BY <2>1 DEF ReplayInv, ChildrenMarked
  <2>2. CASE i = new
    BY <2>2 DEF ReplayInv, MakersParents, MarkedFirst, Renewing
  <2> QED
    BY <2>1, <2>2
<1> QED
  BY <1>4, <1>5, <1>6, <1>7 DEF ReplayInv

LEMMA ReplayStep ==
    ASSUME TypeInv, ExchangeInv, ReplayInv, [Next]_vars
    PROVE  ReplayInv'
<1> USE DEF Making
<1>0. rotated' = rotated /\ tokens' = tokens /\ clock' = clock =>
          \A j \in Tokens : Marked(j) => Marked(j)'
  BY DEF Marked
<1>1. CASE ForgotPassword \/ UNCHANGED vars
  BY <1>1 DEF ForgotPassword, vars, sessionKeys, ReplayInv, LifeBounded, MakersParents,
         MarkedFirst, ChildrenMarked, Marked
<1>2. CASE Tick
  <2>1. clock' = clock + 1 /\ UNCHANGED <<tokens, pc, req>>
    BY <1>2 DEF Tick
  <2>2. \A j \in Tokens : Marked(j) => Marked(j)'
    <3> SUFFICES ASSUME NEW j \in Tokens, Marked(j) PROVE Marked(j)'
      OBVIOUS
    <3>1. rotated'[j] = IF rotated[j] <= clock' THEN 0 ELSE rotated[j]
      BY <1>2 DEF Tick, Expired, Gone, TypeInv, KeysTypeOK
    <3> QED
      BY <2>1, <3>1, TokenTypes DEF Marked
  <2>3. LifeBounded'
    BY <2>1, TokenTypes, ConstantTypes DEF ReplayInv, LifeBounded
  <2>4. MakersParents'
    BY <2>1 DEF ReplayInv, MakersParents
  <2>5. MarkedFirst'
    <3>1. \A p \in Requests : pc[p] = "refresh_mark" => req[p].tok \in Tokens
      BY DEF TypeInv, LocalsOK, Fits, Refreshing
    <3> QED
      BY <2>1, <2>2, <3>1 DEF ReplayInv, MarkedFirst
  <2>6. ChildrenMarked'
    BY <2>1, <2>2, TokenTypes DEF ReplayInv, ChildrenMarked
  <2> QED
    BY <2>3, <2>4, <2>5, <2>6 DEF ReplayInv
<1>3. ASSUME NEW p \in Requests, Login(p) PROVE ReplayInv'
  <2>1. ASSUME NEW ip \in Ips, BeginLogin(p, ip) PROVE ReplayInv'
    BY <1>0, <2>1, QuietReplay DEF BeginLogin, sessionKeys
  <2>2. CASE LoginClear(p)
    <3>1. PICK j \in Tokens : /\ Make(j, Null, req[p].gen)
                              /\ Goto(p, "login_store", [req[p] EXCEPT !.new = j])
      BY <2>2 DEF LoginClear
    <3>2. [req[p] EXCEPT !.new = j].new = j
      BY ReqType DEF TypeInv, Req
    <3> QED
      BY <2>2, <3>1, <3>2, MakeReplay DEF LoginClear, sessionKeys
  <2>3. CASE LoginStore(p)
    <3>1. \A j \in Tokens : /\ tokens'[j].parent = tokens[j].parent
                            /\ tokens'[j].exp = tokens[j].exp
                            /\ j # req[p].new => tokens'[j] = tokens[j]
      BY <2>3 DEF LoginStore, TypeInv, RowsTypeOK, Token
    <3> QED
      BY <2>3, <3>1, HandOutReplay DEF LoginStore
  <2> QED
    BY <1>3, <2>1, <2>2, <2>3 DEF Login
<1>4. ASSUME NEW p \in Requests, Failure(p) PROVE ReplayInv'
  <2>1. CASE Count(p)
    BY <1>0, <2>1, QuietReplay DEF Count, Counted, Finish, sessionKeys
  <2>2. CASE Window(p)
    BY <1>0, <2>2, QuietReplay DEF Window, Counted, Finish, sessionKeys
  <2>3. CASE LockOut(p)
    BY <1>0, <2>3, QuietReplay DEF LockOut, Finish, sessionKeys
  <2> QED
    BY <1>4, <2>1, <2>2, <2>3 DEF Failure
<1>5. ASSUME NEW p \in Requests, Logout(p) PROVE ReplayInv'
  <2>1. ASSUME NEW a \in Tokens \cup {Null}, NEW j \in Tokens \cup {Null},
               BeginLogout(p, a, j)
        PROVE  ReplayInv'
    BY <1>0, <2>1, QuietReplay DEF BeginLogout, sessionKeys
  <2>2. CASE LogoutDelete(p)
    BY <1>0, <2>2, QuietReplay DEF LogoutDelete, Finish
  <2> QED
    BY <1>5, <2>1, <2>2 DEF Logout
<1>6. ASSUME NEW p \in Requests, Change(p) PROVE ReplayInv'
  <2>1. CASE BeginReset(p)
    BY <1>0, <2>1, QuietReplay DEF BeginReset, sessionKeys
  <2>2. ASSUME NEW a \in Tokens, NEW kind \in {"password", "delete"}, BeginUpdate(p, a, kind)
        PROVE  ReplayInv'
    BY <1>0, <2>2, QuietReplay DEF BeginUpdate, sessionKeys
  <2>3. CASE CommitChange(p)
    BY <1>0, <2>3, QuietReplay DEF CommitChange, Finish, sessionKeys
  <2>4. CASE RevokeScan(p)
    BY <1>0, <2>4, QuietReplay DEF RevokeScan, sessionKeys
  <2>5. CASE RevokeDrop(p)
    BY <1>0, <2>5, QuietReplay DEF RevokeDrop
  <2>6. CASE RevokeStamp(p)
    BY <1>0, <2>6, QuietReplay DEF RevokeStamp, Finish, sessionKeys
  <2>7. CASE Forgive(p)
    BY <1>0, <2>7, QuietReplay DEF Forgive, Finish, sessionKeys
  <2> QED
    BY <1>6, <2>1, <2>2, <2>3, <2>4, <2>5, <2>6, <2>7 DEF Change
<1>7. ASSUME NEW p \in Requests, Refresh(p) PROVE ReplayInv'
  <2>1. ASSUME NEW j \in Tokens, RefreshTake(p, j) PROVE ReplayInv'
    BY <1>0, <2>1, QuietReplay DEF RefreshTake
  <2>2. CASE RefreshMarker(p)
    BY <1>0, <2>2, QuietReplay DEF RefreshMarker, Finish, sessionKeys
  <2>3. CASE RefreshGrace(p)
    BY <1>0, <2>3, QuietReplay DEF RefreshGrace, Finish, sessionKeys
  <2>4. CASE RefreshRevoke(p)
    BY <1>0, <2>4, QuietReplay DEF RefreshRevoke, Finish
  <2>5. CASE RefreshUser(p)
    <3>1. CASE Finish(p) /\ UNCHANGED tokens
      BY <1>0, <2>5, <3>1, QuietReplay DEF RefreshUser, Finish, sessionKeys
    <3>2. ASSUME NEW j \in Tokens, Make(j, req[p].tok, tokens[req[p].tok].gen),
                 Goto(p, "refresh_store", [req[p] EXCEPT !.new = j])
          PROVE  ReplayInv'
      <4>1. /\ [req[p] EXCEPT !.new = j].new = j
            /\ [req[p] EXCEPT !.new = j].tok = req[p].tok
            /\ req[p].tok \in Tokens
        BY <2>5, ReqType DEF RefreshUser, TypeInv, Req, Fits, Refreshing
      <4>2. req[p].tok # Null
        BY <4>1, NameAssumption
      <4>3. UNCHANGED <<clock, rotated>>
        BY <2>5 DEF RefreshUser, sessionKeys
      <4> QED
        BY <3>2, <4>1, <4>2, <4>3, MakeReplay
    <3> QED
      BY <2>5, <3>1, <3>2 DEF RefreshUser
  <2>6. CASE RefreshStore(p)
    BY <1>0, <2>6, QuietReplay DEF RefreshStore
  <2>7. CASE RefreshRotated(p)
    <3>1. req[p].tok \in Tokens
      BY <2>7, ReqType DEF RefreshRotated, TypeInv, Fits, Refreshing
    <3>2. /\ rotated'[req[p].tok] = clock + SessionTTL
          /\ \A j \in Tokens : j # req[p].tok => rotated'[j] = rotated[j]
          /\ UNCHANGED <<clock, tokens>>
      BY <2>7, <3>1 DEF RefreshRotated, TypeInv, KeysTypeOK
    <3>3. \A j \in Tokens : Marked(j) => Marked(j)'
      BY <3>2, TokenTypes DEF Marked, ReplayInv, LifeBounded
    <3>4. req'[p] = req[p]
      BY <2>7, GotoMoves DEF RefreshRotated
    <3>5. Marked(req[p].tok)'
      BY <3>1, <3>2, <3>4 DEF Marked, ReplayInv, LifeBounded
    <3> QED
      BY <2>7, <3>2, <3>3, <3>5, QuietReplay DEF RefreshRotated
  <2>8. CASE RefreshMark(p)
    <3>1. \A j \in Tokens : /\ tokens'[j].parent = tokens[j].parent
                            /\ tokens'[j].exp = tokens[j].exp
                            /\ j # req[p].new => tokens'[j] = tokens[j]
      <4>1. tokens' = [tokens EXCEPT ![req[p].new].state = "out", ![req[p].new].iat = clock]
        BY <2>8 DEF RefreshMark
      <4> QED
        BY <4>1 DEF TypeInv, RowsTypeOK, Token
    <3>2. pc[p] = "refresh_mark" /\ Finish(p) /\ UNCHANGED <<clock, rotated>>
      BY <2>8 DEF RefreshMark
    <3> QED
      BY <3>1, <3>2, HandOutReplay
  <2> QED
    BY <1>7, <2>1, <2>2, <2>3, <2>4, <2>5, <2>6, <2>7, <2>8 DEF Refresh
<1> QED
  BY <1>1, <1>2, <1>3, <1>4, <1>5, <1>6, <1>7 DEF Next

LEMMA ReplayInit == Init => ReplayInv
BY ConstantTypes DEF Init, ReplayInv, LifeBounded, MakersParents, MarkedFirst, ChildrenMarked,
   Renewing, NoToken

LEMMA Replayed == Spec => []ReplayInv
BY Typed, Exchanged, ReplayInit, ReplayStep, PTL DEF Spec

\* As long as an exchanged refresh token is accepted by jwt.decode its rotation
\* marker is there: a replay is told from a token that was never exchanged.
THEOREM ReplaysRecognised == Spec => []ReplayDetected
<1>1. TypeInv /\ ReplayInv => ReplayDetected
  <2> SUFFICES ASSUME TypeInv, ReplayInv, NEW i \in Tokens, NEW j \in Tokens,
                      tokens[i].parent = j, tokens[i].state = "out", Held(j)
               PROVE  rotated[j] # Gone
    BY DEF ReplayDetected
  <2>1. Marked(j)
    BY NameAssumption DEF ReplayInv, ChildrenMarked
  <2> QED
    BY <2>1, TokenTypes DEF Marked, Held, Gone
<1> QED
  BY <1>1, Replayed, Typed, PTL

-----------------------------------------------------------------------------
(* A revocation holds, when the account is changed by one request at a time: *)
(* the times written to user_revoked_at then grow, and the key is kept until *)
(* every access token older than the time in it has expired.                 *)

OneChange == \A p, q \in Requests : Changing(p) /\ Changing(q) => p = q
StampsGrow ==
    /\ revoked <= clock
    /\ \A p \in Requests : pc[p] = "stamp" => revoked <= req[p].now /\ req[p].now <= clock
StampKept ==
    /\ revokedAt = NoStamp \/ revokedAt.exp >= revokedAt.at + AccessTTL
    /\ revokedAt.at = revoked \/ clock >= revoked + AccessTTL
RevokeInv == OneChange /\ StampsGrow /\ StampKept

LEMMA AccountTypes ==
    ASSUME TypeInv
    PROVE  /\ clock \in Nat /\ revoked \in Nat /\ revokedAt \in [at : Nat, exp : Nat]
           /\ \A p \in Requests : req[p].now \in Nat
BY DEF TypeInv, RowsTypeOK, KeysTypeOK, LocalsOK, LocalsTypeOK, Req

\* A step of a request that does not write user_revoked_at.
LEMMA QuietRevoke ==
    ASSUME TypeInv, RevokeInv, NEW p \in Requests, NEW label, NEW r, Goto(p, label, r),
           UNCHANGED <<clock, revokedAt, revoked>>,
           \/ label \notin {"commit", "scan", "drop", "stamp", "forgive"}
           \/ Changing(p)
           \/ \A q \in Requests : ~Changing(q),
           label = "stamp" => r.now = clock
    PROVE  RevokeInv'
<1>1. /\ pc'[p] = label /\ req'[p] = r
      /\ \A q \in Requests : q # p => pc'[q] = pc[q] /\ req'[q] = req[q]
  BY GotoMoves
<1>2. OneChange'
  BY <1>1 DEF RevokeInv, OneChange, Changing
<1>3. StampsGrow'
  BY <1>1, AccountTypes DEF RevokeInv, StampsGrow
<1>4. StampKept'
  BY DEF RevokeInv, StampKept
<1> QED
  BY <1>2, <1>3, <1>4 DEF RevokeInv

LEMMA RevokeStep ==
    ASSUME SerialChanges, TypeInv, RevokeInv, [Next]_vars
    PROVE  RevokeInv'
<1>1. CASE ForgotPassword \/ UNCHANGED vars
  BY <1>1 DEF ForgotPassword, vars, accessKeys, RevokeInv, OneChange, StampsGrow, StampKept,
         Changing
<1>2. CASE Tick
  <2>1. clock' = clock + 1 /\ UNCHANGED <<pc, req, revoked>>
    BY <1>2 DEF Tick
  <2>2. OneChange' /\ StampsGrow'
    BY <2>1, AccountTypes DEF RevokeInv, OneChange, StampsGrow, Changing
  <2>3. revokedAt' = IF revokedAt.exp <= clock' THEN NoStamp ELSE revokedAt
    BY <1>2 DEF Tick
  <2>4. StampKept'
    BY <2>1, <2>3, AccountTypes, ConstantTypes DEF RevokeInv, StampKept, NoStamp, Gone
  <2> QED
    BY <2>2, <2>4 DEF RevokeInv
<1>3. ASSUME NEW p \in Requests, Login(p) \/ Failure(p) \/ Logout(p) PROVE RevokeInv'
  <2>1. CASE Login(p)
    BY <2>1, QuietRevoke DEF Login, BeginLogin, LoginClear, LoginStore, Finish, accessKeys
  <2>2. CASE Failure(p)
    BY <2>2, QuietRevoke DEF Failure, Count, Window, LockOut, Counted, Finish, accessKeys
  <2>3. CASE Logout(p)
    BY <2>3, QuietRevoke DEF Logout, BeginLogout, LogoutDelete, Finish, accessKeys
  <2> QED
    BY <1>3, <2>1, <2>2, <2>3
<1>4. ASSUME NEW p \in Requests, Refresh(p) PROVE RevokeInv'
  <2>1. ASSUME NEW j \in Tokens, RefreshTake(p, j) PROVE RevokeInv'
    BY <2>1, QuietRevoke DEF RefreshTake, accessKeys
  <2>2. CASE RefreshMarker(p) \/ RefreshGrace(p) \/ RefreshRevoke(p)
    BY <2>2, QuietRevoke DEF RefreshMarker, RefreshGrace, RefreshRevoke, Finish, accessKeys
  <2>3. CASE RefreshUser(p) \/ RefreshStore(p)
    BY <2>3, QuietRevoke DEF RefreshUser, RefreshStore, Finish, accessKeys
  <2>4. CASE RefreshRotated(p) \/ RefreshMark(p)
    BY <2>4, QuietRevoke DEF RefreshRotated, RefreshMark, Finish, accessKeys
  <2> QED
    BY <1>4, <2>1, <2>2, <2>3, <2>4 DEF Refresh
<1>5. ASSUME NEW p \in Requests, Change(p) PROVE RevokeInv'
  <2>1. CASE BeginReset(p)
    BY <2>1, QuietRevoke DEF BeginReset, MayChange, accessKeys
  <2>2. ASSUME NEW a \in Tokens, NEW kind \in {"password", "delete"}, BeginUpdate(p, a, kind)
        PROVE  RevokeInv'
    BY <2>2, QuietRevoke DEF BeginUpdate, MayChange, accessKeys
  <2>3. CASE CommitChange(p)
    BY <2>3, QuietRevoke DEF CommitChange, Changing, Finish, accessKeys
  <2>4. CASE RevokeScan(p)
    BY <2>4, QuietRevoke DEF RevokeScan, Changing, accessKeys
  <2>5. CASE RevokeDrop(p)
    <3>1. [req[p] EXCEPT !.now = clock, !.found = {}].now = clock
      BY ReqType DEF TypeInv, Req
    <3> QED
      BY <2>5, <3>1, QuietRevoke DEF RevokeDrop, Changing, accessKeys
  <2>6. CASE RevokeStamp(p)
    <3>1. PICK now \in req[p].now..clock :
              /\ revokedAt' = [at |-> now, exp |-> clock + AccessTTL]
              /\ revoked' = IF now > revoked THEN now ELSE revoked
      BY <2>6 DEF RevokeStamp
    <3>2. now \in Nat /\ revoked <= now /\ now <= clock /\ clock' = clock
      BY <2>6, <3>1, AccountTypes DEF RevokeStamp, RevokeInv, StampsGrow
    <3>3. revoked' = now
      BY <3>1, <3>2, AccountTypes
    <3>4. /\ pc'[p] \in {"forgive", "idle"} /\ Changing(p)
          /\ \A q \in Requests : q # p => pc'[q] = pc[q] /\ req'[q] = req[q]
      BY <2>6, GotoMoves DEF RevokeStamp, Finish, Changing
    <3>5. OneChange'
      BY <3>4 DEF RevokeInv, OneChange, Changing
    <3>6. \A q \in Requests : q # p => pc[q] # "stamp"
      BY <3>4 DEF RevokeInv, OneChange, Changing
    <3>7. StampsGrow'
      BY <3>2, <3>3, <3>4, <3>6 DEF StampsGrow
    <3>8. StampKept'
      BY <3>1, <3>2, <3>3, AccountTypes, ConstantTypes DEF StampKept
    <3> QED
      BY <3>5, <3>7, <3>8 DEF RevokeInv
  <2>7. CASE Forgive(p)
    BY <2>7, QuietRevoke DEF Forgive, Finish, accessKeys
  <2> QED
    BY <1>5, <2>1, <2>2, <2>3, <2>4, <2>5, <2>6, <2>7 DEF Change
<1> QED
  BY <1>1, <1>2, <1>3, <1>4, <1>5 DEF Next

LEMMA RevokeInit == Init => RevokeInv
BY DEF Init, RevokeInv, OneChange, StampsGrow, StampKept, Changing, NoStamp

\* An access token made before a revocation is refused from then on, as long as one
\* change of the account is made at a time.
THEOREM RevocationsHold ==
    ASSUME SerialChanges PROVE Spec => []RevokedStaysRevoked
<1>1. TypeInv /\ RevokeInv => RevokedStaysRevoked
  <2> SUFFICES ASSUME TypeInv, RevokeInv, NEW j \in Tokens, tokens[j].iat < revoked,
                      Accepted(j)
               PROVE  FALSE
    BY DEF RevokedStaysRevoked
  <2>1. tokens[j].iat \in Nat
    BY DEF TypeInv, RowsTypeOK, Token
  <2>2. tokens[j].iat + AccessTTL \in Nat
    BY <2>1, ConstantTypes
  <2>3. AccessExp(j) \in Nat /\ AccessExp(j) <= tokens[j].iat + AccessTTL
    BY <2>2, WholeType DEF AccessExp
  <2>4. clock < revoked + AccessTTL
    BY <2>1, <2>3, AccountTypes, ConstantTypes DEF Accepted
  <2>5. revokedAt.at = revoked
    BY <2>4, AccountTypes, ConstantTypes DEF RevokeInv, StampKept
  <2> QED
    BY <2>5 DEF Accepted
<1>2. Spec => []RevokeInv
  BY Typed, RevokeInit, RevokeStep, PTL DEF Spec
<1> QED
  BY <1>1, <1>2, Typed, PTL

-----------------------------------------------------------------------------
(* A logout holds until the last second of the access token: the key on the  *)
(* blacklist is kept for what is left of it, in whole seconds.               *)

Ended(j) == clock + Second > AccessExp(j) \/ blacklist[j] + Second > AccessExp(j)
LogoutsEnd == \A j \in loggedOut : tokens[j].state = "out" /\ Ended(j)

LEMMA AccessTypes ==
    ASSUME TypeInv, NEW j \in Tokens
    PROVE  AccessExp(j) \in Nat /\ blacklist[j] \in Nat /\ clock \in Nat
BY BlacklistExpType DEF TypeInv, KeysTypeOK, RowsTypeOK

LEMMA WholeSeconds ==
    ASSUME TypeInv, NEW a \in Tokens, clock < AccessExp(a)
    PROVE  clock + Second > AccessExp(a) \/ BlacklistExp(a) + Second > AccessExp(a)
<1> DEFINE left == AccessExp(a) - clock
<1>1. AccessExp(a) \in Nat /\ clock \in Nat /\ Second \in Nat \ {0}
  BY AccessTypes, ConstantTypes
<1>2. left \in Nat /\ left > 0 /\ clock + left = AccessExp(a)
  BY <1>1
<1>3. /\ left = Second * (left \div Second) + (left % Second)
      /\ left % Second \in 0..(Second - 1) /\ left \div Second \in Nat
  <2> HIDE DEF left
  <2>1. left = Second * (left \div Second) + (left % Second) /\ left % Second \in 0..(Second - 1)
    BY <1>1, <1>2
  <2>2. left \div Second \in Nat
    BY <1>1, <1>2
  <2> QED
    BY <2>1, <2>2
<1>4. CASE left \div Second > 0
  <2>1. BlacklistExp(a) = clock + Second * (left \div Second)
    BY <1>4 DEF BlacklistExp
  <2>2. PICK whole \in Int : whole = Second * (left \div Second)
    BY <1>1, <1>3
  <2> QED
    BY <1>1, <1>2, <1>3, <2>1, <2>2
<1>5. CASE left \div Second = 0
  <2>1. Second * (left \div Second) = 0
    BY <1>1, <1>5
  <2> QED
    BY <1>1, <1>2, <1>3, <2>1
<1> QED
  BY <1>3, <1>4, <1>5

\* A step that leaves logged-out tokens and their keys alone.
LEMMA QuietLogout ==
    ASSUME TypeInv, LogoutsEnd, UNCHANGED <<clock, blacklist, loggedOut>>,
           \A j \in Tokens : tokens[j].state = "out" => tokens'[j] = tokens[j]
    PROVE  LogoutsEnd'
<1>1. loggedOut \subseteq Tokens
  BY DEF TypeInv, KeysTypeOK
<1> QED
  BY <1>1 DEF LogoutsEnd, Ended, AccessExp

LEMMA LogoutStep ==
    ASSUME TypeInv, ExchangeInv, LogoutsEnd, [Next]_vars
    PROVE  LogoutsEnd'
<1>0. loggedOut \subseteq Tokens
  BY DEF TypeInv, KeysTypeOK
<1>1. CASE ForgotPassword \/ UNCHANGED vars
  BY <1>1, QuietLogout DEF ForgotPassword, vars, accessKeys
<1>2. CASE Tick
  <2>1. /\ UNCHANGED <<tokens, loggedOut>> /\ clock' = clock + 1
        /\ \A j \in Tokens : blacklist'[j] = IF blacklist[j] <= clock' THEN 0 ELSE blacklist[j]
    BY <1>2 DEF Tick, Expired, Gone, TypeInv, KeysTypeOK
  <2> SUFFICES ASSUME NEW j \in loggedOut PROVE tokens[j].state = "out" /\ Ended(j)'
    BY <2>1 DEF LogoutsEnd
  <2>2. j \in Tokens /\ tokens[j].state = "out" /\ Ended(j)
    BY <1>0 DEF LogoutsEnd
  <2>3. AccessExp(j)' = AccessExp(j)
    BY <2>1 DEF AccessExp
  <2> QED
    BY <2>1, <2>2, <2>3, AccessTypes, ConstantTypes DEF Ended
<1>3. ASSUME NEW p \in Requests, Login(p) PROVE LogoutsEnd'
  <2>1. ASSUME NEW ip \in Ips, BeginLogin(p, ip) PROVE LogoutsEnd'
    BY <2>1, QuietLogout DEF BeginLogin, accessKeys
  <2>2. CASE LoginClear(p)
    BY <2>2, QuietLogout DEF LoginClear, Make, accessKeys, TypeInv, RowsTypeOK
  <2>3. CASE LoginStore(p)
    <3>1. tokens[req[p].new].state # "out"
      BY <2>3 DEF LoginStore, ExchangeInv, MakersAlone, Making
    <3>2. \A j \in Tokens : j # req[p].new => tokens'[j] = tokens[j]
      BY <2>3 DEF LoginStore, TypeInv, RowsTypeOK
    <3> QED
      BY <2>3, <3>1, <3>2, QuietLogout DEF LoginStore, accessKeys
  <2> QED
    BY <1>3, <2>1, <2>2, <2>3 DEF Login
<1>4. ASSUME NEW p \in Requests, Failure(p) PROVE LogoutsEnd'
  BY <1>4, QuietLogout DEF Failure, Count, Window, LockOut, accessKeys
<1>5. ASSUME NEW p \in Requests, Logout(p) PROVE LogoutsEnd'
  <2>1. ASSUME NEW a \in Tokens \cup {Null}, NEW j \in Tokens \cup {Null},
               BeginLogout(p, a, j)
        PROVE  LogoutsEnd'
    <3>1. CASE UNCHANGED <<blacklist, loggedOut>>
      BY <2>1, <3>1, QuietLogout DEF BeginLogout
    <3>2. CASE /\ a # Null /\ clock < AccessExp(a)
               /\ blacklist' = [blacklist EXCEPT ![a] = BlacklistExp(a)]
               /\ loggedOut' = loggedOut \cup {a}
      <4>1. a \in Tokens /\ tokens[a].state = "out" /\ UNCHANGED <<clock, tokens>>
        BY <2>1, <3>2 DEF BeginLogout
      <4>2. /\ blacklist'[a] = BlacklistExp(a)
            /\ \A i \in Tokens : i # a => blacklist'[i] = blacklist[i]
        BY <3>2, <4>1 DEF TypeInv, KeysTypeOK
      <4>3. Ended(a)'
        BY <3>2, <4>1, <4>2, WholeSeconds DEF Ended, AccessExp
      <4>4. \A i \in loggedOut : i # a => tokens'[i].state = "out" /\ Ended(i)'
        BY <1>0, <4>1, <4>2 DEF LogoutsEnd, Ended, AccessExp
      <4> QED
        BY <3>2, <4>1, <4>3, <4>4 DEF LogoutsEnd
    <3> QED
      BY <2>1, <3>1, <3>2 DEF BeginLogout
  <2>2. CASE LogoutDelete(p)
    BY <2>2, QuietLogout DEF LogoutDelete, accessKeys
  <2> QED
    BY <1>5, <2>1, <2>2 DEF Logout
<1>6. ASSUME NEW p \in Requests, Change(p) PROVE LogoutsEnd'
  BY <1>6, QuietLogout DEF Change, BeginReset, BeginUpdate, CommitChange, RevokeScan,
         RevokeDrop, RevokeStamp, Forgive, accessKeys
<1>7. ASSUME NEW p \in Requests, Refresh(p) PROVE LogoutsEnd'
  <2>1. CASE RefreshUser(p)
    BY <2>1, QuietLogout DEF RefreshUser, Make, accessKeys, TypeInv, RowsTypeOK
  <2>2. CASE RefreshMark(p)
    <3>1. tokens[req[p].new].state # "out"
      BY <2>2 DEF RefreshMark, ExchangeInv, MakersAlone, Making
    <3>2. \A j \in Tokens : j # req[p].new => tokens'[j] = tokens[j]
      BY <2>2 DEF RefreshMark, TypeInv, RowsTypeOK
    <3> QED
      BY <2>2, <3>1, <3>2, QuietLogout DEF RefreshMark, accessKeys
  <2>3. CASE RefreshMarker(p) \/ RefreshGrace(p) \/ RefreshRevoke(p)
    BY <2>3, QuietLogout DEF RefreshMarker, RefreshGrace, RefreshRevoke, accessKeys
  <2>4. CASE RefreshStore(p) \/ RefreshRotated(p)
    BY <2>4, QuietLogout DEF RefreshStore, RefreshRotated, accessKeys
  <2>5. ASSUME NEW j \in Tokens, RefreshTake(p, j) PROVE LogoutsEnd'
    BY <2>5, QuietLogout DEF RefreshTake, accessKeys
  <2> QED
    BY <1>7, <2>1, <2>2, <2>3, <2>4, <2>5 DEF Refresh
<1> QED
  BY <1>1, <1>2, <1>3, <1>4, <1>5, <1>6, <1>7 DEF Next

LEMMA LogoutInit == Init => LogoutsEnd
BY DEF Init, LogoutsEnd

\* An access token that has been logged out is refused from then on until less than
\* a second of its life is left, however fine the clock is and wherever in a second
\* the token was made, logged out or presented: that much int() takes off the life
\* of its key, and no more.
THEOREM LogoutsHold == Spec => []LogoutEndsAccess
<1>1. TypeInv /\ LogoutsEnd => LogoutEndsAccess
  <2> SUFFICES ASSUME TypeInv, LogoutsEnd, NEW j \in loggedOut, Accepted(j)
               PROVE  AccessExp(j) - clock < Second
    BY DEF LogoutEndsAccess
  <2>1. j \in Tokens /\ Ended(j)
    BY DEF LogoutsEnd, TypeInv, KeysTypeOK
  <2>2. clock < AccessExp(j) /\ blacklist[j] = 0
    BY DEF Accepted, Gone
  <2>3. clock + Second > AccessExp(j)
    BY <2>1, <2>2, AccessTypes, ConstantTypes DEF Ended
  <2> QED
    BY <2>1, <2>3, AccessTypes, ConstantTypes
<1>2. Spec => []LogoutsEnd
  BY Typed, Exchanged, LogoutInit, LogoutStep, PTL DEF Spec
<1> QED
  BY <1>1, <1>2, Typed, PTL

-----------------------------------------------------------------------------
(* Tabs that refresh together do not end each other's sessions, when nobody  *)
(* reads the grace key between the two SETs.  A token is exchanged once, so  *)
(* its rotation marker is set once; the grace key follows it, and is kept    *)
(* for GraceTTL from then on.                                                *)

Graced(j) ==
    \/ rotated[j] + GraceTTL <= clock + SessionTTL
    \/ grace[j] + SessionTTL >= rotated[j] + GraceTTL
MarkersBounded == \A j \in Tokens : rotated[j] <= clock + SessionTTL
MarkedOnce ==
    /\ \A j \in Tokens : Childless(j) => rotated[j] = Gone
    /\ \A p \in Requests :
          pc[p] \in {"refresh_store", "refresh_rotated"} => rotated[req[p].tok] = Gone
MarkersGraced ==
    \A j \in Tokens : rotated[j] # Gone =>
        \/ \E p \in Requests : pc[p] = "refresh_mark" /\ req[p].tok = j
        \/ Graced(j)
UnmadeBare == \A j \in Tokens : tokens[j].state = "none" => tokens[j].parent = Null
ReplayersLate ==
    \A q \in Requests : pc[q] \in {"refresh_grace", "refresh_revoke"} =>
        /\ ~Childless(req[q].tok)
        /\ \A p \in Requests :
              pc[p] \in {"refresh_store", "refresh_rotated"} => req[p].tok # req[q].tok
GraceInv ==
    /\ MarkersBounded /\ MarkedOnce /\ MarkersGraced
    /\ UnmadeBare /\ ReplayersLate /\ TabsNeverRevoke

LEMMA MarkerTypes ==
    ASSUME TypeInv, NEW j \in Tokens
    PROVE  rotated[j] \in Nat /\ grace[j] \in Nat /\ clock \in Nat
BY DEF TypeInv, KeysTypeOK, RowsTypeOK

\* A step of a request that makes no token and leaves markers and grace alone.
LEMMA QuietGrace ==
    ASSUME TypeInv, GraceInv, NEW p \in Requests, NEW label, NEW r, Goto(p, label, r),
           UNCHANGED <<clock, rotated, grace>>,
           \A j \in Tokens : /\ tokens'[j].parent = tokens[j].parent
                             /\ tokens'[j].state = "none" => tokens[j].state = "none",
           label = "refresh_rotated" => pc[p] = "refresh_store" /\ r = req[p],
           label # "refresh_store",
           pc[p] # "refresh_mark",
           label \in {"refresh_grace", "refresh_revoke"} =>
               /\ r.tok = req[p].tok /\ r.tok \in Tokens
               /\ pc[p] \in {"refresh_grace", "refresh_revoke"} \/ rotated[r.tok] # Gone,
           label = "refresh_revoke" =>
               /\ \/ pc[p] = "refresh_revoke"
                  \/ rotated[r.tok] = Gone \/ rotated[r.tok] + GraceTTL <= clock + SessionTTL
    PROVE  GraceInv'
<1>1. /\ pc'[p] = label /\ req'[p] = r
      /\ \A q \in Requests : q # p => pc'[q] = pc[q] /\ req'[q] = req[q]
  BY GotoMoves
<1>2. MarkersBounded'
  BY DEF GraceInv, MarkersBounded
<1>3. MarkedOnce'
  BY <1>1 DEF GraceInv, MarkedOnce, Childless
<1>4. MarkersGraced'
  BY <1>1 DEF GraceInv, MarkersGraced, Graced
<1>5. TabsNeverRevoke'
  BY <1>1 DEF GraceInv, TabsNeverRevoke
<1>6. UnmadeBare'
  BY DEF GraceInv, UnmadeBare
<1>7. ReplayersLate'
  BY <1>1 DEF GraceInv, ReplayersLate, MarkedOnce, Childless
<1> QED
  BY <1>2, <1>3, <1>4, <1>5, <1>6, <1>7 DEF GraceInv

\* A token is made, by a request that logs in or that alone holds its parent.
LEMMA MakeGrace ==
    ASSUME TypeInv, ExchangeInv, GraceInv, NEW p \in Requests, NEW j \in Tokens,
           NEW parent \in Tokens \cup {Null}, NEW gen, Make(j, parent, gen),
           NEW label, NEW r, Goto(p, label, r),
           UNCHANGED <<clock, rotated, grace>>,
           pc[p] \in {"login_clear", "refresh_user"},
           \/ label = "login_store" /\ parent = Null
           \/ /\ label = "refresh_store" /\ r.tok = parent
              /\ pc[p] = "refresh_user" /\ req[p].tok = parent
    PROVE  GraceInv'
<1>1. /\ pc'[p] = label /\ req'[p] = r
      /\ \A q \in Requests : q # p => pc'[q] = pc[q] /\ req'[q] = req[q]
  BY GotoMoves
<1>2. /\ tokens'[j].parent = parent /\ tokens'[j].state = "made"
      /\ tokens[j].state = "none"
      /\ \A i \in Tokens : i # j => tokens'[i] = tokens[i]
  BY DEF Make, TypeInv, RowsTypeOK
<1>3. MarkersBounded'
  BY DEF GraceInv, MarkersBounded
<1>4. MarkedOnce'
  <2>1. tokens[j].parent = Null
    BY <1>2 DEF GraceInv, UnmadeBare
  <2>2. \A i \in Tokens : Childless(i)' => Childless(i)
    BY <1>2, <2>1, NameAssumption DEF Childless
  <2>3. label = "refresh_store" => parent \in Tokens /\ Childless(parent)
    BY ReqType DEF ExchangeInv, TakersAlone, TypeInv, Fits, Refreshing
  <2> QED
    BY <1>1, <2>2, <2>3 DEF GraceInv, MarkedOnce
<1>5. MarkersGraced'
  BY <1>1 DEF GraceInv, MarkersGraced, Graced
<1>6. TabsNeverRevoke'
  BY <1>1 DEF GraceInv, TabsNeverRevoke
<1>7. UnmadeBare'
  BY <1>2 DEF GraceInv, UnmadeBare
<1>8. ReplayersLate'
  <2>1. tokens[j].parent = Null
    BY <1>2 DEF GraceInv, UnmadeBare
  <2>2. \A q \in Requests : pc[q] \in {"refresh_grace", "refresh_revoke"} =>
            req[q].tok \in Tokens
    BY DEF TypeInv, LocalsOK, Fits, Refreshing
  <2>3. \A i \in Tokens : Childless(i)' => Childless(i)
    BY <1>2, <2>1, NameAssumption DEF Childless
  <2>4. label = "refresh_store" => parent \in Tokens /\ Childless(parent)
    BY ReqType DEF ExchangeInv, TakersAlone, TypeInv, Fits, Refreshing
  <2> SUFFICES ASSUME NEW q \in Requests, pc'[q] \in {"refresh_grace", "refresh_revoke"}
               PROVE  /\ ~Childless(req[q].tok)' /\ req'[q] = req[q]
                      /\ \A s \in Requests : pc'[s] \in {"refresh_store", "refresh_rotated"}
                                              => req'[s].tok # req[q].tok
    BY DEF ReplayersLate
  <2>5. q # p /\ pc[q] \in {"refresh_grace", "refresh_revoke"} /\ req'[q] = req[q]
    BY <1>1
  <2>6. req[q].tok \in Tokens /\ ~Childless(req[q].tok)
    BY <2>2, <2>5 DEF GraceInv, ReplayersLate
  <2>7. ~Childless(req[q].tok)'
    BY <2>3, <2>5, <2>6 DEF Childless
  <2> QED
    BY <1>1, <2>4, <2>5, <2>6, <2>7 DEF GraceInv, ReplayersLate
<1> QED
  BY <1>3, <1>4, <1>5, <1>6, <1>7, <1>8 DEF GraceInv

\* A token that two requests are exchanging: there is none.
LEMMA SoleRenewer ==
    ASSUME TypeInv, ExchangeInv, ReplayInv, NEW p \in Requests, NEW q \in Requests,
           pc[p] \in Renewing, pc[q] \in Renewing, req[p].tok = req[q].tok
    PROVE  p = q
<1>1. /\ req[p].new \in Tokens /\ req[q].new \in Tokens
      /\ req[p].tok \in Tokens
  BY ReqType DEF TypeInv, Fits, Making, Refreshing, Renewing
<1>2. req[p].new = req[q].new
  BY <1>1, NameAssumption DEF ReplayInv, MakersParents, ExchangeInv, ExchangedOnce
<1> QED
  BY <1>2 DEF ExchangeInv, MakersAlone, Renewing, Making

LEMMA MarkGrace ==
    ASSUME TypeInv, ExchangeInv, ReplayInv, GraceInv, NEW p \in Requests, RefreshRotated(p)
    PROVE  GraceInv'
<1> DEFINE tok == req[p].tok
<1>1. /\ pc[p] = "refresh_rotated" /\ pc'[p] = "refresh_mark"
      /\ \A q \in Requests : req'[q] = req[q] /\ (q # p => pc'[q] = pc[q])
  BY GotoMoves DEF RefreshRotated
<1>2. tok \in Tokens /\ req[p].new \in Tokens /\ tokens[req[p].new].parent = tok
  BY <1>1, ReqType DEF TypeInv, Fits, Refreshing, Making, Renewing, ReplayInv, MakersParents
<1>3. /\ rotated'[tok] = clock + SessionTTL /\ UNCHANGED <<clock, tokens, grace>>
      /\ \A j \in Tokens : j # tok => rotated'[j] = rotated[j]
  BY <1>2 DEF RefreshRotated, TypeInv, KeysTypeOK
<1>4. \A q \in Requests : q # p /\ pc[q] \in Renewing => req[q].tok # tok
  BY <1>1, SoleRenewer DEF Renewing
<1>5. MarkersBounded'
  BY <1>3, MarkerTypes, ConstantTypes DEF GraceInv, MarkersBounded
<1>6. MarkedOnce'
  <2>1. \A q \in Requests : pc[q] \in Renewing => req[q].tok \in Tokens
    BY DEF TypeInv, LocalsOK, Fits, Refreshing, Renewing
  <2> QED
    BY <1>1, <1>2, <1>3, <1>4, <2>1 DEF GraceInv, MarkedOnce, Childless, Renewing
<1>7. MarkersGraced'
  BY <1>1, <1>3 DEF GraceInv, MarkersGraced, Graced
<1>8. UnmadeBare' /\ ReplayersLate'
  BY <1>1, <1>3 DEF GraceInv, UnmadeBare, ReplayersLate, Childless
<1>9. TabsNeverRevoke'
  <2>1. \A q \in Requests : pc[q] = "refresh_revoke" => req[q].tok \in Tokens /\ req[q].tok # tok
    BY <1>1 DEF TypeInv, LocalsOK, Fits, Refreshing, GraceInv, ReplayersLate
  <2> QED
    BY <1>1, <1>3, <2>1 DEF GraceInv, TabsNeverRevoke
<1> QED
  BY <1>5, <1>6, <1>7, <1>8, <1>9 DEF GraceInv

LEMMA EndGrace ==
    ASSUME TypeInv, ExchangeInv, GraceInv, NEW p \in Requests, RefreshMark(p)
    PROVE  GraceInv'
<1> DEFINE tok == req[p].tok
<1>1. /\ pc[p] = "refresh_mark" /\ pc'[p] = "idle"
      /\ \A q \in Requests : q # p => pc'[q] = pc[q] /\ req'[q] = req[q]
  BY GotoMoves DEF RefreshMark, Finish
<1>2. tok \in Tokens /\ req[p].new \in Tokens
  BY <1>1, ReqType DEF TypeInv, Fits, Refreshing, Making
<1>3. /\ grace'[tok] = clock + GraceTTL /\ UNCHANGED <<clock, rotated>>
      /\ \A j \in Tokens : j # tok => grace'[j] = grace[j]
  BY <1>2 DEF RefreshMark, TypeInv, KeysTypeOK
<1>4. \A j \in Tokens : /\ tokens'[j].parent = tokens[j].parent
                        /\ tokens'[j].state = "none" => tokens[j].state = "none"
  <2>1. tokens' = [tokens EXCEPT ![req[p].new].state = "out", ![req[p].new].iat = clock]
    BY DEF RefreshMark
  <2> QED
    BY <1>2, <2>1 DEF TypeInv, RowsTypeOK, Token
<1>5. MarkersBounded' /\ MarkedOnce'
  BY <1>1, <1>3, <1>4 DEF GraceInv, MarkersBounded, MarkedOnce, Childless
<1>6. MarkersGraced'
  <2> SUFFICES ASSUME NEW j \in Tokens, rotated[j] # Gone,
                      ~ \E q \in Requests : pc'[q] = "refresh_mark" /\ req'[q].tok = j
               PROVE  Graced(j)'
    BY <1>3 DEF MarkersGraced
  <2>2. CASE j = tok
    <3>1. grace'[tok] + SessionTTL >= rotated'[tok] + GraceTTL
      BY <1>2, <1>3, MarkerTypes, ConstantTypes DEF GraceInv, MarkersBounded
    <3> QED
      BY <2>2, <3>1 DEF Graced
  <2>3. CASE j # tok
    BY <1>1, <1>3, <2>3 DEF GraceInv, MarkersGraced, Graced
  <2> QED
    BY <2>2, <2>3
<1>7. UnmadeBare' /\ ReplayersLate'
  BY <1>1, <1>4 DEF GraceInv, UnmadeBare, ReplayersLate, Childless
<1>8. TabsNeverRevoke'
  BY <1>1, <1>3 DEF GraceInv, TabsNeverRevoke
<1> QED
  BY <1>5, <1>6, <1>7, <1>8 DEF GraceInv

LEMMA GraceStep ==
    ASSUME GraceAtOnce, TypeInv, ExchangeInv, ReplayInv, GraceInv, [Next]_vars
    PROVE  GraceInv'
<1>1. CASE ForgotPassword \/ UNCHANGED vars
  BY <1>1 DEF ForgotPassword, vars, sessionKeys, GraceInv, MarkersBounded, MarkedOnce, Childless,
         MarkersGraced, Graced, UnmadeBare, ReplayersLate, TabsNeverRevoke
<1>2. CASE Tick
  <2>1. /\ clock' = clock + 1 /\ UNCHANGED <<tokens, pc, req>>
        /\ \A j \in Tokens :
              /\ rotated'[j] = IF rotated[j] <= clock' THEN 0 ELSE rotated[j]
              /\ grace'[j] = IF grace[j] <= clock' THEN 0 ELSE grace[j]
    BY <1>2 DEF Tick, Expired, Gone, TypeInv, KeysTypeOK
  <2>2. MarkersBounded'
    BY <2>1, MarkerTypes, ConstantTypes DEF GraceInv, MarkersBounded
  <2>3. MarkedOnce'
    <3>1. \A p \in Requests : pc[p] \in {"refresh_store", "refresh_rotated"} =>
              req[p].tok \in Tokens
      BY DEF TypeInv, LocalsOK, Fits, Refreshing
    <3> QED
      BY <2>1, <3>1 DEF GraceInv, MarkedOnce, Childless, Gone
  <2>4. MarkersGraced'
    <3> SUFFICES ASSUME NEW j \in Tokens, rotated'[j] # Gone, Graced(j) PROVE Graced(j)'
      BY <2>1 DEF GraceInv, MarkersGraced, Gone
    <3> QED
      BY <2>1, MarkerTypes, ConstantTypes DEF Graced, Gone
  <2>5. UnmadeBare' /\ ReplayersLate'
    BY <2>1 DEF GraceInv, UnmadeBare, ReplayersLate, Childless
  <2>6. TabsNeverRevoke'
    <3>1. \A p \in Requests : pc[p] = "refresh_revoke" => req[p].tok \in Tokens
      BY DEF TypeInv, LocalsOK, Fits, Refreshing
    <3> QED
      BY <2>1, <3>1, MarkerTypes, ConstantTypes DEF GraceInv, TabsNeverRevoke, Gone
  <2> QED
    BY <2>2, <2>3, <2>4, <2>5, <2>6 DEF GraceInv
<1>3. ASSUME NEW p \in Requests, Login(p) PROVE GraceInv'
  <2>1. ASSUME NEW ip \in Ips, BeginLogin(p, ip) PROVE GraceInv'
    BY <2>1, QuietGrace DEF BeginLogin, sessionKeys
  <2>2. CASE LoginClear(p)
    <3>1. PICK j \in Tokens : /\ Make(j, Null, req[p].gen)
                              /\ Goto(p, "login_store", [req[p] EXCEPT !.new = j])
      BY <2>2 DEF LoginClear
    <3> QED
      BY <2>2, <3>1, MakeGrace DEF LoginClear, sessionKeys
  <2>3. CASE LoginStore(p)
    <3>1. \A j \in Tokens : /\ tokens'[j].parent = tokens[j].parent
                            /\ tokens'[j].state = "none" => tokens[j].state = "none"
      <4>1. tokens' = [tokens EXCEPT ![req[p].new].state = "out"]
        BY <2>3 DEF LoginStore
      <4> QED
        BY <4>1 DEF TypeInv, RowsTypeOK, Token
    <3>2. pc[p] = "login_store" /\ Goto(p, "idle", NoReq) /\ UNCHANGED <<clock, rotated, grace>>
      BY <2>3 DEF LoginStore, Finish
    <3> QED
      BY <3>1, <3>2, QuietGrace
  <2> QED
    BY <1>3, <2>1, <2>2, <2>3 DEF Login
<1>4. ASSUME NEW p \in Requests, Failure(p) PROVE GraceInv'
  <2>1. CASE Count(p)
    BY <2>1, QuietGrace DEF Count, Counted, Finish, sessionKeys
  <2>2. CASE Window(p)
    BY <2>2, QuietGrace DEF Window, Counted, Finish, sessionKeys
  <2>3. CASE LockOut(p)
    BY <2>3, QuietGrace DEF LockOut, Finish, sessionKeys
  <2> QED
    BY <1>4, <2>1, <2>2, <2>3 DEF Failure
<1>5. ASSUME NEW p \in Requests, Logout(p) PROVE GraceInv'
  <2>1. ASSUME NEW a \in Tokens \cup {Null}, NEW j \in Tokens \cup {Null},
               BeginLogout(p, a, j)
        PROVE  GraceInv'
    BY <2>1, QuietGrace DEF BeginLogout, sessionKeys
  <2>2. CASE LogoutDelete(p)
    BY <2>2, QuietGrace DEF LogoutDelete, Finish
  <2> QED
    BY <1>5, <2>1, <2>2 DEF Logout
<1>6. ASSUME NEW p \in Requests, Change(p) PROVE GraceInv'
  <2>1. CASE BeginReset(p)
    BY <2>1, QuietGrace DEF BeginReset, sessionKeys
  <2>2. ASSUME NEW a \in Tokens, NEW kind \in {"password", "delete"}, BeginUpdate(p, a, kind)
        PROVE  GraceInv'
    BY <2>2, QuietGrace DEF BeginUpdate, sessionKeys
  <2>3. CASE CommitChange(p)
    BY <2>3, QuietGrace DEF CommitChange, Finish, sessionKeys
  <2>4. CASE RevokeScan(p) \/ RevokeDrop(p)
    BY <2>4, QuietGrace DEF RevokeScan, RevokeDrop, sessionKeys
  <2>5. CASE RevokeStamp(p) \/ Forgive(p)
    BY <2>5, QuietGrace DEF RevokeStamp, Forgive, Finish, sessionKeys
  <2> QED
    BY <1>6, <2>1, <2>2, <2>3, <2>4, <2>5 DEF Change
<1>7. ASSUME NEW p \in Requests, Refresh(p) PROVE GraceInv'
  <2>0. pc[p] \in Refreshing => req[p].tok \in Tokens
    BY ReqType DEF TypeInv, Fits
  <2>1. ASSUME NEW j \in Tokens, RefreshTake(p, j) PROVE GraceInv'
    BY <2>1, QuietGrace DEF RefreshTake
  <2>2. CASE RefreshMarker(p)
    BY <2>0, <2>2, QuietGrace DEF RefreshMarker, Finish, sessionKeys, Refreshing
  <2>3. CASE RefreshGrace(p)
    <3> DEFINE revoking == [req[p] EXCEPT !.found = LiveSessions]
    <3>1. revoking.tok = req[p].tok /\ req[p].tok \in Tokens
      BY <2>0, <2>3, ReqType DEF RefreshGrace, TypeInv, Req, Refreshing
    <3>2. CASE Finish(p)
      BY <2>3, <3>2, QuietGrace DEF RefreshGrace, Finish, sessionKeys
    <3>3. CASE grace[req[p].tok] = Gone /\ Goto(p, "refresh_revoke", revoking)
      <4>1. rotated[req[p].tok] = Gone \/ Graced(req[p].tok)
        BY <2>3, <3>1 DEF RefreshGrace, GraceInv, MarkersGraced
      <4>2. \/ rotated[req[p].tok] = Gone
            \/ rotated[req[p].tok] + GraceTTL <= clock + SessionTTL
        BY <3>1, <3>3, <4>1, MarkerTypes, ConstantTypes DEF Graced, Gone
      <4>3. pc[p] = "refresh_grace" /\ UNCHANGED <<clock, rotated, grace, tokens>>
        BY <2>3 DEF RefreshGrace, sessionKeys
      <4> HIDE DEF revoking
      <4> QED
        BY <3>1, <3>3, <4>2, <4>3, QuietGrace
    <3> QED
      BY <2>3, <3>2, <3>3 DEF RefreshGrace
  <2>4. CASE RefreshRevoke(p)
    <3>1. CASE Finish(p)
      BY <2>4, <3>1, QuietGrace DEF RefreshRevoke, Finish
    <3>2. ASSUME NEW j, Goto(p, "refresh_revoke", [req[p] EXCEPT !.found = @ \ {j}])
          PROVE  GraceInv'
      <4> DEFINE r == [req[p] EXCEPT !.found = @ \ {j}]
      <4>1. /\ pc[p] = "refresh_revoke" /\ UNCHANGED <<clock, rotated, grace, tokens>>
            /\ r.tok = req[p].tok /\ req[p].tok \in Tokens
        BY <2>0, <2>4, ReqType DEF RefreshRevoke, TypeInv, Req, Refreshing
      <4>2. Goto(p, "refresh_revoke", r)
        BY <3>2
      <4>3. \/ rotated[r.tok] = Gone \/ rotated[r.tok] + GraceTTL <= clock + SessionTTL
        BY <4>1 DEF GraceInv, TabsNeverRevoke
      <4> HIDE DEF r
      <4> QED
        BY <4>1, <4>2, <4>3, QuietGrace
    <3> QED
      BY <2>4, <3>1, <3>2 DEF RefreshRevoke
  <2>5. CASE RefreshUser(p)
    <3>1. CASE Finish(p) /\ UNCHANGED tokens
      BY <2>5, <3>1, QuietGrace DEF RefreshUser, Finish, sessionKeys
    <3>2. ASSUME NEW j \in Tokens, Make(j, req[p].tok, tokens[req[p].tok].gen),
                 Goto(p, "refresh_store", [req[p] EXCEPT !.new = j])
          PROVE  GraceInv'
      <4>1. [req[p] EXCEPT !.new = j].tok = req[p].tok /\ req[p].tok \in Tokens
        BY <2>0, <2>5, ReqType DEF RefreshUser, TypeInv, Req, Refreshing
      <4>2. pc[p] = "refresh_user" /\ UNCHANGED <<clock, rotated, grace>>
        BY <2>5 DEF RefreshUser, sessionKeys
      <4> QED
        BY <3>2, <4>1, <4>2, MakeGrace
    <3> QED
      BY <2>5, <3>1, <3>2 DEF RefreshUser
  <2>6. CASE RefreshStore(p)
    BY <2>6, QuietGrace DEF RefreshStore
  <2> QED
    BY <1>7, <2>1, <2>2, <2>3, <2>4, <2>5, <2>6, MarkGrace, EndGrace DEF Refresh
<1> QED
  BY <1>1, <1>2, <1>3, <1>4, <1>5, <1>6, <1>7 DEF Next

LEMMA GraceInit == Init => GraceInv
BY ConstantTypes DEF Init, GraceInv, MarkersBounded, MarkedOnce, MarkersGraced, UnmadeBare,
   ReplayersLate, TabsNeverRevoke, NoToken, Gone

\* A refresh ends all sessions only with a token exchanged longer ago than the grace
\* window, as long as nobody reads the grace key between the SETs of the rotation
\* marker and of the grace key.
THEOREM TabsSafe ==
    ASSUME GraceAtOnce PROVE Spec => []TabsNeverRevoke
<1>1. Spec => []GraceInv
  BY Typed, Exchanged, Replayed, GraceInit, GraceStep, PTL DEF Spec
<1> QED
  BY <1>1, PTL DEF GraceInv
=============================================================================
