------------------------- MODULE RegistrationProofs -------------------------
(***************************************************************************)
(* Theorems about Registration as a part of Background, for any number of  *)
(* requests, addresses and codes and any lives and limits.                 *)
(***************************************************************************)
EXTENDS Background, FiniteSetTheorems, TLAPS

LEMMA RegistrationConstants ==
    /\ CodeLife \in Nat \ {0} /\ ResendLife \in Nat \ {0} /\ TryLimit \in Nat \ {0, 1}
    /\ MaxCodes \in Nat /\ Nobody \notin Addresses
    /\ \A q \in Plans : q.codes \in 0..MaxCodes /\ q.visitors \subseteq Visitors
BY RegistrationAssumption, PlanAssumption DEF Plan

OneVisitor == Cardinality(plan.visitors) = 1

\* Every code in use has been made, and a request knows the address it is about.
Knows(label, locals) ==
    /\ label \in {"register", "recode", "change"}
          => locals.otp \in CodeIds /\ locals.otp <= issued
    /\ label = "activate" => locals.given \in CodeIds
    /\ label = "resend" => locals.email \in Addresses

CodesMade ==
    /\ account.otp <= issued
    /\ \A v \in Visitors : Knows(doing[v], memo[v])

\* What the row of the account says of its code and of its address.
RowTrue ==
    /\ account.otp # 0 => mailed[account.otp] = account.email
    /\ account.verified => provedBy = account.email

\* And what a request knows, if no other is under way.
VisitorTrue(v) ==
    /\ doing[v] # "nothing" => v \in plan.visitors
    /\ doing[v] = "activate" => mailed[memo[v].given] = account.email
    /\ doing[v] = "change" => mailed[memo[v].otp] = memo[v].email

RegTypeOK == RegistrationTypeOK /\ doing = [v \in Visitors |-> doing[v]] /\ DOMAIN doing = Visitors

RegInv ==
    /\ RegTypeOK /\ CodesMade
    /\ OneVisitor => RowTrue /\ \A v \in Visitors : VisitorTrue(v)

-----------------------------------------------------------------------------
LEMMA Alone ==
    ASSUME RegInv, OneVisitor, NEW v \in Visitors, v \in plan.visitors
    PROVE  \A u \in Visitors \ {v} : doing[u] = "nothing"
<1>1. IsFiniteSet(plan.visitors)
  BY FS_Subset, RegistrationAssumption, RegistrationConstants DEF RegInv, RegTypeOK, RegistrationTypeOK
<1>2. PICK x : plan.visitors = {x}
  BY <1>1, FS_Singleton DEF OneVisitor
<1> QED
  BY <1>2 DEF RegInv, VisitorTrue

LEMMA RegistrationStarts == RegistrationInit => RegInv
BY RegistrationConstants
   DEF RegistrationInit, RegInv, RegTypeOK, RegistrationTypeOK, CodesMade, Knows, RowTrue, VisitorTrue,
       NoAccount, NoMemo, CodeIds

Memo == [email : Addresses \cup {Nobody}, given : 0..MaxCodes, otp : 0..MaxCodes, left : Nat]
TablesOK ==
    /\ account \in [email : Addresses \cup {Nobody}, verified : BOOLEAN,
                    otp : 0..MaxCodes, left : Nat]
    /\ issued \in 0..MaxCodes /\ mailed \in [CodeIds -> Addresses \cup {Nobody}]
    /\ guesses \in [CodeIds -> Nat] /\ provedBy \in Addresses \cup {Nobody}
LimitsOK ==
    /\ tries \in [Addresses -> 0..TryLimit] /\ triesLeft \in [Addresses -> 0..CodeLife]
    /\ resent \in [Addresses -> 0..ResendLife]
    /\ misses \in [Addresses -> 0..TryLimit] /\ missesLeft \in [Addresses -> 0..CodeLife]

LEMMA TypesSplit ==
    RegTypeOK <=> /\ TablesOK /\ LimitsOK /\ memo \in [Visitors -> Memo] /\ plan \in Plans
                  /\ doing = [v \in Visitors |-> doing[v]] /\ DOMAIN doing = Visitors
BY DEF RegTypeOK, RegistrationTypeOK, TablesOK, LimitsOK, Memo

\* What the step of a request has to show for the rest to follow.
LEMMA StepKeeps ==
    ASSUME RegInv, NEW v \in Visitors, NEW label, NEW locals \in Memo, Then(v, label, locals),
           TablesOK', LimitsOK', UNCHANGED plan,
           account'.otp <= issued',
           issued <= issued', issued \in Nat, issued' \in Nat,
           /\ label \in {"register", "recode", "change"}
                 => locals.otp \in CodeIds /\ locals.otp <= issued'
           /\ label = "activate" => locals.given \in CodeIds
           /\ label = "resend" => locals.email \in Addresses,
           doing[v] # "nothing" \/ v \in plan.visitors,
           OneVisitor => RowTrue',
           OneVisitor =>
              /\ label = "activate" => mailed'[locals.given] = account'.email
              /\ label = "change" => mailed'[locals.otp] = locals.email
    PROVE  RegInv'
<1>1. /\ memo' \in [Visitors -> Memo]
      /\ doing' = [u \in Visitors |-> doing'[u]] /\ DOMAIN doing' = Visitors
      /\ doing'[v] = label /\ memo'[v] = locals
      /\ \A u \in Visitors \ {v} : doing'[u] = doing[u] /\ memo'[u] = memo[u]
  BY TypesSplit DEF RegInv, RegTypeOK, Then
<1>2. RegTypeOK'
  <2>1. plan \in Plans
    BY TypesSplit DEF RegInv
  <2> QED
    BY <1>1, <2>1 DEF RegTypeOK, RegistrationTypeOK, TablesOK, LimitsOK, Memo
<1>3. CodesMade'
  <2>1. account'.otp <= issued' /\ Knows(doing[v], memo[v])'
    BY <1>1 DEF Knows
  <2>2. ASSUME NEW u \in Visitors \ {v} PROVE Knows(doing[u], memo[u])'
    <3>1. Knows(doing[u], memo[u])
      BY DEF RegInv, CodesMade
    <3>2. memo[u].otp \in CodeIds /\ memo[u].otp <= issued => memo[u].otp <= issued'
      BY DEF CodeIds
    <3> QED
      BY <1>1, <3>1, <3>2 DEF Knows
  <2> QED
    BY <1>1, <2>1, <2>2 DEF CodesMade
<1>4. ASSUME OneVisitor PROVE \A u \in Visitors : VisitorTrue(u)'
  <2>1. v \in plan.visitors
    BY <1>4 DEF RegInv, VisitorTrue
  <2>2. \A u \in Visitors \ {v} : doing'[u] = "nothing"
    BY <1>1, <1>4, <2>1, Alone
  <2> QED
    BY <1>1, <1>4, <2>1, <2>2 DEF VisitorTrue
<1> QED
  BY <1>2, <1>3, <1>4 DEF RegInv, OneVisitor

\* What a request in progress may take from the invariant.
Holds(v) ==
    /\ TablesOK /\ LimitsOK /\ memo[v] \in Memo /\ account.otp <= issued
    /\ Knows(doing[v], memo[v]) /\ issued \in Nat
    /\ OneVisitor => RowTrue /\ VisitorTrue(v)

LEMMA InvGives == ASSUME RegInv, NEW v \in Visitors PROVE Holds(v)
BY TypesSplit, RegistrationConstants DEF RegInv, CodesMade, Holds, TablesOK

\* A request that replies is known for nothing any more.
LEMMA ReplyKeeps ==
    ASSUME RegInv, NEW v \in Visitors, Replies(v), TablesOK', LimitsOK', UNCHANGED plan,
           account'.otp <= issued', issued' = issued, doing[v] # "nothing",
           OneVisitor => RowTrue'
    PROVE  RegInv'
<1>1. NoMemo \in Memo
  BY RegistrationConstants DEF NoMemo, Memo
<1>2. issued \in Nat
  BY InvGives DEF Holds
<1> QED
  BY <1>1, <1>2, StepKeeps DEF Replies

\* The same, of a table that a step leaves alone.
LEMMA SameTables ==
    ASSUME TablesOK, UNCHANGED <<account, issued, mailed, provedBy>>
    PROVE  /\ guesses' = guesses => TablesOK'
           /\ RowTrue => RowTrue'
BY DEF TablesOK, RowTrue

LEMMA SameLimits == ASSUME LimitsOK, UNCHANGED limits PROVE LimitsOK'
BY DEF LimitsOK, limits

-----------------------------------------------------------------------------
\* Requests that begin.

LEMMA CodeIsNew ==
    ASSUME RegInv, MakeCode, NEW e \in Addresses
    PROVE  /\ issued' = issued + 1 /\ issued' \in CodeIds /\ issued' \in 0..MaxCodes
           /\ NewCode(e) \in Memo /\ NewCode(e).otp = issued + 1 /\ NewCode(e).email = e
           /\ account.otp # issued + 1 /\ account.otp <= issued'
           /\ issued \in Nat /\ issued' \in Nat
<1>1. issued \in 0..MaxCodes /\ plan \in Plans /\ account.otp \in Nat /\ account.otp <= issued
  BY TypesSplit DEF RegInv, TablesOK, CodesMade
<1>2. issued + 1 \in 1..MaxCodes /\ issued' = issued + 1
  BY <1>1, RegistrationConstants DEF MakeCode
<1> QED
  BY <1>1, <1>2, RegistrationConstants DEF NewCode, Memo, CodeIds

LEMMA Registering ==
    ASSUME RegInv, NEW v \in Visitors, NEW e \in Addresses, Register(v, e) PROVE RegInv'
<1>1. /\ NewCode(e) \in Memo /\ NewCode(e).otp \in CodeIds /\ NewCode(e).otp <= issued'
      /\ issued' \in 0..MaxCodes /\ issued \in Nat /\ issued' \in Nat /\ issued <= issued'
      /\ account.otp <= issued' /\ Holds(v)
  BY CodeIsNew, InvGives DEF Register
<1>2. TablesOK' /\ LimitsOK'
  BY <1>1 DEF Register, Holds, TablesOK, LimitsOK, limits
<1>3. OneVisitor => RowTrue'
  BY <1>1 DEF Register, Holds, RowTrue
<1> QED
  BY <1>1, <1>2, <1>3, StepKeeps DEF Register, Arrives

LEMMA Verifying ==
    ASSUME RegInv, NEW v \in Visitors, NEW e \in Addresses, NEW given \in CodeIds \cup {0},
           BeginVerify(v, e, given)
    PROVE  RegInv'
<1> DEFINE m == [NoMemo EXCEPT !.email = e, !.given = given]
<1>1. m \in Memo
  <2>1. given \in 0..MaxCodes
    BY RegistrationConstants DEF CodeIds
  <2>2. NoMemo \in Memo
    BY RegistrationConstants DEF NoMemo, Memo
  <2> QED
    BY <2>1, <2>2 DEF Memo
<1>2. Holds(v)
  BY InvGives
<1>3. TablesOK' /\ (RowTrue => RowTrue')
  BY <1>2, SameTables DEF BeginVerify, Holds
<1>4. LimitsOK'
  <2>1. tries' \in [Addresses -> 0..TryLimit] /\ triesLeft' \in [Addresses -> 0..CodeLife]
    BY <1>2, RegistrationConstants DEF BeginVerify, Holds, LimitsOK
  <2> QED
    BY <1>2, <2>1 DEF BeginVerify, Holds, LimitsOK
<1>5. Then(v, "verify", m) /\ UNCHANGED <<account, issued, plan>> /\ v \in plan.visitors
  BY DEF BeginVerify, Arrives
<1> HIDE DEF m
<1> QED
  BY <1>1, <1>2, <1>3, <1>4, <1>5, StepKeeps DEF Holds

LEMMA Resending ==
    ASSUME RegInv, NEW v \in Visitors, NEW e \in Addresses, BeginResend(v, e) PROVE RegInv'
<1> DEFINE m == [NoMemo EXCEPT !.email = e]
<1>1. m \in Memo /\ m.email = e
  BY RegistrationConstants DEF NoMemo, Memo, CodeIds
<1>2. Holds(v)
  BY InvGives
<1>3. TablesOK' /\ (RowTrue => RowTrue')
  BY <1>2, SameTables DEF BeginResend, Holds
<1>4. LimitsOK'
  BY <1>2, RegistrationConstants DEF BeginResend, Holds, LimitsOK
<1>5. Then(v, "resend", m) /\ UNCHANGED <<account, issued, plan>> /\ v \in plan.visitors
  BY DEF BeginResend, Arrives
<1> HIDE DEF m
<1> QED
  BY <1>1, <1>2, <1>3, <1>4, <1>5, StepKeeps DEF Holds

LEMMA Changing ==
    ASSUME RegInv, NEW v \in Visitors, NEW e \in Addresses, BeginChange(v, e) PROVE RegInv'
<1>1. /\ NewCode(e) \in Memo /\ NewCode(e).otp = issued + 1 /\ NewCode(e).email = e
      /\ issued + 1 \in CodeIds /\ issued' \in 0..MaxCodes /\ issued' = issued + 1
      /\ issued \in Nat /\ issued' \in Nat
      /\ account.otp <= issued' /\ account.otp # issued + 1 /\ Holds(v)
  BY CodeIsNew, InvGives DEF BeginChange
<1>2. LimitsOK'
  BY <1>1 DEF BeginChange, Holds, LimitsOK, limits
<1>3. TablesOK' /\ mailed'[issued + 1] = e
  BY <1>1 DEF BeginChange, Holds, TablesOK
<1>4. OneVisitor => RowTrue'
  BY <1>1 DEF BeginChange, Holds, RowTrue, TablesOK
<1> QED
  BY <1>1, <1>2, <1>3, <1>4, StepKeeps DEF BeginChange, Arrives

-----------------------------------------------------------------------------
\* Requests that go on.

LEMMA Registers ==
    ASSUME RegInv, NEW v \in Visitors, RegisterCommit(v) PROVE RegInv'
<1>1. /\ Holds(v) /\ doing[v] = "register" /\ Replies(v) /\ UNCHANGED plan
      /\ UNCHANGED <<issued, limits, guesses, provedBy>>
  BY InvGives DEF RegisterCommit
<1>2. LimitsOK'
  BY <1>1, SameLimits DEF Holds
<1>3. CASE UNCHANGED <<account, mailed>>
  BY <1>1, <1>2, <1>3, SameTables, ReplyKeeps DEF Holds
<1>4. CASE /\ account' = [email |-> memo[v].email, verified |-> FALSE, otp |-> memo[v].otp,
                          left |-> memo[v].left]
           /\ mailed' = [mailed EXCEPT ![memo[v].otp] = memo[v].email]
  <2>1. memo[v].otp \in CodeIds /\ memo[v].otp <= issued /\ memo[v] \in Memo
    BY <1>1 DEF Holds, Knows
  <2>2. TablesOK'
    BY <1>1, <1>4, <2>1 DEF Holds, TablesOK, Memo
  <2>3. RowTrue'
    BY <1>1, <1>4, <2>1 DEF Holds, TablesOK, RowTrue
  <2> QED
    BY <1>1, <1>2, <1>4, <2>1, <2>2, <2>3, ReplyKeeps
<1> QED
  BY <1>3, <1>4 DEF RegisterCommit

LEMMA VerifyReads ==
    ASSUME RegInv, NEW v \in Visitors, VerifyRead(v) PROVE RegInv'
<1>1. /\ Holds(v) /\ doing[v] = "verify" /\ UNCHANGED plan
      /\ UNCHANGED <<account, issued, mailed, limits, provedBy>>
  BY InvGives DEF VerifyRead
<1>2. LimitsOK' /\ (OneVisitor => RowTrue')
  BY <1>1, SameLimits DEF Holds, RowTrue
<1>3. CASE Replies(v) /\ UNCHANGED guesses
  BY <1>1, <1>2, <1>3, SameTables, ReplyKeeps DEF Holds
<1>4. CASE /\ account.otp # 0 /\ memo[v].given = account.otp
           /\ Then(v, "activate", memo[v]) /\ UNCHANGED guesses
  <2>1. OneVisitor => mailed'[memo[v].given] = account'.email
    BY <1>1, <1>4 DEF Holds, RowTrue
  <2>2. memo[v].given \in CodeIds
    BY <1>1, <1>4, RegistrationConstants DEF Holds, TablesOK, CodeIds
  <2> QED
    BY <1>1, <1>2, <1>4, <2>1, <2>2, SameTables, StepKeeps DEF Holds
<1>5. CASE /\ Then(v, "miss", [memo[v] EXCEPT !.otp = account.otp])
           /\ guesses' = IF account.otp # 0 /\ account.left > 0
                         THEN [guesses EXCEPT ![account.otp] = @ + 1] ELSE guesses
  <2>1. [memo[v] EXCEPT !.otp = account.otp] \in Memo
    BY <1>1 DEF Holds, Memo, TablesOK
  <2>2. account.otp # 0 => account.otp \in CodeIds
    BY <1>1, RegistrationConstants DEF Holds, TablesOK, CodeIds
  <2>3. guesses' \in [CodeIds -> Nat]
    BY <1>1, <1>5, <2>2 DEF Holds, TablesOK
  <2>4. TablesOK'
    BY <1>1, <2>3 DEF Holds, TablesOK
  <2> QED
    BY <1>1, <1>2, <1>5, <2>1, <2>4, StepKeeps DEF Holds
<1> QED
  BY <1>3, <1>4, <1>5 DEF VerifyRead

LEMMA Activates ==
    ASSUME RegInv, NEW v \in Visitors, Activate(v) PROVE RegInv'
<1>1. /\ Holds(v) /\ doing[v] = "activate" /\ UNCHANGED plan /\ Then(v, "clear", memo[v])
      /\ UNCHANGED <<issued, mailed, limits, guesses>>
  BY InvGives DEF Activate
<1>2. LimitsOK'
  BY <1>1, SameLimits DEF Holds
<1>3. account' = [account EXCEPT !.verified = TRUE, !.otp = 0, !.left = 0]
      /\ provedBy' = mailed[memo[v].given] /\ UNCHANGED mailed
  BY DEF Activate
<1>4. account'.otp = 0 /\ account'.email = account.email
      /\ account' \in [email : Addresses \cup {Nobody}, verified : BOOLEAN,
                       otp : 0..MaxCodes, left : Nat]
  <2>1. 0 \in 0..MaxCodes /\ 0 \in Nat
    BY RegistrationConstants
  <2> QED
    BY <1>1, <1>3, <2>1 DEF Holds, TablesOK
<1>5. provedBy' \in Addresses \cup {Nobody}
  BY <1>1, <1>3 DEF Holds, TablesOK, Knows
<1>6. TablesOK' /\ account'.otp <= issued'
  BY <1>1, <1>3, <1>4, <1>5 DEF Holds, TablesOK
<1>7. OneVisitor => RowTrue'
  BY <1>1, <1>3, <1>4 DEF Holds, RowTrue, VisitorTrue
<1> QED
  BY <1>1, <1>2, <1>6, <1>7, StepKeeps DEF Holds

LEMMA CountsOnly ==
    ASSUME RegInv, NEW v \in Visitors, ClearCounts(v) \/ MissWindow(v) \/ ForgetMisses(v)
    PROVE  RegInv'
<1>1. /\ Holds(v) /\ doing[v] # "nothing" /\ Replies(v) /\ UNCHANGED plan
      /\ UNCHANGED <<account, issued, mailed, guesses, provedBy>>
  BY InvGives DEF ClearCounts, MissWindow, ForgetMisses
<1>2. LimitsOK'
  BY <1>1, RegistrationConstants DEF ClearCounts, MissWindow, ForgetMisses, Holds, LimitsOK
<1> QED
  BY <1>1, <1>2, SameTables, ReplyKeeps DEF Holds

LEMMA Misses ==
    ASSUME RegInv, NEW v \in Visitors, Miss(v) PROVE RegInv'
<1>1. /\ Holds(v) /\ doing[v] = "miss" /\ UNCHANGED plan
      /\ UNCHANGED <<account, issued, mailed, guesses, provedBy>>
      /\ Replies(v) \/ Then(v, "window", memo[v]) \/ Then(v, "spoil", memo[v])
  BY InvGives DEF Miss
<1>2. LimitsOK'
  <2>1. misses' \in [Addresses -> 0..TryLimit]
    <3> DEFINE e == memo[v].email
    <3>1. misses' = [misses EXCEPT ![e] = IF misses[e] + 1 > TryLimit THEN @ ELSE misses[e] + 1]
          /\ misses \in [Addresses -> 0..TryLimit]
      BY <1>1 DEF Miss, Holds, LimitsOK
    <3>2. e \in Addresses => (IF misses[e] + 1 > TryLimit THEN misses[e] ELSE misses[e] + 1)
                               \in 0..TryLimit
      BY <3>1, RegistrationConstants
    <3> QED
      BY <3>1, <3>2
  <2> QED
    BY <1>1, <2>1 DEF Miss, Holds, LimitsOK
<1> QED
  BY <1>1, <1>2, SameTables, ReplyKeeps, StepKeeps DEF Holds

LEMMA Spoils ==
    ASSUME RegInv, NEW v \in Visitors, Spoil(v) PROVE RegInv'
<1>1. /\ Holds(v) /\ doing[v] = "spoil" /\ UNCHANGED plan /\ Then(v, "forget", memo[v])
      /\ UNCHANGED <<issued, mailed, limits, guesses, provedBy>>
      /\ account' = account \/ account' = [account EXCEPT !.otp = 0, !.left = 0]
  BY InvGives DEF Spoil
<1>2. LimitsOK'
  BY <1>1, SameLimits DEF Holds
<1>3. TablesOK' /\ account'.otp <= issued' /\ (RowTrue => RowTrue')
  <2>1. CASE account' = account
    BY <1>1, <2>1 DEF Holds, TablesOK, RowTrue
  <2>2. CASE account' = [account EXCEPT !.otp = 0, !.left = 0]
    <3>1. /\ account' \in [email : Addresses \cup {Nobody}, verified : BOOLEAN,
                           otp : 0..MaxCodes, left : Nat]
          /\ account'.otp = 0 /\ account'.email = account.email
          /\ account'.verified = account.verified
      <4>1. 0 \in 0..MaxCodes /\ 0 \in Nat
        BY RegistrationConstants
      <4> QED
        BY <1>1, <2>2, <4>1 DEF Holds, TablesOK
    <3> QED
      BY <1>1, <3>1 DEF Holds, TablesOK, RowTrue
  <2> QED
    BY <1>1, <2>1, <2>2
<1> QED
  BY <1>1, <1>2, <1>3, StepKeeps DEF Holds

LEMMA ResendReads ==
    ASSUME RegInv, NEW v \in Visitors, ResendRead(v) PROVE RegInv'
<1>1. /\ Holds(v) /\ doing[v] = "resend" /\ UNCHANGED plan
      /\ UNCHANGED <<account, mailed, limits, guesses, provedBy>>
  BY InvGives DEF ResendRead
<1>2. LimitsOK' /\ (RowTrue => RowTrue')
  BY <1>1, SameLimits DEF Holds, RowTrue
<1>3. CASE Replies(v) /\ UNCHANGED issued
  BY <1>1, <1>2, <1>3, SameTables, ReplyKeeps DEF Holds
<1>4. CASE account.email = memo[v].email /\ MakeCode /\ Then(v, "recode", NewCode(memo[v].email))
  <2> DEFINE m == NewCode(memo[v].email)
  <2>1. /\ m \in Memo /\ m.otp \in CodeIds /\ m.otp <= issued' /\ issued' \in 0..MaxCodes
        /\ issued' \in Nat /\ issued \in Nat /\ issued <= issued' /\ account.otp <= issued'
    BY <1>1, <1>4, CodeIsNew DEF Holds, Knows
  <2>2. TablesOK'
    BY <1>1, <2>1 DEF Holds, TablesOK
  <2> QED
    BY <1>1, <1>2, <1>4, <2>1, <2>2, StepKeeps DEF Holds
<1> QED
  BY <1>3, <1>4 DEF ResendRead, Unverified

LEMMA Recodes ==
    ASSUME RegInv, NEW v \in Visitors, Recode(v) PROVE RegInv'
<1>1. /\ Holds(v) /\ doing[v] = "recode" /\ UNCHANGED plan /\ Replies(v)
      /\ UNCHANGED <<issued, limits, guesses, provedBy>>
      /\ account' = [account EXCEPT !.otp = memo[v].otp, !.left = memo[v].left]
      /\ mailed' = [mailed EXCEPT ![memo[v].otp] = account.email]
  BY InvGives DEF Recode
<1>2. memo[v].otp \in CodeIds /\ memo[v].otp <= issued /\ memo[v] \in Memo
  BY <1>1 DEF Holds, Knows
<1>3. LimitsOK'
  BY <1>1, SameLimits DEF Holds
<1>4. TablesOK' /\ account'.otp <= issued' /\ (RowTrue => RowTrue')
  BY <1>1, <1>2 DEF Holds, TablesOK, RowTrue, Memo
<1> QED
  BY <1>1, <1>3, <1>4, ReplyKeeps DEF Holds

LEMMA Changes ==
    ASSUME RegInv, NEW v \in Visitors, ChangeCommit(v) PROVE RegInv'
<1>1. /\ Holds(v) /\ doing[v] = "change" /\ UNCHANGED plan /\ Replies(v)
      /\ UNCHANGED <<issued, mailed, limits, guesses, provedBy>>
      /\ \/ account' = account
         \/ account' = [email |-> memo[v].email, verified |-> FALSE, otp |-> memo[v].otp,
                        left |-> memo[v].left]
  BY InvGives DEF ChangeCommit
<1>2. memo[v].otp \in CodeIds /\ memo[v].otp <= issued /\ memo[v] \in Memo
  BY <1>1 DEF Holds, Knows
<1>3. LimitsOK'
  BY <1>1, SameLimits DEF Holds
<1>4. TablesOK' /\ account'.otp <= issued'
  <2>1. CASE account' = account
    BY <1>1, <2>1 DEF Holds, TablesOK
  <2>2. CASE account' = [email |-> memo[v].email, verified |-> FALSE, otp |-> memo[v].otp,
                         left |-> memo[v].left]
    <3>1. account' \in [email : Addresses \cup {Nobody}, verified : BOOLEAN,
                        otp : 0..MaxCodes, left : Nat]
          /\ account'.otp = memo[v].otp
      BY <1>2, <2>2 DEF Memo
    <3> QED
      BY <1>1, <1>2, <3>1 DEF Holds, TablesOK
  <2> QED
    BY <1>1, <2>1, <2>2
<1>5. OneVisitor => RowTrue'
  BY <1>1, <1>2 DEF Holds, RowTrue, VisitorTrue
<1> QED
  BY <1>1, <1>3, <1>4, <1>5, ReplyKeeps

\* Time.
LEMMA Ticking == ASSUME RegInv, RegistrationTick PROVE RegInv'
<1>1. /\ UNCHANGED <<issued, mailed, doing, guesses, provedBy, plan>>
      /\ memo' = [v \in Visitors |-> [memo[v] EXCEPT !.left = Less(@)]]
      /\ account' = [account EXCEPT !.left = Less(@)]
  BY DEF RegistrationTick
<1>2. TablesOK /\ LimitsOK /\ memo \in [Visitors -> Memo]
  BY TypesSplit DEF RegInv
<1>3. \A n \in Nat : Less(n) \in Nat /\ Less(n) <= n
  BY DEF Less
<1>4. /\ account' \in [email : Addresses \cup {Nobody}, verified : BOOLEAN,
                       otp : 0..MaxCodes, left : Nat]
      /\ account'.otp = account.otp /\ account'.email = account.email
      /\ account'.verified = account.verified
  BY <1>1, <1>2, <1>3 DEF TablesOK
<1>5. \A v \in Visitors : /\ memo'[v] \in Memo /\ memo'[v].otp = memo[v].otp
                          /\ memo'[v].email = memo[v].email /\ memo'[v].given = memo[v].given
  BY <1>1, <1>2, <1>3 DEF Memo
<1>6. memo' \in [Visitors -> Memo]
  BY <1>1, <1>5
<1>7. TablesOK'
  BY <1>1, <1>2, <1>4 DEF TablesOK
<1>8. LimitsOK'
  <2>1. /\ triesLeft' \in [Addresses -> 0..CodeLife] /\ missesLeft' \in [Addresses -> 0..CodeLife]
        /\ resent' \in [Addresses -> 0..ResendLife]
    <3>1. \A top \in Nat : \A n \in 0..top : Less(n) \in 0..top
      BY DEF Less
    <3>2. /\ triesLeft' = [e \in Addresses |-> Less(triesLeft[e])]
          /\ missesLeft' = [e \in Addresses |-> Less(missesLeft[e])]
          /\ resent' = [e \in Addresses |-> Less(resent[e])]
      BY DEF RegistrationTick, Elapse
    <3> QED
      BY <1>2, <3>1, <3>2, RegistrationConstants DEF LimitsOK
  <2>2. tries' \in [Addresses -> 0..TryLimit] /\ misses' \in [Addresses -> 0..TryLimit]
    BY <1>2, RegistrationConstants DEF RegistrationTick, LimitsOK, Drop
  <2> QED
    BY <2>1, <2>2 DEF LimitsOK
<1>9. CodesMade'
  BY <1>1, <1>4, <1>5 DEF RegInv, CodesMade, Knows
<1>10. OneVisitor => RowTrue' /\ \A v \in Visitors : VisitorTrue(v)'
  BY <1>1, <1>4, <1>5 DEF RegInv, RowTrue, VisitorTrue
<1>11. RegTypeOK'
  <2>1. plan' \in Plans /\ doing' = [v \in Visitors |-> doing'[v]] /\ DOMAIN doing' = Visitors
    BY <1>1, TypesSplit DEF RegInv
  <2> QED
    BY <1>6, <1>7, <1>8, <2>1 DEF RegTypeOK, RegistrationTypeOK, TablesOK, LimitsOK, Memo
<1> QED
  BY <1>1, <1>9, <1>10, <1>11 DEF RegInv, OneVisitor

-----------------------------------------------------------------------------
LEMMA RegistrationStep == ASSUME RegInv, [RegistrationNext]_registrationVars PROVE RegInv'
<1>1. CASE UNCHANGED registrationVars
  BY <1>1 DEF RegInv, RegTypeOK, RegistrationTypeOK, CodesMade, Knows, RowTrue, VisitorTrue,
              OneVisitor, registrationVars, limits
<1>2. ASSUME NEW v \in Visitors, NEW e \in Addresses,
             \/ Register(v, e) \/ BeginResend(v, e) \/ BeginChange(v, e)
             \/ \E given \in CodeIds \cup {0} : BeginVerify(v, e, given)
      PROVE  RegInv'
  BY <1>2, Registering, Resending, Changing, Verifying
<1>3. ASSUME NEW v \in Visitors,
             \/ RegisterCommit(v) \/ VerifyRead(v) \/ Activate(v) \/ ClearCounts(v)
             \/ Miss(v) \/ MissWindow(v) \/ Spoil(v) \/ ForgetMisses(v)
             \/ ResendRead(v) \/ Recode(v) \/ ChangeCommit(v)
      PROVE  RegInv'
  BY <1>3, Registers, VerifyReads, Activates, CountsOnly, Misses, Spoils, ResendReads, Recodes,
     Changes
<1> QED
  BY <1>1, <1>2, <1>3, Ticking DEF RegistrationNext

\* In Background registration takes its own steps only.
LEMMA RegistrationPart == [BackgroundNext]_backgroundVars => [RegistrationNext]_registrationVars
BY DEF BackgroundNext, backgroundVars, InQueue, InCache, InCatalogue, InRegistration

LEMMA RegistrationHolds == BackgroundSpec => []RegInv
<1>1. BackgroundInit => RegInv
  BY RegistrationStarts DEF BackgroundInit
<1>2. RegInv /\ [BackgroundNext]_backgroundVars => RegInv'
  BY RegistrationStep, RegistrationPart
<1> QED
  BY <1>1, <1>2, PTL DEF BackgroundSpec

\* Requests of one visitor never leave an address that counts as verified without a
\* code having been entered that was mailed to it, whatever they change and resend.
THEOREM AddressProved == BackgroundSpec => []VerifiedByOwnCode
<1>1. RegInv => VerifiedByOwnCode
  BY DEF RegInv, RowTrue, OneVisitor, VerifiedByOwnCode
<1> QED
  BY <1>1, RegistrationHolds, PTL

-----------------------------------------------------------------------------
(* Wrong guesses, of an account that keeps its one address.  Attempts are     *)
(* counted when a request arrives, guesses when it has read the row.        *)

Guessing == {v \in Visitors : doing[v] = "verify"}
Guessers == Cardinality(Guessing)

InFlight == \A v \in Visitors : doing[v] # "nothing" => v \in plan.visitors
\* How many requests there may be besides one that stores a code.
Others   == Cardinality(plan.visitors) - 1

WindowOK(e) == tries[e] = 0 <=> triesLeft[e] = 0

\* Guesses at the code of the row that were made or may still be: counted in this
\* window, if it is older than the code, and otherwise in this one and in an earlier
\* one, which was older; or by the others, before there was the code.  The request that opened a
\* window older than the code is one of the others, or has been answered.
CodeOK(e) ==
    account.left > 0 =>
        /\ tries[e] = 0 => guesses[account.otp] + Guessers < TryLimit + Others
        /\ 0 < triesLeft[e] /\ triesLeft[e] < account.left
              => guesses[account.otp] + Guessers < tries[e] + Others
        /\ triesLeft[e] >= account.left
              => guesses[account.otp] + Guessers < TryLimit + tries[e] + Others

\* Codes that have not come to the row have not been guessed at.
Carries(v) == doing[v] \in {"register", "recode"}
FreshCodes ==
    /\ \A c \in CodeIds : c > issued => guesses[c] = 0
    /\ \A v \in Visitors : Carries(v) =>
          /\ guesses[memo[v].otp] = 0 /\ memo[v].otp # account.otp /\ memo[v].left <= CodeLife
          /\ \A u \in Visitors : Carries(u) /\ memo[u].otp = memo[v].otp => u = v
    /\ account.left <= CodeLife /\ (account.left > 0 => account.otp # 0)

\* The account keeps its address, and once verified stays so.
StaysPut(e) ==
    /\ account.email \in {Nobody, e} /\ (account.verified => account.email = e)
    /\ \A v \in Visitors :
          /\ doing[v] # "change"
          /\ doing[v] # "nothing" => memo[v].email = e
          /\ doing[v] = "activate" => account.email = e
          /\ doing[v] = "clear" => account.verified

FewGuesses == \A c \in CodeIds : guesses[c] < 2 * TryLimit + Others

GuessInv(e) ==
    /\ InFlight /\ StaysPut(e) /\ FreshCodes /\ FewGuesses
    /\ ~account.verified => WindowOK(e) /\ CodeOK(e)

-----------------------------------------------------------------------------
LEMMA ThenSets ==
    ASSUME RegInv, NEW v \in Visitors, NEW label, NEW locals, Then(v, label, locals)
    PROVE  /\ doing'[v] = label /\ memo'[v] = locals
           /\ \A u \in Visitors \ {v} : doing'[u] = doing[u] /\ memo'[u] = memo[u]
BY TypesSplit DEF RegInv, RegTypeOK, Then

LEMMA PutKeeps ==
    ASSUME RegInv, NEW e, StaysPut(e),
           NEW v \in Visitors, NEW label, NEW locals, Then(v, label, locals),
           account'.email \in {Nobody, e}, account'.verified => account'.email = e,
           account.verified => account'.verified, account.email = e => account'.email = e,
           label # "change", label # "nothing" => locals.email = e,
           label = "activate" => account'.email = e, label = "clear" => account'.verified
    PROVE  StaysPut(e)' /\ (account.verified => account'.verified)
<1>1. /\ doing'[v] = label /\ memo'[v] = locals
      /\ \A u \in Visitors \ {v} : doing'[u] = doing[u] /\ memo'[u] = memo[u]
  BY ThenSets
<1> QED
  BY <1>1 DEF StaysPut

\* A step that leaves the row alone and makes the request say no more than it knew.
LEMMA PutKeepsOn ==
    ASSUME RegInv, NEW e, StaysPut(e), account' = account,
           NEW v \in Visitors, NEW label, Then(v, label, memo[v]), doing[v] # "nothing",
           label \notin {"change", "activate", "clear"}
    PROVE  StaysPut(e)' /\ (account.verified => account'.verified)
BY PutKeeps DEF StaysPut

LEMMA PutKeepsReply ==
    ASSUME RegInv, NEW e, StaysPut(e), NEW v \in Visitors, Replies(v),
           \/ account' = account
           \/ account' = [account EXCEPT !.otp = memo[v].otp, !.left = memo[v].left]
    PROVE  StaysPut(e)' /\ (account.verified => account'.verified)
<1>1. account'.email = account.email /\ account'.verified = account.verified
  BY TypesSplit DEF RegInv, TablesOK
<1> QED
  BY <1>1, PutKeeps DEF StaysPut, Replies

LEMMA StaysPutNext ==
    ASSUME RegInv, [RegistrationNext]_registrationVars, NEW e, plan.addresses = {e}, StaysPut(e)
    PROVE  StaysPut(e)' /\ (account.verified => account'.verified)
<1>0. /\ account \in [email : Addresses \cup {Nobody}, verified : BOOLEAN,
                      otp : 0..MaxCodes, left : Nat]
      /\ memo \in [Visitors -> Memo] /\ Nobody \notin Addresses
      /\ \A v \in Visitors, a \in Addresses : Arrives(v, a) => a = e
  BY TypesSplit, RegistrationConstants DEF RegInv, TablesOK, Arrives
<1>1. CASE UNCHANGED registrationVars
  BY <1>1 DEF registrationVars, StaysPut
<1>2. ASSUME NEW v \in Visitors, NEW a \in Addresses, Register(v, a)
      PROVE  StaysPut(e)' /\ (account.verified => account'.verified)
  BY <1>0, <1>2, PutKeeps DEF Register, NewCode, StaysPut
<1>3. ASSUME NEW v \in Visitors, NEW a \in Addresses, BeginResend(v, a)
      PROVE  StaysPut(e)' /\ (account.verified => account'.verified)
  <2>1. [NoMemo EXCEPT !.email = a].email = a
    BY DEF NoMemo
  <2> QED
    BY <1>0, <1>3, <2>1, PutKeeps DEF BeginResend, StaysPut
<1>4. ASSUME NEW v \in Visitors, NEW a \in Addresses, BeginChange(v, a)
      PROVE  StaysPut(e)' /\ (account.verified => account'.verified)
  BY <1>0, <1>4 DEF BeginChange, StaysPut
<1>5. ASSUME NEW v \in Visitors, NEW a \in Addresses, NEW given \in CodeIds \cup {0},
             BeginVerify(v, a, given)
      PROVE  StaysPut(e)' /\ (account.verified => account'.verified)
  <2> DEFINE m == [NoMemo EXCEPT !.email = a, !.given = given]
  <2>1. m.email = a /\ a = e
    BY <1>0, <1>5 DEF NoMemo, BeginVerify
  <2>2. Then(v, "verify", m) /\ account' = account
    BY <1>5 DEF BeginVerify
  <2> HIDE DEF m
  <2> QED
    BY <2>1, <2>2, PutKeeps DEF StaysPut
<1>6. ASSUME NEW v \in Visitors, RegisterCommit(v)
      PROVE  StaysPut(e)' /\ (account.verified => account'.verified)
  <2>1. CASE account' = account
    BY <1>6, <2>1, PutKeepsReply DEF RegisterCommit
  <2>2. CASE account = NoAccount
    <3>1. account'.email = e /\ account'.verified = FALSE /\ account.verified = FALSE
      BY <1>6, <2>2 DEF RegisterCommit, StaysPut, NoAccount
    <3> QED
      BY <1>6, <3>1, PutKeeps DEF RegisterCommit, Replies, StaysPut
  <2> QED
    BY <1>6, <2>1, <2>2 DEF RegisterCommit
<1>7. ASSUME NEW v \in Visitors, VerifyRead(v)
      PROVE  StaysPut(e)' /\ (account.verified => account'.verified)
  <2>1. account' = account /\ doing[v] = "verify" /\ memo[v].email = e
    BY <1>7 DEF VerifyRead, StaysPut
  <2>2. CASE Replies(v)
    BY <2>1, <2>2, PutKeepsReply
  <2>3. CASE Unverified(v) /\ Then(v, "activate", memo[v])
    <3>1. account.email = e
      BY <2>1, <2>3 DEF Unverified
    <3> QED
      BY <2>1, <2>3, <3>1, PutKeeps DEF StaysPut
  <2>4. CASE Then(v, "miss", [memo[v] EXCEPT !.otp = account.otp])
    <3> DEFINE m == [memo[v] EXCEPT !.otp = account.otp]
    <3>1. m.email = e
      BY <1>0, <2>1 DEF Memo
    <3>2. Then(v, "miss", m)
      BY <2>4
    <3> HIDE DEF m
    <3> QED
      BY <2>1, <3>1, <3>2, PutKeeps DEF StaysPut
  <2> QED
    BY <1>7, <2>2, <2>3, <2>4 DEF VerifyRead
<1>8. ASSUME NEW v \in Visitors, Activate(v)
      PROVE  StaysPut(e)' /\ (account.verified => account'.verified)
  <2>1. account'.email = account.email /\ account'.verified = TRUE /\ account.email = e
        /\ memo[v].email = e
    BY <1>0, <1>8 DEF Activate, StaysPut
  <2> QED
    BY <1>8, <2>1, PutKeeps DEF Activate, StaysPut
<1>9. ASSUME NEW v \in Visitors, ClearCounts(v) \/ MissWindow(v) \/ ForgetMisses(v)
      PROVE  StaysPut(e)' /\ (account.verified => account'.verified)
  BY <1>9, PutKeepsReply DEF ClearCounts, MissWindow, ForgetMisses
<1>10. ASSUME NEW v \in Visitors, Miss(v)
       PROVE  StaysPut(e)' /\ (account.verified => account'.verified)
  BY <1>10, PutKeepsReply, PutKeepsOn DEF Miss
<1>11. ASSUME NEW v \in Visitors, Spoil(v)
       PROVE  StaysPut(e)' /\ (account.verified => account'.verified)
  <2>1. account'.email = account.email /\ account'.verified = account.verified
    BY <1>0, <1>11 DEF Spoil
  <2>2. memo[v].email = e /\ Then(v, "forget", memo[v])
    BY <1>11 DEF Spoil, StaysPut
  <2> QED
    BY <2>1, <2>2, PutKeeps DEF StaysPut
<1>12. ASSUME NEW v \in Visitors, ResendRead(v)
       PROVE  StaysPut(e)' /\ (account.verified => account'.verified)
  <2>1. account' = account /\ NewCode(memo[v].email).email = e
    BY <1>12 DEF ResendRead, StaysPut, NewCode
  <2>2. Replies(v) \/ Then(v, "recode", NewCode(memo[v].email))
    BY <1>12 DEF ResendRead
  <2> QED
    BY <2>1, <2>2, PutKeeps, PutKeepsReply DEF StaysPut
<1>13. ASSUME NEW v \in Visitors, Recode(v)
       PROVE  StaysPut(e)' /\ (account.verified => account'.verified)
  BY <1>13, PutKeepsReply DEF Recode
<1>14. ASSUME NEW v \in Visitors, ChangeCommit(v)
       PROVE  StaysPut(e)' /\ (account.verified => account'.verified)
  BY <1>14 DEF ChangeCommit, StaysPut
<1>15. CASE RegistrationTick
  <2>1. /\ account'.email = account.email /\ account'.verified = account.verified
        /\ doing' = doing
        /\ \A v \in Visitors : memo'[v].email = memo[v].email
    BY <1>0, <1>15 DEF RegistrationTick, Memo
  <2> QED
    BY <2>1 DEF StaysPut
<1> QED
  BY <1>1, <1>2, <1>3, <1>4, <1>5, <1>6, <1>7, <1>8, <1>9, <1>10, <1>11, <1>12, <1>13,
     <1>14, <1>15 DEF RegistrationNext
-----------------------------------------------------------------------------
LEMMA FreshKeeps ==
    ASSUME RegInv, FreshCodes, NEW v \in Visitors, NEW label, NEW locals,
           Then(v, label, locals), issued <= issued', issued' \in Nat,
           \/ guesses' = guesses
           \/ /\ account.otp \in CodeIds
              /\ guesses' = [guesses EXCEPT ![account.otp] = @ + 1],
           \/ label \notin {"register", "recode"}
           \/ /\ issued' = issued + 1 /\ locals.otp = issued + 1 /\ locals.left <= CodeLife
              /\ issued + 1 \in CodeIds
              /\ guesses' = guesses /\ account' = account,
           account'.otp \in {account.otp, 0} \/ (Carries(v) /\ account'.otp = memo[v].otp),
           account'.left <= CodeLife /\ (account'.left > 0 => account'.otp # 0)
    PROVE  FreshCodes'
<1>1. /\ doing'[v] = label /\ memo'[v] = locals
      /\ \A u \in Visitors \ {v} : doing'[u] = doing[u] /\ memo'[u] = memo[u]
  BY ThenSets
<1>2. /\ \A u \in Visitors : Carries(u) => memo[u].otp \in CodeIds /\ memo[u].otp <= issued
      /\ account.otp <= issued /\ account.otp \in Nat /\ issued \in Nat
      /\ guesses \in [CodeIds -> Nat] /\ \A c \in CodeIds : c \in Nat /\ c # 0
  BY TypesSplit DEF RegInv, TablesOK, CodesMade, Knows, Carries, CodeIds
<1>3. \A c \in CodeIds : c # account.otp => guesses'[c] = guesses[c]
  BY <1>2
<1>4. \A c \in CodeIds : c > issued' => guesses'[c] = 0
  BY <1>2, <1>3 DEF FreshCodes
<1>5. ASSUME NEW u \in Visitors \ {v}, Carries(u)'
      PROVE  /\ Carries(u) /\ memo'[u] = memo[u] /\ memo[u].otp \in CodeIds
             /\ guesses'[memo[u].otp] = 0 /\ memo[u].otp # account'.otp
             /\ memo[u].left <= CodeLife
  BY <1>1, <1>2, <1>3, <1>5 DEF FreshCodes, Carries
<1>6. ASSUME Carries(v)'
      PROVE  /\ issued' = issued + 1 /\ memo'[v].otp = issued + 1 /\ memo'[v].left <= CodeLife
             /\ guesses'[memo'[v].otp] = 0 /\ memo'[v].otp # account'.otp
             /\ \A u \in Visitors \ {v} : Carries(u)' => memo'[u].otp # memo'[v].otp
  <2>1. /\ issued' = issued + 1 /\ locals.otp = issued + 1 /\ locals.left <= CodeLife
        /\ issued + 1 \in CodeIds /\ guesses' = guesses /\ account' = account
    BY <1>1, <1>6 DEF Carries
  <2>2. guesses[issued + 1] = 0 /\ issued + 1 # account.otp
    BY <1>2, <2>1 DEF FreshCodes
  <2>3. \A u \in Visitors \ {v} : Carries(u)' => memo[u].otp <= issued /\ memo'[u].otp = memo[u].otp
                                                 /\ memo[u].otp \in Nat
    BY <1>2, <1>5
  <2> QED
    BY <1>1, <1>2, <2>1, <2>2, <2>3
<1>7. ASSUME NEW u \in Visitors, NEW w \in Visitors, Carries(u)', Carries(w)',
             memo'[u].otp = memo'[w].otp
      PROVE  u = w
  <2>1. CASE u # v /\ w # v
    BY <1>5, <1>7, <2>1 DEF FreshCodes
  <2>2. CASE u = v \/ w = v
    BY <1>6, <1>7, <2>2
  <2> QED
    BY <2>1, <2>2
<1>8. ASSUME NEW u \in Visitors, Carries(u)'
      PROVE  /\ guesses'[memo'[u].otp] = 0 /\ memo'[u].otp # account'.otp
             /\ memo'[u].left <= CodeLife
  BY <1>5, <1>6, <1>8
<1> QED
  BY <1>4, <1>7, <1>8 DEF FreshCodes, Carries

\* A step that makes no code and puts none into the row.
LEMMA FreshKeepsOn ==
    ASSUME RegInv, FreshCodes, NEW v \in Visitors, NEW label, NEW locals,
           Then(v, label, locals), issued' = issued, guesses' = guesses,
           label \notin {"register", "recode"}, account' = account
    PROVE  FreshCodes'
<1>1. issued \in Nat
  BY InvGives DEF Holds
<1> QED
  BY <1>1, FreshKeeps DEF FreshCodes

LEMMA FreshNext ==
    ASSUME RegInv, [RegistrationNext]_registrationVars, NEW e, plan.addresses = {e}, StaysPut(e),
           FreshCodes
    PROVE  FreshCodes'
<1>0. /\ account \in [email : Addresses \cup {Nobody}, verified : BOOLEAN,
                      otp : 0..MaxCodes, left : Nat]
      /\ memo \in [Visitors -> Memo] /\ issued \in Nat /\ CodeLife \in Nat
      /\ guesses \in [CodeIds -> Nat] /\ DOMAIN doing = Visitors
      /\ \A v \in Visitors : Carries(v) => memo[v].otp \in CodeIds
      /\ \A v \in Visitors : memo[v].left \in Nat
      /\ CodeIds \subseteq Nat \ {0}
  BY TypesSplit, RegistrationConstants
     DEF RegInv, RegTypeOK, TablesOK, CodesMade, Knows, Carries, CodeIds, Memo
<1>1. CASE UNCHANGED registrationVars
  BY <1>1 DEF registrationVars, FreshCodes, Carries
<1>2. ASSUME NEW v \in Visitors, NEW a \in Addresses, Register(v, a) PROVE FreshCodes'
  <2>1. /\ issued' = issued + 1 /\ NewCode(a).otp = issued + 1 /\ NewCode(a).left = CodeLife
        /\ issued + 1 \in CodeIds /\ account' = account /\ guesses' = guesses
        /\ Then(v, "register", NewCode(a))
    BY <1>2, CodeIsNew DEF Register, NewCode
  <2> QED
    BY <1>0, <2>1, FreshKeeps DEF FreshCodes
<1>3. ASSUME NEW v \in Visitors, NEW a \in Addresses, BeginResend(v, a) PROVE FreshCodes'
  BY <1>3, FreshKeepsOn DEF BeginResend
<1>4. ASSUME NEW v \in Visitors, NEW a \in Addresses, BeginChange(v, a) PROVE FreshCodes'
  BY <1>4 DEF BeginChange, Arrives, StaysPut
<1>5. ASSUME NEW v \in Visitors, NEW a \in Addresses, NEW given \in CodeIds \cup {0},
             BeginVerify(v, a, given)
      PROVE  FreshCodes'
  <2> DEFINE m == [NoMemo EXCEPT !.email = a, !.given = given]
  <2>1. Then(v, "verify", m) /\ UNCHANGED <<account, issued, guesses>>
    BY <1>5 DEF BeginVerify
  <2> HIDE DEF m
  <2> QED
    BY <2>1, FreshKeepsOn
<1>6. ASSUME NEW v \in Visitors, RegisterCommit(v) PROVE FreshCodes'
  <2>1. /\ Replies(v) /\ UNCHANGED <<issued, guesses>> /\ Carries(v)
        /\ \/ account' = account
           \/ account'.otp = memo[v].otp /\ account'.left = memo[v].left
    BY <1>6 DEF RegisterCommit, Carries
  <2>2. memo[v].otp # 0 /\ memo[v].left <= CodeLife
    BY <1>0, <2>1 DEF FreshCodes
  <2> QED
    BY <1>0, <2>1, <2>2, FreshKeeps DEF FreshCodes, Replies
<1>7. ASSUME NEW v \in Visitors, VerifyRead(v) PROVE FreshCodes'
  <2>1. PICK label, locals : Then(v, label, locals) /\ label \in {"nothing", "activate", "miss"}
    BY <1>7 DEF VerifyRead, Replies
  <2>2. /\ UNCHANGED <<account, issued>>
        /\ \/ guesses' = guesses
           \/ /\ account.otp # 0
              /\ guesses' = [guesses EXCEPT ![account.otp] = @ + 1]
    BY <1>7 DEF VerifyRead
  <2>3. account.otp # 0 => account.otp \in CodeIds
    BY <1>0, RegistrationConstants DEF CodeIds
  <2> QED
    BY <1>0, <2>1, <2>2, <2>3, FreshKeeps DEF FreshCodes
<1>8. ASSUME NEW v \in Visitors, Activate(v) \/ Spoil(v) PROVE FreshCodes'
  <2>1. /\ \/ account'.otp = account.otp /\ account'.left = account.left
           \/ account'.otp = 0 /\ account'.left = 0
        /\ UNCHANGED <<issued, guesses>>
    BY <1>0, <1>8 DEF Activate, Spoil
  <2>2. Then(v, "clear", memo[v]) \/ Then(v, "forget", memo[v])
    BY <1>8 DEF Activate, Spoil
  <2> QED
    BY <1>0, <2>1, <2>2, FreshKeeps DEF FreshCodes
<1>9. ASSUME NEW v \in Visitors, ClearCounts(v) \/ MissWindow(v) \/ ForgetMisses(v)
      PROVE  FreshCodes'
  BY <1>9, FreshKeepsOn DEF ClearCounts, MissWindow, ForgetMisses, Replies
<1>10. ASSUME NEW v \in Visitors, Miss(v) PROVE FreshCodes'
  BY <1>10, FreshKeepsOn DEF Miss, Replies
<1>11. ASSUME NEW v \in Visitors, ResendRead(v) PROVE FreshCodes'
  <2>1. CASE Replies(v) /\ UNCHANGED issued
    BY <1>11, <2>1, FreshKeepsOn DEF ResendRead, Replies
  <2>2. CASE MakeCode /\ Then(v, "recode", NewCode(memo[v].email))
    <3>1. memo[v].email \in Addresses
      BY <1>11 DEF ResendRead, RegInv, CodesMade, Knows
    <3>2. /\ issued' = issued + 1 /\ NewCode(memo[v].email).otp = issued + 1
          /\ NewCode(memo[v].email).left = CodeLife /\ issued + 1 \in CodeIds
          /\ account' = account /\ guesses' = guesses
      BY <1>11, <2>2, <3>1, CodeIsNew DEF ResendRead, NewCode
    <3> QED
      BY <1>0, <2>2, <3>2, FreshKeeps DEF FreshCodes
  <2> QED
    BY <1>11, <2>1, <2>2 DEF ResendRead
<1>12. ASSUME NEW v \in Visitors, Recode(v) PROVE FreshCodes'
  <2>1. /\ Replies(v) /\ UNCHANGED <<issued, guesses>> /\ Carries(v)
        /\ account'.otp = memo[v].otp /\ account'.left = memo[v].left
    BY <1>0, <1>12 DEF Recode, Carries
  <2>2. memo[v].otp # 0 /\ memo[v].left <= CodeLife
    BY <1>0, <2>1 DEF FreshCodes
  <2> QED
    BY <1>0, <2>1, <2>2, FreshKeeps DEF FreshCodes, Replies
<1>13. ASSUME NEW v \in Visitors, ChangeCommit(v) PROVE FreshCodes'
  BY <1>13 DEF ChangeCommit, StaysPut
<1>14. CASE RegistrationTick
  <2>1. /\ account'.otp = account.otp /\ account'.left <= account.left
        /\ account'.left \in Nat /\ UNCHANGED <<doing, guesses, issued>>
    <3>1. /\ account' = [account EXCEPT !.left = Less(account.left)]
          /\ UNCHANGED <<doing, guesses, issued>>
      BY <1>14 DEF RegistrationTick
    <3>2. account.left \in Nat /\ Less(account.left) \in Nat /\ Less(account.left) <= account.left
      BY <1>0 DEF Less
    <3> QED
      BY <1>0, <3>1, <3>2
  <2>2. \A v \in Visitors : memo'[v].otp = memo[v].otp /\ memo'[v].left <= memo[v].left
                            /\ memo'[v].left \in Nat
    <3> SUFFICES ASSUME NEW v \in Visitors
                 PROVE  memo'[v].otp = memo[v].otp /\ memo'[v].left <= memo[v].left
                        /\ memo'[v].left \in Nat
      OBVIOUS
    <3>1. memo'[v] = [memo[v] EXCEPT !.left = Less(@)] /\ memo[v] \in Memo
      BY <1>0, <1>14 DEF RegistrationTick
    <3> QED
      BY <3>1 DEF Memo, Less
  <2>3. /\ account'.left <= CodeLife
        /\ \A v \in Visitors : memo[v].left <= CodeLife => memo'[v].left <= CodeLife
    BY <1>0, <2>1, <2>2 DEF FreshCodes
  <2>4. account'.left > 0 => account'.otp # 0
    BY <1>0, <2>1 DEF FreshCodes
  <2>5. \A v \in Visitors : Carries(v)' <=> Carries(v)
    BY <2>1 DEF Carries
  <2> QED
    BY <2>1, <2>2, <2>3, <2>4, <2>5 DEF FreshCodes
<1> QED
  BY <1>1, <1>2, <1>3, <1>4, <1>5, <1>6, <1>7, <1>8, <1>9, <1>10, <1>11, <1>12, <1>13, <1>14
     DEF RegistrationNext
-----------------------------------------------------------------------------
\* What a step does to those who guess.

LEMMA GuessersFinite == RegInv => IsFiniteSet(Guessing) /\ Guessers \in Nat
<1> SUFFICES ASSUME RegInv PROVE IsFiniteSet(Guessing) /\ Guessers \in Nat
  OBVIOUS
<1>1. Guessing \in SUBSET Visitors
  BY DEF Guessing
<1>2. IsFiniteSet(Guessing)
  BY <1>1, RegistrationAssumption, FS_Subset
<1> QED
  BY <1>2, FS_CardinalityType DEF Guessers

\* The requests to which Others refers are those in flight.
LEMMA OthersCount ==
    ASSUME RegInv
    PROVE  /\ IsFiniteSet(plan.visitors) /\ plan.visitors \subseteq Visitors
           /\ Cardinality(plan.visitors) \in Nat
<1>1. plan.visitors \subseteq Visitors
  BY TypesSplit, RegistrationConstants DEF RegInv
<1>2. IsFiniteSet(plan.visitors)
  BY <1>1, RegistrationAssumption, FS_Subset
<1> QED
  BY <1>1, <1>2, FS_CardinalityType

\* While one of them is at something else, the others are all who may be guessing.
LEMMA OthersGuess ==
    ASSUME RegInv, InFlight, NEW v \in Visitors, doing[v] \notin {"nothing", "verify"}
    PROVE  Guessers <= Others
<1>1. Guessing \subseteq plan.visitors \ {v} /\ v \in plan.visitors
  BY DEF InFlight, Guessing
<1>2. IsFiniteSet(plan.visitors) /\ Cardinality(plan.visitors) \in Nat
  BY OthersCount
<1>3. /\ IsFiniteSet(plan.visitors \ {v})
      /\ Cardinality(plan.visitors \ {v}) = Cardinality(plan.visitors) - 1
  BY <1>1, <1>2, FS_RemoveElement
<1>4. Cardinality(Guessing) <= Cardinality(plan.visitors \ {v})
  BY <1>1, <1>3, FS_Subset
<1> QED
  BY <1>3, <1>4 DEF Guessers, Others

LEMMA InFlightNext ==
    ASSUME RegInv, InFlight, [RegistrationNext]_registrationVars
    PROVE  InFlight' /\ UNCHANGED plan
<1>0. plan' = plan
  BY DEF RegistrationNext, registrationVars, Register, RegisterCommit, BeginVerify, VerifyRead,
         Activate, ClearCounts, Miss, MissWindow, Spoil, ForgetMisses, BeginResend,
         ResendRead, Recode, BeginChange, ChangeCommit, RegistrationTick
<1>1. ASSUME NEW v \in Visitors, NEW label, NEW locals, Then(v, label, locals), v \in plan.visitors
      PROVE  InFlight'
  BY <1>0, <1>1, ThenSets DEF InFlight
<1>2. CASE UNCHANGED registrationVars \/ RegistrationTick
  BY <1>0, <1>2 DEF InFlight, registrationVars, RegistrationTick
<1>3. ASSUME NEW v \in Visitors, NEW e \in Addresses,
             \/ Register(v, e) \/ BeginResend(v, e) \/ BeginChange(v, e)
             \/ \E given \in CodeIds \cup {0} : BeginVerify(v, e, given)
      PROVE  InFlight'
  <2>1. v \in plan.visitors
    BY <1>3 DEF Register, BeginResend, BeginChange, BeginVerify, Arrives
  <2>2. \E label, locals : Then(v, label, locals)
    BY <1>3 DEF Register, BeginResend, BeginChange, BeginVerify
  <2> QED
    BY <1>1, <2>1, <2>2
<1>4. ASSUME NEW v \in Visitors,
             \/ RegisterCommit(v) \/ VerifyRead(v) \/ Activate(v) \/ ClearCounts(v)
             \/ Miss(v) \/ MissWindow(v) \/ Spoil(v) \/ ForgetMisses(v)
             \/ ResendRead(v) \/ Recode(v) \/ ChangeCommit(v)
      PROVE  InFlight'
  <2>1. v \in plan.visitors
    BY <1>4 DEF InFlight, RegisterCommit, VerifyRead, Activate, ClearCounts, Miss, MissWindow,
                Spoil, ForgetMisses, ResendRead, Recode, ChangeCommit
  <2>2. \E label, locals : Then(v, label, locals)
    BY <1>4 DEF RegisterCommit, VerifyRead, Activate, ClearCounts, Miss, MissWindow,
                Spoil, ForgetMisses, ResendRead, Recode, ChangeCommit, Replies
  <2> QED
    BY <1>1, <2>1, <2>2
<1> QED
  BY <1>0, <1>2, <1>3, <1>4 DEF RegistrationNext

LEMMA GuesserComes ==
    ASSUME RegInv, NEW v \in Visitors, doing[v] # "verify", NEW locals, Then(v, "verify", locals)
    PROVE  Guessers' = Guessers + 1
<1>1. doing'[v] = "verify" /\ \A u \in Visitors \ {v} : doing'[u] = doing[u]
  BY ThenSets
<1>2. Guessing' = Guessing \cup {v} /\ v \notin Guessing
  BY <1>1 DEF Guessing
<1>3. IsFiniteSet(Guessing)
  BY GuessersFinite
<1>4. Cardinality(Guessing \cup {v}) = Cardinality(Guessing) + 1
  BY <1>2, <1>3, FS_AddElement
<1>5. Guessers' = Cardinality(Guessing')
  BY DEF Guessers
<1> QED
  BY <1>2, <1>4, <1>5 DEF Guessers

LEMMA GuesserGoes ==
    ASSUME RegInv, NEW v \in Visitors, doing[v] = "verify", NEW label, label # "verify",
           NEW locals, Then(v, label, locals)
    PROVE  Guessers > 0 /\ Guessers' = Guessers - 1
<1>1. doing'[v] = label /\ \A u \in Visitors \ {v} : doing'[u] = doing[u]
  BY ThenSets
<1>2. Guessing' = Guessing \ {v} /\ v \in Guessing
  BY <1>1 DEF Guessing
<1>3. IsFiniteSet(Guessing) /\ Guessers \in Nat
  BY GuessersFinite
<1>4. Cardinality(Guessing \ {v}) = Cardinality(Guessing) - 1 /\ Cardinality(Guessing) # 0
  BY <1>2, <1>3, FS_RemoveElement, FS_EmptySet
<1>5. Guessers' = Cardinality(Guessing')
  BY DEF Guessers
<1> QED
  BY <1>2, <1>3, <1>4, <1>5 DEF Guessers

LEMMA GuessersStay ==
    ASSUME RegInv, NEW v \in Visitors, doing[v] # "verify", NEW label, label # "verify",
           NEW locals, Then(v, label, locals)
    PROVE  Guessers' = Guessers
<1>1. doing'[v] = label /\ \A u \in Visitors \ {v} : doing'[u] = doing[u]
  BY ThenSets
<1>2. Guessing' = Guessing
  BY <1>1 DEF Guessing
<1>3. Guessers' = Cardinality(Guessing')
  BY DEF Guessers
<1> QED
  BY <1>2, <1>3 DEF Guessers

-----------------------------------------------------------------------------
\* The ways in which a step may matter to the counts of address e.

Arrival(e) ==
    /\ Guessers' = Guessers + 1 /\ tries[e] < TryLimit
    /\ tries'[e] = tries[e] + 1
    /\ triesLeft'[e] = (IF tries[e] = 0 THEN CodeLife ELSE triesLeft[e])
    /\ UNCHANGED <<account, guesses>>
Reading(e) ==
    /\ Guessers > 0 /\ Guessers' = Guessers - 1
    /\ tries'[e] = tries[e] /\ triesLeft'[e] = triesLeft[e] /\ UNCHANGED account
    /\ \/ guesses' = guesses
       \/ /\ ~account.verified /\ account.left > 0
          /\ guesses' = [guesses EXCEPT ![account.otp] = @ + 1]
NewTick(e) ==
    /\ Guessers' = Guessers
    /\ triesLeft'[e] = Less(triesLeft[e])
    /\ tries'[e] = (IF triesLeft[e] = 1 THEN 0 ELSE tries[e])
    /\ account'.otp = account.otp /\ account'.left = Less(account.left)
    /\ account'.verified = account.verified /\ UNCHANGED guesses
Otherwise(e) ==
    /\ UNCHANGED guesses
    /\ \/ account'.verified
       \/ /\ Guessers' = Guessers /\ tries'[e] = tries[e] /\ triesLeft'[e] = triesLeft[e]
          /\ \/ UNCHANGED account
             \/ account'.left = 0
             \/ guesses[account'.otp] = 0 /\ Guessers <= Others

Effect(e) == Arrival(e) \/ Reading(e) \/ NewTick(e) \/ Otherwise(e)

\* A request that goes on with what it knows, and counts of which none is a guess.
LEMMA QuietSteps ==
    ASSUME RegInv, NEW e, NEW v \in Visitors, doing[v] # "verify", NEW label, label # "verify",
           NEW locals, Then(v, label, locals), UNCHANGED <<guesses, tries, triesLeft>>,
           \/ UNCHANGED account
           \/ account'.left = 0
           \/ guesses[account'.otp] = 0 /\ Guessers <= Others
    PROVE  Effect(e)
<1>1. Guessers' = Guessers
  BY GuessersStay
<1> QED
  BY <1>1 DEF Effect, Otherwise

LEMMA EffectOfStep ==
    ASSUME RegInv, [RegistrationNext]_registrationVars, NEW e, plan.addresses = {e}, InFlight,
           StaysPut(e), FreshCodes
    PROVE  Effect(e)
<1>0. /\ account \in [email : Addresses \cup {Nobody}, verified : BOOLEAN,
                      otp : 0..MaxCodes, left : Nat]
      /\ tries \in [Addresses -> 0..TryLimit] /\ triesLeft \in [Addresses -> 0..CodeLife]
      /\ e \in Addresses
      /\ \A v \in Visitors, a \in Addresses : Arrives(v, a) => a = e /\ doing[v] = "nothing"
  <2>1. plan \in Plans /\ plan.addresses \subseteq Addresses
    BY TypesSplit, PlanAssumption DEF RegInv, Plan
  <2> QED
    BY <2>1, TypesSplit DEF RegInv, TablesOK, LimitsOK, Arrives
<1>1. CASE UNCHANGED registrationVars
  <2>1. Guessers' = Guessers
    BY <1>1 DEF registrationVars, Guessers, Guessing
  <2> QED
    BY <1>1, <2>1 DEF registrationVars, limits, Effect, Otherwise
<1>2. ASSUME NEW v \in Visitors, NEW a \in Addresses,
             Register(v, a) \/ BeginResend(v, a) \/ BeginChange(v, a)
      PROVE  Effect(e)
  <2>1. PICK label, locals : Then(v, label, locals) /\ label # "verify"
    BY <1>2 DEF Register, BeginResend, BeginChange
  <2>2. UNCHANGED <<account, guesses, tries, triesLeft>> /\ doing[v] = "nothing"
    BY <1>0, <1>2 DEF Register, BeginResend, BeginChange, limits
  <2> QED
    BY <2>1, <2>2, QuietSteps
<1>3. ASSUME NEW v \in Visitors, NEW a \in Addresses, NEW given \in CodeIds \cup {0},
             BeginVerify(v, a, given)
      PROVE  Effect(e)
  <2> DEFINE m == [NoMemo EXCEPT !.email = a, !.given = given]
  <2>1. Then(v, "verify", m) /\ a = e /\ doing[v] # "verify"
    BY <1>0, <1>3 DEF BeginVerify
  <2> HIDE DEF m
  <2>2. Guessers' = Guessers + 1
    BY <2>1, GuesserComes
  <2>3. /\ tries[e] < TryLimit /\ tries'[e] = tries[e] + 1
        /\ triesLeft'[e] = (IF tries[e] = 0 THEN CodeLife ELSE triesLeft[e])
        /\ UNCHANGED <<account, guesses>>
    BY <1>0, <1>3, <2>1 DEF BeginVerify
  <2> QED
    BY <2>2, <2>3 DEF Effect, Arrival
<1>4. ASSUME NEW v \in Visitors, VerifyRead(v) PROVE Effect(e)
  <2>1. PICK label, locals : Then(v, label, locals) /\ label \in {"nothing", "activate", "miss"}
    BY <1>4 DEF VerifyRead, Replies
  <2>2. Guessers > 0 /\ Guessers' = Guessers - 1
    BY <1>4, <2>1, GuesserGoes DEF VerifyRead
  <2>3. /\ UNCHANGED <<account, tries, triesLeft>>
        /\ \/ guesses' = guesses
           \/ /\ ~account.verified /\ account.left > 0
              /\ guesses' = [guesses EXCEPT ![account.otp] = @ + 1]
    BY <1>4 DEF VerifyRead, Unverified, limits
  <2> QED
    BY <2>2, <2>3 DEF Effect, Reading
<1>5. ASSUME NEW v \in Visitors, RegisterCommit(v) \/ Recode(v) PROVE Effect(e)
  <2>1. /\ Then(v, "nothing", NoMemo) /\ doing[v] # "verify" /\ Carries(v)
        /\ UNCHANGED <<guesses, tries, triesLeft>>
        /\ account' = account \/ account'.otp = memo[v].otp
    <3>1. CASE RegisterCommit(v)
      BY <3>1 DEF RegisterCommit, Replies, limits, Carries
    <3>2. CASE Recode(v)
      BY <1>0, <3>2 DEF Recode, Replies, limits, Carries
    <3> QED
      BY <1>5, <3>1, <3>2
  <2>2. guesses[memo[v].otp] = 0 /\ Guessers <= Others
    BY <2>1, OthersGuess DEF FreshCodes, Carries
  <2> QED
    BY <2>1, <2>2, QuietSteps
<1>6. ASSUME NEW v \in Visitors, Activate(v) PROVE Effect(e)
  <2>1. account'.verified /\ UNCHANGED guesses
    BY <1>0, <1>6 DEF Activate
  <2> QED
    BY <2>1 DEF Effect, Otherwise
<1>7. ASSUME NEW v \in Visitors, ClearCounts(v) PROVE Effect(e)
  <2>1. account'.verified /\ UNCHANGED guesses
    BY <1>7 DEF ClearCounts, StaysPut
  <2> QED
    BY <2>1 DEF Effect, Otherwise
<1>8. ASSUME NEW v \in Visitors,
             Miss(v) \/ MissWindow(v) \/ Spoil(v) \/ ForgetMisses(v) \/ ResendRead(v)
      PROVE  Effect(e)
  <2>1. PICK label, locals : Then(v, label, locals) /\ label # "verify"
    BY <1>8 DEF Miss, MissWindow, Spoil, ForgetMisses, ResendRead, Replies
  <2>2. /\ UNCHANGED <<guesses, tries, triesLeft>> /\ doing[v] # "verify"
        /\ account' = account \/ account'.left = 0
    BY <1>0, <1>8 DEF Miss, MissWindow, Spoil, ForgetMisses, ResendRead, limits
  <2> QED
    BY <2>1, <2>2, QuietSteps
<1>9. ASSUME NEW v \in Visitors, ChangeCommit(v) PROVE Effect(e)
  BY <1>9 DEF ChangeCommit, StaysPut
<1>10. CASE RegistrationTick
  <2>1. Guessing' = Guessing
    BY <1>10 DEF RegistrationTick, Guessing
  <2>2. Guessers' = Guessers
    BY <2>1 DEF Guessers
  <2>3. triesLeft'[e] = Less(triesLeft[e]) /\ tries'[e] = (IF triesLeft[e] = 1 THEN 0 ELSE tries[e])
    BY <1>0, <1>10 DEF RegistrationTick, Elapse, Drop
  <2>4. account' = [account EXCEPT !.left = Less(account.left)] /\ UNCHANGED guesses
    BY <1>10 DEF RegistrationTick
  <2>5. /\ account'.otp = account.otp /\ account'.left = Less(account.left)
        /\ account'.verified = account.verified
    BY <1>0, <2>4
  <2> QED
    BY <2>2, <2>3, <2>4, <2>5 DEF Effect, NewTick
<1> QED
  BY <1>1, <1>2, <1>3, <1>4, <1>5, <1>6, <1>7, <1>8, <1>9, <1>10 DEF RegistrationNext

-----------------------------------------------------------------------------
LEMMA FewGuessesNext ==
    ASSUME RegInv, NEW e \in Addresses, GuessInv(e), Effect(e), UNCHANGED plan
    PROVE  FewGuesses'
<1>0. /\ guesses \in [CodeIds -> Nat] /\ account.otp \in 0..MaxCodes /\ account.left \in Nat
      /\ tries[e] \in 0..TryLimit /\ triesLeft[e] \in 0..CodeLife /\ Guessers \in Nat
      /\ TryLimit \in Nat \ {0, 1} /\ CodeLife \in Nat \ {0} /\ MaxCodes \in Nat
      /\ Others \in Int /\ Others' = Others
  BY TypesSplit, GuessersFinite, OthersCount, RegistrationConstants
     DEF RegInv, TablesOK, LimitsOK, Others
<1>1. CASE guesses' = guesses
  BY <1>0, <1>1 DEF GuessInv, FewGuesses
<1>2. CASE /\ Guessers > 0 /\ ~account.verified /\ account.left > 0
           /\ guesses' = [guesses EXCEPT ![account.otp] = @ + 1]
  <2>1. account.otp \in CodeIds
    BY <1>0, <1>2 DEF GuessInv, FreshCodes, CodeIds
  <2>2. WindowOK(e) /\ CodeOK(e)
    BY <1>2 DEF GuessInv
  <2>3. PICK g \in Nat : g = guesses[account.otp]
    BY <1>0, <2>1
  <2>4. g + Guessers < 2 * TryLimit + Others
    BY <1>0, <1>2, <2>2, <2>3 DEF CodeOK, WindowOK
  <2>5. g + 1 < 2 * TryLimit + Others
    BY <1>0, <1>2, <2>4
  <2> QED
    BY <1>0, <1>2, <2>1, <2>3, <2>5 DEF GuessInv, FewGuesses
<1> QED
  BY <1>1, <1>2 DEF Effect, Arrival, Reading, NewTick, Otherwise

LEMMA CountsNext ==
    ASSUME RegInv, RegInv', NEW e \in Addresses, GuessInv(e), Effect(e), FreshCodes',
           UNCHANGED plan, ~account.verified, ~account'.verified
    PROVE  WindowOK(e)' /\ CodeOK(e)'
<1>0. /\ guesses \in [CodeIds -> Nat] /\ account.otp \in Nat /\ account.left \in Nat
      /\ tries[e] \in 0..TryLimit /\ triesLeft[e] \in 0..CodeLife /\ Guessers \in Nat
      /\ TryLimit \in Nat \ {0, 1} /\ CodeLife \in Nat \ {0} /\ MaxCodes \in Nat
      /\ account.otp \in 0..MaxCodes /\ WindowOK(e) /\ CodeOK(e) /\ account.left <= CodeLife
      /\ account.left > 0 => account.otp \in CodeIds
      /\ Others \in Int /\ Others' = Others
  <2>1. RegTypeOK /\ WindowOK(e) /\ CodeOK(e) /\ FreshCodes
    BY DEF RegInv, GuessInv
  <2>2. /\ guesses \in [CodeIds -> Nat] /\ account.otp \in 0..MaxCodes /\ account.left \in Nat
        /\ tries[e] \in 0..TryLimit /\ triesLeft[e] \in 0..CodeLife
    BY <2>1, TypesSplit DEF TablesOK, LimitsOK
  <2>3. account.left <= CodeLife /\ (account.left > 0 => account.otp # 0)
    BY <2>1 DEF FreshCodes
  <2>4. Others \in Int /\ Others' = Others
    BY OthersCount DEF Others
  <2> QED
    BY <2>1, <2>2, <2>3, <2>4, GuessersFinite, RegistrationConstants DEF CodeIds
<1>p. /\ account'.left \in Nat /\ account'.otp \in 0..MaxCodes /\ account'.left <= CodeLife
      /\ account'.left > 0 => account'.otp \in CodeIds
  <2>1. account' \in [email : Addresses \cup {Nobody}, verified : BOOLEAN,
                      otp : 0..MaxCodes, left : Nat]
    BY DEF RegInv, RegTypeOK, RegistrationTypeOK
  <2>2. account'.left <= CodeLife /\ (account'.left > 0 => account'.otp # 0)
    BY DEF FreshCodes
  <2> QED
    BY <1>0, <2>1, <2>2 DEF CodeIds
<1>1. CASE Arrival(e)
  <2>1. /\ Guessers' = Guessers + 1 /\ tries'[e] = tries[e] + 1 /\ account' = account
        /\ guesses' = guesses /\ tries[e] < TryLimit
        /\ triesLeft'[e] = (IF tries[e] = 0 THEN CodeLife ELSE triesLeft[e])
    BY <1>1 DEF Arrival
  <2>2. WindowOK(e)'
    BY <1>0, <2>1 DEF WindowOK
  <2>3. ASSUME account.left > 0 PROVE CodeOK(e)'
    <3>1. PICK g \in Nat : g = guesses[account.otp]
      BY <1>0, <2>3
    <3>2. guesses'[account'.otp] = g
      BY <2>1, <3>1
    <3>3. CASE tries[e] = 0
      <4>1. g + Guessers < TryLimit + Others /\ triesLeft'[e] = CodeLife
        BY <1>0, <2>1, <2>3, <3>1, <3>3 DEF WindowOK, CodeOK
      <4> QED
        BY <1>0, <2>1, <3>2, <3>3, <4>1 DEF CodeOK
    <3>4. CASE tries[e] # 0
      BY <1>0, <2>1, <2>3, <3>1, <3>2, <3>4 DEF CodeOK
    <3> QED
      BY <3>3, <3>4
  <2> QED
    BY <2>1, <2>2, <2>3 DEF CodeOK
<1>2. CASE Reading(e)
  <2>1. /\ Guessers > 0 /\ Guessers' = Guessers - 1 /\ account' = account
        /\ tries'[e] = tries[e] /\ triesLeft'[e] = triesLeft[e]
        /\ \/ guesses' = guesses
           \/ account.left > 0 /\ guesses' = [guesses EXCEPT ![account.otp] = @ + 1]
    BY <1>2 DEF Reading
  <2>2. WindowOK(e)'
    BY <1>0, <2>1 DEF WindowOK
  <2>3. ASSUME account.left > 0 PROVE CodeOK(e)'
    <3>1. PICK g \in Nat : g = guesses[account.otp]
      BY <1>0, <2>3
    <3>2. PICK n \in {g, g + 1} : guesses'[account'.otp] = n
      BY <1>0, <2>1, <2>3, <3>1
    <3> QED
      BY <1>0, <2>1, <2>3, <3>1, <3>2 DEF CodeOK
  <2> QED
    BY <2>1, <2>2, <2>3 DEF CodeOK
<1>3. CASE NewTick(e)
  <2>1. /\ Guessers' = Guessers /\ guesses' = guesses /\ account'.otp = account.otp
        /\ triesLeft'[e] = (IF triesLeft[e] = 0 THEN 0 ELSE triesLeft[e] - 1)
        /\ account'.left = (IF account.left = 0 THEN 0 ELSE account.left - 1)
        /\ tries'[e] = (IF triesLeft[e] = 1 THEN 0 ELSE tries[e])
    BY <1>3 DEF NewTick, Less
  <2>2. WindowOK(e)'
    BY <1>0, <2>1 DEF WindowOK
  <2>3. ASSUME account'.left > 0 PROVE CodeOK(e)'
    <3>1. account.left > 1 /\ account'.left = account.left - 1
      BY <1>0, <2>1, <2>3
    <3>2. PICK g \in Nat : g = guesses[account.otp]
      BY <1>0, <3>1
    <3>3. guesses'[account'.otp] = g
      BY <2>1, <3>2
    <3>4. /\ tries[e] = 0 => g + Guessers < TryLimit + Others
          /\ 0 < triesLeft[e] /\ triesLeft[e] < account.left
                => g + Guessers < tries[e] + Others
          /\ triesLeft[e] >= account.left => g + Guessers < TryLimit + tries[e] + Others
      BY <1>0, <2>1, <3>1, <3>2 DEF CodeOK
    <3> QED
      BY <1>0, <2>1, <3>1, <3>3, <3>4 DEF CodeOK, WindowOK
  <2> QED
    BY <2>2, <2>3 DEF CodeOK
<1>4. CASE Otherwise(e)
  <2>1. /\ Guessers' = Guessers /\ tries'[e] = tries[e] /\ triesLeft'[e] = triesLeft[e]
        /\ guesses' = guesses
        /\ \/ account' = account
           \/ account'.left = 0
           \/ guesses[account'.otp] = 0 /\ Guessers <= Others
    BY <1>4 DEF Otherwise
  <2>2. WindowOK(e)'
    BY <1>0, <2>1 DEF WindowOK
  <2>3. CASE account' = account
    BY <1>0, <2>1, <2>2, <2>3 DEF CodeOK
  <2>4. CASE account'.left = 0
    BY <2>2, <2>4 DEF CodeOK
  <2>5. CASE guesses[account'.otp] = 0 /\ Guessers <= Others
    BY <1>0, <1>p, <2>1, <2>2, <2>5 DEF CodeOK, WindowOK
  <2> QED
    BY <2>1, <2>2, <2>3, <2>4, <2>5
<1> QED
  BY <1>1, <1>2, <1>3, <1>4 DEF Effect

-----------------------------------------------------------------------------
LEMMA GuessesStart == ASSUME RegistrationInit, NEW e \in Addresses PROVE GuessInv(e)
<1>1. /\ account = NoAccount /\ issued = 0 /\ guesses = [c \in CodeIds |-> 0]
      /\ tries[e] = 0 /\ triesLeft[e] = 0 /\ \A v \in Visitors : doing[v] = "nothing"
  BY DEF RegistrationInit
<1>2. Guessing = {}
  BY <1>1 DEF Guessing
<1>3. Guessers = 0
  BY <1>2, FS_EmptySet DEF Guessers
<1>4. StaysPut(e)
  BY <1>1 DEF StaysPut, NoAccount
<1>5. FreshCodes
  BY <1>1, RegistrationConstants DEF FreshCodes, Carries, NoAccount, CodeIds
<1>6. FewGuesses
  BY <1>1, OthersCount, RegistrationStarts, RegistrationConstants DEF FewGuesses, Others
<1>7. WindowOK(e) /\ CodeOK(e) /\ InFlight
  BY <1>1, <1>3, RegistrationConstants DEF WindowOK, CodeOK, NoAccount, InFlight
<1> QED
  BY <1>4, <1>5, <1>6, <1>7 DEF GuessInv

LEMMA GuessesNext ==
    ASSUME RegInv, RegInv', [RegistrationNext]_registrationVars, NEW e, plan.addresses = {e},
           GuessInv(e)
    PROVE  GuessInv(e)'
<1>1. e \in Addresses
  BY TypesSplit, PlanAssumption DEF RegInv, Plan
<1>2. /\ StaysPut(e)' /\ FreshCodes' /\ (account.verified => account'.verified)
      /\ InFlight' /\ UNCHANGED plan
  BY StaysPutNext, FreshNext, InFlightNext DEF GuessInv
<1>3. Effect(e)
  BY EffectOfStep DEF GuessInv
<1>4. FewGuesses'
  BY <1>1, <1>2, <1>3, FewGuessesNext
<1>5. ~account'.verified => WindowOK(e)' /\ CodeOK(e)'
  BY <1>1, <1>2, <1>3, CountsNext
<1> QED
  BY <1>2, <1>4, <1>5 DEF GuessInv

\* As long as the account keeps its one address, the wrong guesses at a code while it
\* is good are fewer than twice TryLimit plus one for each other request in flight,
\* for any number of requests and codes and any lives, and whatever time passes while
\* a request is under way: attempts are counted before the row is read, a code lives
\* no longer than a window of counts, so at most two windows see it, and what was
\* counted before the code was stored is still in flight.
THEOREM GuessesAreFew == BackgroundSpec => []GuessesBounded
<1> DEFINE Inv == RegInv /\ \A e \in Addresses : plan.addresses = {e} => GuessInv(e)
<1>1. BackgroundInit => Inv
  BY RegistrationStarts, GuessesStart DEF BackgroundInit
<1>2. Inv /\ [BackgroundNext]_backgroundVars => Inv'
  <2> SUFFICES ASSUME Inv, [BackgroundNext]_backgroundVars PROVE Inv'
    OBVIOUS
  <2>1. RegInv' /\ [RegistrationNext]_registrationVars
    BY RegistrationStep, RegistrationPart
  <2>2. plan' = plan
    BY <2>1 DEF RegistrationNext, registrationVars, Register, RegisterCommit, BeginVerify, VerifyRead,
               Activate, ClearCounts, Miss, MissWindow, Spoil, ForgetMisses, BeginResend,
               ResendRead, Recode, BeginChange, ChangeCommit, RegistrationTick
  <2>3. ASSUME NEW e \in Addresses, plan'.addresses = {e} PROVE GuessInv(e)'
    BY <2>1, <2>2, <2>3, GuessesNext
  <2> QED
    BY <2>1, <2>3
<1>3. Inv => GuessesBounded
  BY DEF GuessesBounded, GuessInv, FewGuesses, Others
<1> QED
  BY <1>1, <1>2, <1>3, PTL DEF BackgroundSpec
=============================================================================
