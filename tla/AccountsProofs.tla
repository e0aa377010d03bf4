--------------------------- MODULE AccountsProofs ---------------------------
(***************************************************************************)
(* What holds of Accounts for any number of accounts, requests and ticks.  *)
(* The inductive invariant says of a request what the row it holds is good *)
(* for once the table has moved on, and of an access token how the life it *)
(* has left and the time since the deactivation add up.                    *)
(***************************************************************************)
EXTENDS Accounts, TLAPS

\* A registration past its INSERT finds its row as it wrote it.
StoredAsAsked ==
    \A r \in Requests : At(r, "refresh") =>
        LET row == users[request[r].email] IN
        /\ row # None
        /\ row.hashed = hash_password(request[r].password)
        /\ row.role = request[r].role

\* A row that was read is still there, with its role.
RowsKnown ==
    \A r \in Requests : At(r, "use") /\ request[r].row # None =>
        /\ request[r].email \in Emails
        /\ users[request[r].email] # None
        /\ users[request[r].email].role = request[r].row.role

TokensKnown ==
    \A t \in tokens : users[t.sub] # None /\ users[t.sub].role = t.role

Inactive(row) == row # None /\ row.is_active = FALSE

\* A row read as active is at least as old as a deactivation that followed.
RowsFresh ==
    \A r \in Requests :
        /\ At(r, "use") /\ request[r].row # None
        /\ request[r].row.is_active = TRUE
        /\ Inactive(users[request[r].email])
        => inactiveFor[request[r].email] <= request[r].age

\* What is left of an access token and the time since the deactivation
\* together stay within the horizon.
TokensDie ==
    \A t \in tokens :
        t.type = "access" /\ t.left > 0 /\ Inactive(users[t.sub]) =>
            t.left + inactiveFor[t.sub] <= Horizon

IInv ==
    /\ TypeOK /\ StoredAsAsked /\ RegistrationStands
    /\ RowsKnown /\ TokensKnown /\ RowsFresh /\ TokensDie

-----------------------------------------------------------------------------

LEMMA NoneIsNothing == None \notin User /\ None \notin Register /\ None \notin Session
  BY NoneAssumption

LEMMA EmailsAreSpellings == Emails \subseteq Spellings
  BY EmailAssumption DEF Emails

LEMMA HorizonNat == Horizon \in Nat /\ AccessTTL <= Horizon /\ MaxDelay <= Horizon
  BY TimeAssumption DEF Horizon

\* The kind of call a step belongs to.
LEMMA KindOfCall ==
  ASSUME TypeOK, NEW r \in Requests, request[r] # None
  PROVE  /\ request[r].step \in {"lookup", "insert", "refresh"} => request[r] \in Register
         /\ request[r].step \in {"load", "use"} => request[r] \in Session
  BY DEF TypeOK, Register, Session

LEMMA InitIInv == Init => IInv
<1> SUFFICES ASSUME Init PROVE IInv
  OBVIOUS
<1>1. TypeOK
  BY HorizonNat DEF Init, TypeOK, Token
<1> QED
  BY <1>1 DEF Init, IInv, StoredAsAsked, RegistrationStands, RowsKnown, TokensKnown,
              RowsFresh, TokensDie, At

\* Rows are never taken back, and keep their password and their role.
RowsStay ==
    \A e \in Emails : users[e] # None =>
        /\ users'[e] # None
        /\ users'[e].hashed = users[e].hashed
        /\ users'[e].role = users[e].role

LEMMA NextRowsStay == TypeOK /\ [Next]_vars => RowsStay
<1> SUFFICES ASSUME TypeOK, [Next]_vars PROVE RowsStay
  OBVIOUS
<1>1. CASE UNCHANGED users
  BY <1>1 DEF RowsStay
<1>2. ASSUME NEW r \in Requests, Insert(r) PROVE RowsStay
  <2>1. request[r] \in Register
    BY <1>2, KindOfCall DEF Insert, At
  <2> QED
    BY <1>2, <2>1, NoneIsNothing DEF Insert, RowsStay, Unique, TypeOK, Register
<1>3. ASSUME NEW e \in Emails, NEW active \in BOOLEAN, SetActive(e, active) PROVE RowsStay
  <2>1. users[e] \in User
    BY <1>3 DEF SetActive, TypeOK
  <2>2. [users[e] EXCEPT !.is_active = active] \in User
    BY <2>1 DEF User
  <2> QED
    BY <1>3, <2>1, <2>2, NoneIsNothing DEF SetActive, RowsStay, TypeOK, User
<1> QED
  BY <1>1, <1>2, <1>3 DEF Next, vars, ReceiveRegister, ReceiveLogin, ReceiveRefresh, Begin,
     LookUp, Created, Load, Use, Fail, Restart, Tick

-----------------------------------------------------------------------------
(* Types.                                                                  *)

LEMMA BeginType ==
  ASSUME TypeOK, NEW r \in Requests, NEW op \in {"login", "refresh"},
         NEW e \in Spellings, NEW p \in Passwords \cup {None}, Begin(r, op, e, p)
  PROVE  TypeOK'
<1>1. [op |-> op, email |-> e, password |-> p, step |-> "load", row |-> None, age |-> 0]
          \in Session
  BY TimeAssumption DEF Session
<1> QED
  BY <1>1 DEF Begin, TypeOK

LEMMA AnswerType ==
  ASSUME TypeOK, NEW r \in Requests, Answer(r)
  PROVE  request' \in [Requests -> Register \cup Session \cup {None}]
  BY DEF TypeOK, Answer

LEMMA ProceedType ==
  ASSUME TypeOK, NEW r \in Requests, request[r] \in Register,
         NEW step \in {"lookup", "insert", "refresh"}, Proceed(r, step)
  PROVE  request' \in [Requests -> Register \cup Session \cup {None}]
<1>1. [request[r] EXCEPT !.step = step] \in Register
  BY DEF Register
<1> QED
  BY <1>1 DEF TypeOK, Proceed

LEMMA IssuedTokens ==
  ASSUME NEW e \in Emails, NEW row \in User, NEW t \in _issue_tokens(e, row)
  PROVE  /\ t \in Token
         /\ t.sub = e /\ t.role = row.role
         /\ t.type = "access" => t.left = AccessTTL
  BY TimeAssumption DEF _issue_tokens, Token, User, access_lifetime

\* The row in use is that of its e-mail, if there was one.
LEMMA RowInUse ==
  ASSUME TypeOK, RowsKnown, NEW r \in Requests, At(r, "use"), Granted(request[r])
  PROVE  request[r] \in Session /\ request[r].row \in User /\ request[r].email \in Emails
<1>1. request[r] \in Session
  BY KindOfCall DEF At
<1> QED
  BY <1>1 DEF RowsKnown, Session, Granted

Aged(t) == [t EXCEPT !.left = IF @ = 0 THEN 0 ELSE @ - 1]

LEMMA AgedToken ==
  ASSUME NEW t \in Token
  PROVE  /\ Aged(t) \in Token
         /\ Aged(t).sub = t.sub /\ Aged(t).role = t.role /\ Aged(t).type = t.type
         /\ Aged(t).left = IF t.left = 0 THEN 0 ELSE t.left - 1
<1>1. (IF t.left = 0 THEN 0 ELSE t.left - 1) \in 0..RefreshTTL
  BY TimeAssumption DEF Token
<1> QED
  BY <1>1 DEF Aged, Token

LEMMA OlderCall ==
  ASSUME TypeOK, Tick, NEW r \in Requests
  PROVE  /\ Older(request[r]) \in Register \cup Session \cup {None}
         /\ ~At(r, "use") => Older(request[r]) = request[r]
         /\ At(r, "use") =>
               /\ Older(request[r]) # None
               /\ Older(request[r]).step = "use"
               /\ Older(request[r]).row = request[r].row
               /\ Older(request[r]).email = request[r].email
               /\ Older(request[r]).age = request[r].age + 1
<1>1. CASE At(r, "use")
  <2>1. request[r] \in Session /\ request[r].age < MaxDelay
    BY <1>1, KindOfCall DEF At, Tick
  <2>2. request[r].op # "register" /\ request[r].age + 1 \in 0..MaxDelay
    BY <2>1, TimeAssumption DEF Session
  <2>3. Older(request[r]) = [request[r] EXCEPT !.age = @ + 1]
    BY <1>1, <2>2 DEF Older, At
  <2>4. [request[r] EXCEPT !.age = @ + 1] \in Session
    BY <2>1, <2>2 DEF Session
  <2> QED
    BY <1>1, <2>1, <2>3, <2>4, NoneIsNothing DEF At, Session
<1>2. CASE ~At(r, "use")
  BY <1>2 DEF Older, At, TypeOK
<1> QED
  BY <1>1, <1>2

LEMMA NextType == TypeOK /\ RowsKnown /\ [Next]_vars => TypeOK'
<1> SUFFICES ASSUME TypeOK, RowsKnown, [Next]_vars PROVE TypeOK'
  OBVIOUS
<1>1. ASSUME NEW r \in Requests, NEW s \in Spellings, NEW p \in Passwords, NEW role \in Roles,
             ReceiveRegister(r, s, p, role)
      PROVE TypeOK'
  <2>1. [op |-> "register", email |-> EmailStr[s], password |-> p, role |-> role,
         step |-> "lookup"] \in Register
    BY DEF Register, Emails
  <2> QED
    BY <1>1, <2>1 DEF ReceiveRegister, TypeOK
<1>2. ASSUME NEW r \in Requests, NEW s \in Spellings, NEW p \in Passwords, ReceiveLogin(r, s, p)
      PROVE TypeOK'
  BY <1>2, BeginType DEF ReceiveLogin
<1>3. ASSUME NEW r \in Requests, NEW t \in tokens, ReceiveRefresh(r, t) PROVE TypeOK'
  <2>1. t.sub \in Spellings
    BY EmailsAreSpellings DEF TypeOK, Token
  <2> QED
    BY <1>3, <2>1, BeginType DEF ReceiveRefresh
<1>4. ASSUME NEW r \in Requests, LookUp(r) PROVE TypeOK'
  <2>1. request[r] \in Register
    BY <1>4, KindOfCall DEF LookUp, At
  <2> QED
    BY <1>4, <2>1, AnswerType, ProceedType DEF LookUp, TypeOK
<1>5. ASSUME NEW r \in Requests, Insert(r) PROVE TypeOK'
  <2>1. request[r] \in Register
    BY <1>5, KindOfCall DEF Insert, At
  <2>2. [hashed |-> hash_password(request[r].password), role |-> request[r].role,
         is_active |-> TRUE] \in User
    BY <2>1 DEF Register, User
  <2>3. users' \in [Emails -> User \cup {None}]
    BY <1>5, <2>1, <2>2 DEF Insert, TypeOK, Register
  <2>4. request' \in [Requests -> Register \cup Session \cup {None}]
    BY <1>5, <2>1, AnswerType, ProceedType DEF Insert
  <2> QED
    BY <1>5, <2>3, <2>4 DEF Insert, TypeOK
<1>6. ASSUME NEW r \in Requests, Created(r) PROVE TypeOK'
  <2>1. request[r] \in Register
    BY <1>6, KindOfCall DEF Created, At
  <2>2. [email |-> request[r].email, password |-> request[r].password, role |-> request[r].role]
            \in [email: Emails, password: Passwords, role: Roles]
    BY <2>1 DEF Register
  <2> QED
    BY <1>6, <2>2, AnswerType DEF Created, TypeOK
<1>7. ASSUME NEW r \in Requests, Load(r) PROVE TypeOK'
  <2> DEFINE row == IF request[r].email \in Emails THEN users[request[r].email] ELSE None
  <2>1. request[r] \in Session
    BY <1>7, KindOfCall DEF Load, At
  <2>2. row \in User \cup {None}
    BY DEF TypeOK
  <2> HIDE DEF row
  <2>3. [request[r] EXCEPT !.step = "use", !.row = row] \in Session
    BY <2>1, <2>2 DEF Session
  <2>4. request' = [request EXCEPT ![r] = [request[r] EXCEPT !.step = "use", !.row = row]]
    BY <1>7 DEF Load, row, TypeOK
  <2> QED
    BY <1>7, <2>3, <2>4 DEF Load, TypeOK
<1>8. ASSUME NEW r \in Requests, Use(r) PROVE TypeOK'
  <2>1. request' \in [Requests -> Register \cup Session \cup {None}]
    BY <1>8, AnswerType DEF Use
  <2>2. ASSUME NEW t \in tokens' PROVE t \in Token /\ (t.type = "access" => t.left <= AccessTTL)
    <3>1. CASE t \in tokens
      BY <3>1 DEF TypeOK
    <3>2. CASE t \notin tokens
      <4>1. Granted(request[r]) /\ t \in _issue_tokens(request[r].email, request[r].row)
        BY <1>8, <2>2, <3>2 DEF Use
      <4>2. request[r].row \in User /\ request[r].email \in Emails
        BY <1>8, <4>1, RowInUse DEF Use
      <4> QED
        BY <4>1, <4>2, IssuedTokens, TimeAssumption
    <3> QED
      BY <3>1, <3>2
  <2> QED
    BY <1>8, <2>1, <2>2 DEF Use, TypeOK
<1>9. ASSUME NEW r \in Requests, Fail(r) PROVE TypeOK'
  BY <1>9, AnswerType DEF Fail, TypeOK
<1>10. CASE Restart
  BY <1>10 DEF Restart, TypeOK
<1>11. ASSUME NEW e \in Emails, NEW active \in BOOLEAN, SetActive(e, active) PROVE TypeOK'
  <2>1. users[e] \in User
    BY <1>11 DEF SetActive, TypeOK
  <2>2. [users[e] EXCEPT !.is_active = active] \in User
    BY <2>1 DEF User
  <2> QED
    BY <1>11, <2>2, HorizonNat DEF SetActive, TypeOK
<1>12. CASE Tick
  <2>1. request' \in [Requests -> Register \cup Session \cup {None}]
    BY <1>12, OlderCall DEF Tick
  <2>2. tokens' = {Aged(t) : t \in tokens}
    BY <1>12 DEF Tick, Aged
  <2>3. tokens' \subseteq Token /\ \A t \in tokens' : t.type = "access" => t.left <= AccessTTL
    <3> SUFFICES ASSUME NEW t \in tokens
                 PROVE  Aged(t) \in Token /\ (Aged(t).type = "access" => Aged(t).left <= AccessTTL)
      BY <2>2
    <3>1. t \in Token /\ (t.type = "access" => t.left <= AccessTTL)
      BY DEF TypeOK
    <3>2. t.left \in Nat
      BY <3>1 DEF Token
    <3> QED
      BY <3>1, <3>2, AgedToken, TimeAssumption
  <2>4. inactiveFor' \in [Emails -> 0..Horizon]
    BY <1>12, HorizonNat DEF Tick, TypeOK
  <2> QED
    BY <1>12, <2>1, <2>3, <2>4 DEF Tick, TypeOK
<1>13. CASE UNCHANGED vars
  BY <1>13 DEF vars, TypeOK
<1> QED
  BY <1>1, <1>2, <1>3, <1>4, <1>5, <1>6, <1>7, <1>8, <1>9, <1>10, <1>11, <1>12, <1>13 DEF Next

-----------------------------------------------------------------------------
(* What requests and tokens know of the table.                             *)

Known == StoredAsAsked /\ RowsKnown /\ TokensKnown /\ RowsFresh /\ TokensDie

\* Steps that neither give a request a row nor touch the tables.
Quiet ==
    /\ UNCHANGED <<users, tokens, inactiveFor>>
    /\ \A q \in Requests :
          \/ request'[q] = request[q]
          \/ request'[q] = None
          \/ request'[q].step \notin {"refresh", "use"}

LEMMA NextCases ==
  ASSUME TypeOK, [Next]_vars
  PROVE  \/ Quiet
         \/ \E r \in Requests : Insert(r) \/ Load(r) \/ Use(r)
         \/ \E e \in Emails, active \in BOOLEAN : SetActive(e, active)
         \/ Tick
<1>1. ASSUME NEW r \in Requests, NEW s \in Spellings, NEW p \in Passwords, NEW role \in Roles,
             ReceiveRegister(r, s, p, role)
      PROVE Quiet
  BY <1>1 DEF ReceiveRegister, Quiet, TypeOK
<1>2. ASSUME NEW r \in Requests, NEW op, NEW e, NEW p, Begin(r, op, e, p)
      PROVE Quiet
  BY <1>2 DEF Begin, Quiet, TypeOK
<1>3. ASSUME NEW r \in Requests, LookUp(r) PROVE Quiet
  <2>1. request[r] \in Register
    BY <1>3, KindOfCall DEF LookUp, At
  <2>2. [request[r] EXCEPT !.step = "insert"].step = "insert"
    BY <2>1 DEF Register
  <2> QED
    BY <1>3, <2>2 DEF LookUp, Answer, Proceed, Quiet, TypeOK
<1>4. ASSUME NEW r \in Requests, Created(r) \/ Fail(r) PROVE Quiet
  BY <1>4 DEF Created, Fail, Answer, Quiet, TypeOK
<1>5. CASE Restart \/ UNCHANGED vars
  BY <1>5 DEF Restart, vars, Quiet
<1> QED
  BY <1>1, <1>2, <1>3, <1>4, <1>5 DEF Next, ReceiveLogin, ReceiveRefresh

LEMMA QuietKeeps == Known /\ Quiet => Known'
<1> SUFFICES ASSUME Known, Quiet PROVE Known'
  OBVIOUS
<1>1. ASSUME NEW r \in Requests, NEW step \in {"refresh", "use"}, At(r, step)'
      PROVE At(r, step) /\ request'[r] = request[r]
  BY <1>1 DEF Quiet, At
<1>2. StoredAsAsked'
  BY <1>1 DEF Known, StoredAsAsked, Quiet
<1>3. RowsKnown'
  BY <1>1 DEF Known, RowsKnown, Quiet
<1>4. TokensKnown' /\ TokensDie'
  BY DEF Known, TokensKnown, TokensDie, Inactive, Quiet
<1>5. RowsFresh'
  BY <1>1 DEF Known, RowsFresh, Inactive, Quiet
<1> QED
  BY <1>2, <1>3, <1>4, <1>5 DEF Known

LEMMA InsertKeeps ==
  ASSUME TypeOK, Known, RowsStay, NEW r \in Requests, Insert(r)
  PROVE  Known'
<1>1. request[r] \in Register
  BY KindOfCall DEF Insert, At
<1>2. ASSUME NEW q \in Requests, At(q, "use")'
      PROVE At(q, "use") /\ request'[q] = request[q]
  BY <1>1, <1>2 DEF Insert, At, Answer, Proceed, Register, TypeOK
<1>3. ASSUME NEW e \in Emails, Inactive(users'[e]) PROVE Inactive(users[e])
  BY <1>1, <1>3 DEF Insert, Inactive, TypeOK, Register
<1>4. StoredAsAsked'
  <2> SUFFICES ASSUME NEW q \in Requests, At(q, "refresh")'
               PROVE  /\ users'[request'[q].email] # None
                      /\ users'[request'[q].email].hashed = hash_password(request'[q].password)
                      /\ users'[request'[q].email].role = request'[q].role
    BY DEF StoredAsAsked, hash_password
  <2>1. CASE q = r
    <3> DEFINE row == [hashed |-> hash_password(request[r].password),
                       role |-> request[r].role, is_active |-> TRUE]
    <3>1. Unique(request[r].email)
      BY <2>1 DEF Insert, Answer, At, TypeOK
    <3>2. row \in User
      BY <1>1 DEF Register, User
    <3>3. request'[r] = [request[r] EXCEPT !.step = "refresh"]
      BY <3>1 DEF Insert, Proceed, TypeOK
    <3>4. users'[request[r].email] = row
      BY <3>1, <1>1 DEF Insert, TypeOK, Register
    <3> QED
      BY <1>1, <2>1, <3>2, <3>3, <3>4, NoneIsNothing DEF Register
  <2>2. CASE q # r
    <3>1. request'[q] = request[q] /\ At(q, "refresh")
      BY <2>2 DEF Insert, Answer, Proceed, At, TypeOK
    <3>2. request[q].email \in Emails
      BY <3>1, KindOfCall DEF At, Register
    <3> QED
      BY <3>1, <3>2 DEF Known, StoredAsAsked, RowsStay
  <2> QED
    BY <2>1, <2>2
<1>5. RowsKnown'
  BY <1>2 DEF Known, RowsKnown, RowsStay
<1>6. TokensKnown'
  BY DEF Known, TokensKnown, RowsStay, Insert, TypeOK, Token
<1>7. RowsFresh'
  BY <1>2, <1>3 DEF Known, RowsFresh, RowsKnown, Insert
<1>8. TokensDie'
  BY <1>3 DEF Known, TokensDie, Insert, TypeOK, Token
<1> QED
  BY <1>4, <1>5, <1>6, <1>7, <1>8 DEF Known

LEMMA LoadKeeps ==
  ASSUME TypeOK, Known, NEW r \in Requests, Load(r)
  PROVE  Known'
<1>1. request[r] \in Session
  BY KindOfCall DEF Load, At
<1>2. /\ request'[r].step = "use"
      /\ request'[r].row = IF request[r].email \in Emails THEN users[request[r].email] ELSE None
      /\ request'[r].email = request[r].email
      /\ request'[r].age = request[r].age
  BY <1>1 DEF Load, TypeOK, Session
<1>3. ASSUME NEW q \in Requests, q # r PROVE request'[q] = request[q]
  BY <1>3 DEF Load, TypeOK
<1>4. StoredAsAsked'
  BY <1>2, <1>3 DEF Known, StoredAsAsked, At, Load
<1>5. RowsKnown'
  BY <1>2, <1>3 DEF Known, RowsKnown, At, Load
<1>6. TokensKnown' /\ TokensDie'
  BY DEF Known, TokensKnown, TokensDie, Inactive, Load
<1>7. RowsFresh'
  <2> SUFFICES ASSUME NEW q \in Requests, At(q, "use")', request'[q].row # None,
                      request'[q].row.is_active = TRUE, Inactive(users'[request'[q].email])
               PROVE  inactiveFor'[request'[q].email] <= request'[q].age
    BY DEF RowsFresh, Inactive
  <2>1. q # r
    BY <1>2 DEF Inactive, Load
  <2> QED
    BY <1>3, <2>1 DEF Known, RowsFresh, At, Inactive, Load
<1> QED
  BY <1>4, <1>5, <1>6, <1>7 DEF Known

LEMMA UseKeeps ==
  ASSUME TypeOK, Known, NEW r \in Requests, Use(r)
  PROVE  Known'
<1>1. ASSUME NEW q \in Requests, request'[q] # None PROVE request'[q] = request[q]
  BY <1>1 DEF Use, Answer, TypeOK
<1>2. StoredAsAsked' /\ RowsKnown'
  BY <1>1 DEF Known, StoredAsAsked, RowsKnown, At, Use
<1>3. RowsFresh'
  BY <1>1 DEF Known, RowsFresh, At, Inactive, Use
<1>4. ASSUME NEW t \in tokens', t \notin tokens
      PROVE  /\ users[t.sub] # None /\ users[t.sub].role = t.role
             /\ t.type = "access" /\ Inactive(users[t.sub]) => t.left + inactiveFor[t.sub] <= Horizon
  <2>1. Granted(request[r]) /\ t \in _issue_tokens(request[r].email, request[r].row)
    BY <1>4 DEF Use
  <2>2. request[r] \in Session /\ request[r].row \in User /\ request[r].email \in Emails
    BY <2>1, RowInUse DEF Use, Known
  <2>3. /\ t.sub = request[r].email /\ t.role = request[r].row.role
        /\ t.type = "access" => t.left = AccessTTL
    BY <2>1, <2>2, IssuedTokens
  <2>4. users[t.sub] # None /\ users[t.sub].role = t.role
    BY <2>2, <2>3, NoneIsNothing DEF Known, RowsKnown, Use
  <2>5. ASSUME t.type = "access", Inactive(users[t.sub]) PROVE t.left + inactiveFor[t.sub] <= Horizon
    <3>1. request[r].row.is_active = TRUE
      BY <2>1, <2>2 DEF Granted, User
    <3>2. inactiveFor[t.sub] <= request[r].age
      BY <2>2, <2>3, <2>5, <3>1, NoneIsNothing DEF Known, RowsFresh, Use
    <3>3. request[r].age \in 0..MaxDelay /\ inactiveFor[t.sub] \in 0..Horizon
      BY <2>2, <2>3 DEF Session, TypeOK
    <3> QED
      BY <2>3, <2>5, <3>2, <3>3, TimeAssumption DEF Horizon
  <2> QED
    BY <2>4, <2>5
<1>5. TokensKnown'
  BY <1>4 DEF Known, TokensKnown, Use
<1>6. TokensDie'
  BY <1>4 DEF Known, TokensDie, Inactive, Use
<1> QED
  BY <1>2, <1>3, <1>5, <1>6 DEF Known

LEMMA SetActiveKeeps ==
  ASSUME TypeOK, Known, RowsStay, NEW e \in Emails, NEW active \in BOOLEAN, SetActive(e, active)
  PROVE  Known'
<1>1. ASSUME NEW d \in Emails
      PROVE IF d = e THEN inactiveFor'[d] = 0
                     ELSE inactiveFor'[d] = inactiveFor[d] /\ users'[d] = users[d]
  BY DEF SetActive, TypeOK
<1>2. StoredAsAsked'
  <2> SUFFICES ASSUME NEW r \in Requests, At(r, "refresh")
               PROVE  /\ users'[request[r].email] # None
                      /\ users'[request[r].email].hashed = hash_password(request[r].password)
                      /\ users'[request[r].email].role = request[r].role
    BY DEF StoredAsAsked, hash_password, SetActive, At
  <2>1. request[r].email \in Emails
    BY KindOfCall DEF At, Register
  <2> QED
    BY <2>1 DEF Known, StoredAsAsked, RowsStay
<1>3. RowsKnown'
  BY DEF Known, RowsKnown, RowsStay, SetActive, At
<1>4. TokensKnown'
  BY DEF Known, TokensKnown, RowsStay, SetActive, TypeOK, Token
<1>5. RowsFresh'
  <2> SUFFICES ASSUME NEW r \in Requests, At(r, "use"), request[r].row # None,
                      request[r].row.is_active = TRUE, Inactive(users'[request[r].email])
               PROVE  inactiveFor'[request[r].email] <= request[r].age
    BY DEF RowsFresh, Inactive, SetActive, At
  <2>1. request[r] \in Session /\ request[r].email \in Emails
    BY KindOfCall DEF At, Known, RowsKnown
  <2>2. request[r].age \in Nat
    BY <2>1, TimeAssumption DEF Session
  <2> QED
    BY <1>1, <2>1, <2>2 DEF Known, RowsFresh, Inactive
<1>6. TokensDie'
  <2> SUFFICES ASSUME NEW t \in tokens, t.type = "access", t.left > 0, Inactive(users'[t.sub])
               PROVE  t.left + inactiveFor'[t.sub] <= Horizon
    BY DEF TokensDie, Inactive, SetActive
  <2>1. t.sub \in Emails /\ t.left \in Nat /\ t.left <= AccessTTL
    BY DEF TypeOK, Token
  <2> QED
    BY <1>1, <2>1, HorizonNat, TimeAssumption DEF Known, TokensDie, Inactive
<1> QED
  BY <1>2, <1>3, <1>4, <1>5, <1>6 DEF Known

LEMMA TickKeeps ==
  ASSUME TypeOK, Known, Tick
  PROVE  Known'
<1>1. \A r \in Requests : request'[r] = Older(request[r])
  BY DEF Tick
<1>2. ASSUME NEW r \in Requests, ~At(r, "use") PROVE request'[r] = request[r]
  BY <1>1, <1>2, OlderCall
<1>3. ASSUME NEW r \in Requests, At(r, "use")
      PROVE  /\ request'[r].step = "use"
             /\ request'[r].row = request[r].row
             /\ request'[r].email = request[r].email
             /\ request'[r].age = request[r].age + 1
  BY <1>1, <1>3, OlderCall
<1>4. ASSUME NEW r \in Requests, At(r, "use")' PROVE At(r, "use")
  BY <1>2, <1>4 DEF At
<1>5. ASSUME NEW e \in Emails, Inactive(users[e])
      PROVE inactiveFor'[e] <= inactiveFor[e] + 1 /\ inactiveFor[e] \in Nat /\ inactiveFor'[e] \in 0..Horizon
  BY <1>5, HorizonNat DEF Tick, Inactive, TypeOK
<1>6. StoredAsAsked'
  <2> SUFFICES ASSUME NEW r \in Requests, At(r, "refresh")'
               PROVE  At(r, "refresh") /\ request'[r] = request[r]
    BY DEF StoredAsAsked, hash_password, Tick, Known
  <2> QED
    BY <1>2, <1>3 DEF At
<1>7. RowsKnown'
  BY <1>3, <1>4 DEF Known, RowsKnown, Tick
<1>8. tokens' = {Aged(t) : t \in tokens}
  BY DEF Tick, Aged
<1>9. TokensKnown'
  <2> SUFFICES ASSUME NEW t \in tokens
               PROVE  users[Aged(t).sub] # None /\ users[Aged(t).sub].role = Aged(t).role
    BY <1>8 DEF TokensKnown, Tick
  <2> QED
    BY AgedToken DEF Known, TokensKnown, TypeOK
<1>10. RowsFresh'
  <2> SUFFICES ASSUME NEW r \in Requests, At(r, "use")', request'[r].row # None,
                      request'[r].row.is_active = TRUE, Inactive(users'[request'[r].email])
               PROVE  inactiveFor'[request'[r].email] <= request'[r].age
    BY DEF RowsFresh, Inactive
  <2>1. At(r, "use")
    BY <1>4
  <2>2. Inactive(users[request[r].email])
    BY <1>3, <2>1 DEF Inactive, Tick
  <2>3. request[r] \in Session /\ request[r].email \in Emails
    BY <2>1, <1>3, KindOfCall DEF At, Known, RowsKnown
  <2>4. request[r].age \in Nat
    BY <2>3, TimeAssumption DEF Session
  <2>5. inactiveFor[request[r].email] <= request[r].age
    BY <1>3, <2>1, <2>2 DEF Known, RowsFresh
  <2>6. /\ inactiveFor'[request[r].email] <= inactiveFor[request[r].email] + 1
        /\ inactiveFor[request[r].email] \in Nat /\ inactiveFor'[request[r].email] \in Nat
    BY <1>5, <2>2, <2>3, HorizonNat
  <2> QED
    BY <1>3, <2>1, <2>4, <2>5, <2>6
<1>11. TokensDie'
  <2> SUFFICES ASSUME NEW t \in tokens, Aged(t).type = "access", Aged(t).left > 0,
                      Inactive(users'[Aged(t).sub])
               PROVE  Aged(t).left + inactiveFor'[Aged(t).sub] <= Horizon
    BY <1>8 DEF TokensDie, Inactive
  <2>1. t \in Token /\ t.sub \in Emails /\ t.left \in Nat
    BY DEF TypeOK, Token
  <2>2. Aged(t).sub = t.sub /\ t.type = "access" /\ t.left > 0 /\ Aged(t).left = t.left - 1
    BY <2>1, AgedToken
  <2>3. Inactive(users[t.sub])
    BY <2>2 DEF Inactive, Tick
  <2>4. t.left + inactiveFor[t.sub] <= Horizon
    BY <2>2, <2>3 DEF Known, TokensDie
  <2>5. /\ inactiveFor'[t.sub] <= inactiveFor[t.sub] + 1
        /\ inactiveFor[t.sub] \in Nat /\ inactiveFor'[t.sub] \in Nat
    BY <1>5, <2>1, <2>3, HorizonNat
  <2> QED
    BY <2>1, <2>2, <2>4, <2>5, HorizonNat
<1> QED
  BY <1>6, <1>7, <1>9, <1>10, <1>11 DEF Known

-----------------------------------------------------------------------------
(* The theorems.                                                           *)

LEMMA NextTold ==
  ASSUME TypeOK, StoredAsAsked, RegistrationStands, RowsStay, [Next]_vars
  PROVE  RegistrationStands'
<1> SUFFICES ASSUME NEW a \in told'
             PROVE  /\ users'[a.email] # None
                    /\ users'[a.email].hashed = hash_password(a.password)
                    /\ users'[a.email].role = a.role
  BY DEF RegistrationStands, verify_password, hash_password
<1>1. CASE a \in told
  BY <1>1 DEF RegistrationStands, verify_password, RowsStay, TypeOK
<1>2. ASSUME NEW r \in Requests, Created(r), a \notin told
      PROVE  /\ users'[a.email] # None
             /\ users'[a.email].hashed = hash_password(a.password)
             /\ users'[a.email].role = a.role
  BY <1>2 DEF Created, StoredAsAsked
<1>3. CASE a \notin told
  BY <1>2, <1>3 DEF Next, vars, ReceiveRegister, ReceiveLogin, ReceiveRefresh, Begin,
     LookUp, Insert, Load, Use, Fail, Restart, SetActive, Tick
<1> QED
  BY <1>1, <1>3

LEMMA NextIInv == IInv /\ [Next]_vars => IInv'
<1> SUFFICES ASSUME IInv, [Next]_vars PROVE IInv'
  OBVIOUS
<1>1. TypeOK /\ Known
  BY DEF IInv, Known
<1>2. RowsStay
  BY <1>1, NextRowsStay
<1>3. TypeOK'
  BY <1>1, NextType DEF Known
<1>4. Known'
  BY <1>1, <1>2, NextCases, QuietKeeps, InsertKeeps, LoadKeeps, UseKeeps, SetActiveKeeps, TickKeeps
<1>5. RegistrationStands'
  BY <1>1, <1>2, NextTold DEF IInv
<1> QED
  BY <1>3, <1>4, <1>5 DEF IInv, Known

LEMMA SpecIInv == Spec => []IInv
  BY InitIInv, NextIInv, PTL DEF Spec

\* Requests, rows and tokens stay well typed and no access token is given more
\* than its lifetime, whatever the service is asked (service.py, security.py).
THEOREM AccountsTypeCorrect == Spec => []TypeOK
<1>1. IInv => TypeOK
  BY DEF IInv
<1> QED
  BY <1>1, SpecIInv, PTL

\* service.py register: whatever registrations race or break off, whoever was
\* answered 201 owns the account.
THEOREM RegistrationsAreKept == Spec => []RegistrationStands
<1>1. IInv => RegistrationStands
  BY DEF IInv
<1> QED
  BY <1>1, SpecIInv, PTL

\* security.py: what services read in an access token, without asking the
\* auth service, is what its table says.
THEOREM AcceptedIdentityIsTrue == Spec => []IdentityIsTrue
<1>1. IInv => IdentityIsTrue
  BY DEF IInv, TokensKnown, IdentityIsTrue, require_role
<1> QED
  BY <1>1, SpecIInv, PTL

\* service.py refresh and security.py: a deactivated account is out of every
\* service once an access token's lifetime and a request's delay have passed,
\* for any lifetimes and any number of refresh tokens in circulation.
THEOREM RevocationIsBounded == Spec => []RevocationTakesEffect
<1>1. IInv => RevocationTakesEffect
  <2> SUFFICES ASSUME IInv, NEW t \in tokens, get_current_identity(t), users[t.sub] # None,
                      users[t.sub].is_active = FALSE
               PROVE  inactiveFor[t.sub] < Horizon
    <3>1. ASSUME TypeOK, NEW t \in tokens, users[t.sub] # None
          PROVE  users[t.sub].is_active \in BOOLEAN
      <4>1. users[t.sub] \in User
        BY <3>1 DEF TypeOK, Token
      <4> QED
        BY <4>1 DEF User
    <3> QED
      BY <3>1 DEF RevocationTakesEffect, IInv
  <2>1. t.left \in Nat /\ inactiveFor[t.sub] \in Nat
    BY HorizonNat DEF IInv, TypeOK, Token
  <2> QED
    BY <2>1, HorizonNat DEF IInv, TokensDie, Inactive, get_current_identity, decode_token
<1> QED
  BY <1>1, SpecIInv, PTL

=============================================================================
