------------------------------ MODULE Accounts ------------------------------
(***************************************************************************)
(* The auth service: registration, login and refresh, the table of users   *)
(* and the tokens it signs; and the check of an access token, which every  *)
(* service makes on its own, from the public key alone (security.py).      *)
(*                                                                         *)
(* A request is split at its awaits: between the read of a row and its use *)
(* other requests commit and an operator may deactivate the account.  Time *)
(* is counted down in the tokens, by ticks of an access token's lifetime.  *)
(***************************************************************************)
EXTENDS Integers, FiniteSets

CONSTANTS
    Spellings,    \* e-mail addresses as clients write them
    EmailStr,     \* the normal form of each, as RegisterRequest keeps it
    Passwords, Roles,
    Requests,     \* slots for requests in the service
    AccessTTL,    \* settings.access_token_expire_minutes
    RefreshTTL,   \* settings.refresh_token_expire_days
    MaxDelay,     \* bound on the ticks between the read of a row and its use
    None

ASSUME EmailAssumption ==
    /\ EmailStr \in [Spellings -> Spellings]
    /\ \A s \in Spellings : EmailStr[EmailStr[s]] = EmailStr[s]
ASSUME TimeAssumption ==
    AccessTTL \in Nat /\ RefreshTTL \in Nat /\ MaxDelay \in Nat /\ AccessTTL <= RefreshTTL

Emails == {EmailStr[s] : s \in Spellings}

\* Salted: nothing is known of a hash but which password it verifies.
hash_password(p) == <<"argon2", p>>

verify_password(p, hash) == hash = hash_password(p)

User == [hashed: {hash_password(p) : p \in Passwords}, role: Roles, is_active: BOOLEAN]

Register == [op: {"register"}, email: Emails, password: Passwords, role: Roles,
             step: {"lookup", "insert", "refresh"}]

Session == [op: {"login", "refresh"}, email: Spellings, password: Passwords \cup {None},
            step: {"load", "use"}, row: User \cup {None}, age: 0..MaxDelay]

ASSUME NoneAssumption == None \notin Passwords \cup User \cup Register \cup Session

Token == [sub: Emails, role: Roles, type: {"access", "refresh"}, left: 0..RefreshTTL]

VARIABLES
    users,         \* the table: the row of each e-mail (the UNIQUE column), or None
    request,       \* the requests in the service
    tokens,        \* every token signed so far
    told,          \* history variable: the registrations answered 201
    inactiveFor    \* history variable: the ticks since each account was deactivated

vars == <<users, request, tokens, told, inactiveFor>>

\* Ticks after a deactivation that are told apart.
Horizon == AccessTTL + MaxDelay

Init ==
    /\ users = [e \in Emails |-> None]
    /\ request = [r \in Requests |-> None]
    /\ tokens = {}
    /\ told = {}
    /\ inactiveFor = [e \in Emails |-> 0]

-----------------------------------------------------------------------------
(* security.py: what a signature that verifies is good for.                *)

decode_token(t) == t.left > 0

get_current_identity(t) == decode_token(t) /\ t.type = "access"

require_role(t, roles) == get_current_identity(t) /\ t.role \in roles

\* Mutant: the lifetime of a refresh token.
LongAccess == RefreshTTL

access_lifetime == AccessTTL

_issue_tokens(e, row) ==
    {[sub |-> e, role |-> row.role, type |-> "access", left |-> access_lifetime],
     [sub |-> e, role |-> row.role, type |-> "refresh", left |-> RefreshTTL]}

-----------------------------------------------------------------------------
(* Registration.                                                           *)

At(r, step) == request[r] # None /\ request[r].step = step

Answer(r) == request' = [request EXCEPT ![r] = None]

Proceed(r, step) == request' = [request EXCEPT ![r].step = step]

ReceiveRegister(r, s, p, role) ==
    /\ request[r] = None
    /\ request' = [request EXCEPT ![r] =
          [op |-> "register", email |-> EmailStr[s], password |-> p,
           role |-> role, step |-> "lookup"]]
    /\ UNCHANGED <<users, tokens, told, inactiveFor>>

\* 409 when the e-mail is taken.
LookUp(r) ==
    /\ At(r, "lookup")
    /\ IF users[request[r].email] # None THEN Answer(r) ELSE Proceed(r, "insert")
    /\ UNCHANGED <<users, tokens, told, inactiveFor>>

\* Mutant: the second of two writes wins.
NoConstraint(e) == TRUE

Unique(e) == users[e] = None

\* The UNIQUE column refuses the second of two: an IntegrityError, and 500.
Insert(r) ==
    /\ At(r, "insert")
    /\ IF Unique(request[r].email)
       THEN /\ users' = [users EXCEPT ![request[r].email] =
                   [hashed |-> hash_password(request[r].password),
                    role |-> request[r].role, is_active |-> TRUE]]
            /\ Proceed(r, "refresh")
       ELSE Answer(r) /\ UNCHANGED users
    /\ UNCHANGED <<tokens, told, inactiveFor>>

Created(r) ==
    /\ At(r, "refresh")
    /\ told' = told \cup {[email |-> request[r].email, password |-> request[r].password,
                           role |-> request[r].role]}
    /\ Answer(r)
    /\ UNCHANGED <<users, tokens, inactiveFor>>

-----------------------------------------------------------------------------
(* Login and refresh.                                                      *)

Begin(r, op, e, p) ==
    /\ request[r] = None
    /\ request' = [request EXCEPT ![r] =
          [op |-> op, email |-> e, password |-> p, step |-> "load", row |-> None, age |-> 0]]
    /\ UNCHANGED <<users, tokens, told, inactiveFor>>

\* The user name of the login form is taken as it is written.
ReceiveLogin(r, s, p) == Begin(r, "login", s, p)

\* The subject of a refresh token is known by his e-mail here, by his id there.
ReceiveRefresh(r, t) ==
    decode_token(t) /\ t.type = "refresh" /\ Begin(r, "refresh", t.sub, None)

Load(r) ==
    LET e == request[r].email IN
    /\ At(r, "load")
    /\ request' = [request EXCEPT ![r].step = "use",
                                  ![r].row = IF e \in Emails THEN users[e] ELSE None]
    /\ UNCHANGED <<users, tokens, told, inactiveFor>>

\* Mutant: a refresh token is good for ever.
NoRecheck(call) ==
    /\ call.row # None
    /\ call.op = "login" => verify_password(call.password, call.row.hashed) /\ call.row.is_active

Granted(call) ==
    /\ call.row # None
    /\ call.op = "login" => verify_password(call.password, call.row.hashed)
    /\ call.row.is_active

\* Tokens, or 401.
Use(r) ==
    /\ At(r, "use")
    /\ tokens' = IF Granted(request[r])
                 THEN tokens \cup _issue_tokens(request[r].email, request[r].row)
                 ELSE tokens
    /\ Answer(r)
    /\ UNCHANGED <<users, told, inactiveFor>>

-----------------------------------------------------------------------------
(* The environment.                                                        *)

\* An await raises (the database is gone), or the client is.
Fail(r) ==
    /\ request[r] # None /\ ~At(r, "use")
    /\ Answer(r)
    /\ UNCHANGED <<users, tokens, told, inactiveFor>>

Restart ==
    /\ request' = [r \in Requests |-> None]
    /\ UNCHANGED <<users, tokens, told, inactiveFor>>

\* No route writes is_active: an operator does, in the table.
SetActive(e, active) ==
    /\ users[e] # None /\ users[e].is_active # active
    /\ users' = [users EXCEPT ![e].is_active = active]
    /\ inactiveFor' = [inactiveFor EXCEPT ![e] = 0]
    /\ UNCHANGED <<request, tokens, told>>

Older(call) == IF call # None /\ call.op # "register" /\ call.step = "use"
               THEN [call EXCEPT !.age = @ + 1] ELSE call

Tick ==
    /\ \A r \in Requests : At(r, "use") => request[r].age < MaxDelay
    /\ request' = [r \in Requests |-> Older(request[r])]
    /\ tokens' = {[t EXCEPT !.left = IF @ = 0 THEN 0 ELSE @ - 1] : t \in tokens}
    /\ inactiveFor' = [e \in Emails |->
          IF users[e] # None /\ ~users[e].is_active /\ inactiveFor[e] < Horizon
          THEN inactiveFor[e] + 1 ELSE inactiveFor[e]]
    /\ UNCHANGED <<users, told>>

Next ==
    \/ \E r \in Requests :
          \/ \E s \in Spellings, p \in Passwords :
                \/ \E role \in Roles : ReceiveRegister(r, s, p, role)
                \/ ReceiveLogin(r, s, p)
          \/ \E t \in tokens : ReceiveRefresh(r, t)
          \/ LookUp(r) \/ Insert(r) \/ Created(r)
          \/ Load(r) \/ Use(r) \/ Fail(r)
    \/ Restart
    \/ \E e \in Emails, active \in BOOLEAN : SetActive(e, active)
    \/ Tick

Spec == Init /\ [][Next]_vars

-----------------------------------------------------------------------------
(* Properties.                                                             *)

\* No access token outlives the lifetime it was given.
TypeOK ==
    /\ users \in [Emails -> User \cup {None}]
    /\ request \in [Requests -> Register \cup Session \cup {None}]
    /\ tokens \subseteq Token
    /\ \A t \in tokens : t.type = "access" => t.left <= AccessTTL
    /\ told \subseteq [email: Emails, password: Passwords, role: Roles]
    /\ inactiveFor \in [Emails -> 0..Horizon]

\* service.py register: the lookup and the INSERT are an await or more apart.
\* Whoever was told 201 owns the account, with his password and his role,
\* whatever other registrations for that e-mail, however spelt, ran or failed.
RegistrationStands ==
    \A a \in told :
        LET row == users[a.email] IN
        row # None /\ verify_password(a.password, row.hashed) /\ row.role = a.role

\* security.py: services trust what a token says and ask nobody.  What every
\* accepted token says of its subject is true: there is such an account (me
\* finds it), and a route for some roles lets in only accounts with one of them.
IdentityIsTrue ==
    \A t \in tokens, roles \in SUBSET Roles :
        require_role(t, roles) => users[t.sub] # None /\ users[t.sub].role \in roles

\* architecture.md: access tokens are short-lived and verified offline, so a
\* deactivation cannot take them back.  It takes effect all the same: neither
\* refresh tokens in circulation nor requests that overlap it keep an access
\* token alive past its lifetime and the delay of a request.
RevocationTakesEffect ==
    \A t \in tokens :
        get_current_identity(t) /\ users[t.sub] # None /\ ~users[t.sub].is_active =>
            inactiveFor[t.sub] < Horizon

=============================================================================
