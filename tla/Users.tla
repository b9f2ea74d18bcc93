------------------------------- MODULE Users -------------------------------
(***************************************************************************)
(* UserService over UserRepository, JwtAuthService, PasswordService and    *)
(* JwtAuthGuard, with the routes of AuthController: registration, login,   *)
(* tokens, password changes, and accounts being switched off and on.       *)
(*                                                                         *)
(* Every request awaits the database and bcrypt several times, so what it  *)
(* found may have changed by the time it answers.  Tokens are signed and   *)
(* not stored: whoever has one may present it until it expires.            *)
(***************************************************************************)
EXTENDS Naturals, FiniteSets

CONSTANTS
  Id,         \* ids of rows of users
  Address,    \* e-mail addresses as they are typed
  Lower(_),   \* toLowerCase
  Password,
  Strong,     \* passwords validatePasswordStrength accepts
  Request,    \* requests at a time
  SameSecret, \* whether refresh tokens are signed with the secret of the others
  NoValue     \* null

Email == {Lower(a) : a \in Address}

Row == [email : Email, password : Password, active : BOOLEAN]

ASSUME UsersAssumption ==
  /\ Strong \subseteq Password
  /\ SameSecret \in BOOLEAN
  /\ NoValue \notin Id \cup Address \cup Email \cup Password \cup Row

VARIABLES
  row,     \* per id, NoValue or its row
  tokens,  \* tokens that were issued
  step,    \* per request, where it stands
  given,   \* per request, what came with it
  found,   \* per request, the row it read
  made,    \* per request, the id of the account it created
  was      \* history: whether what the request is about to be granted was
           \* justified at a moment since it began

request == <<step, given, found, made>>
vars    == <<row, tokens, request, was>>

-----------------------------------------------------------------------------
(* Accounts, tokens and requests.                                          *)

Exists(i) == row[i] # NoValue

FindByEmail(email) == {i \in Id : Exists(i) /\ row[i].email = email}

\* The kinds a token may have; generateTokens makes an access and a refresh
\* token.
Token == [kind : {"access", "refresh", "api"}, sub : Id]

Pair(i) == {[kind |-> "access", sub |-> i], [kind |-> "refresh", sub |-> i]}

\* Any token signed with the secret of access tokens is one to the guard, which
\* uses its subject only.  API keys are; refresh tokens are where no secret of
\* their own is configured.
PassesAsAccess(t) == t.kind = "refresh" => SameSecret

Step == {"idle", "exists", "save", "find", "sign", "refresh", "guard", "key", "readOwn",
         "change", "tokens", "admitted", "changed", "refused"}

\* What a request comes with: an address and a password, or an id out of a
\* token; a password change also the new password.
Given == [address : Address \cup {NoValue}, password : Password \cup {NoValue},
          id : Id \cup {NoValue}, new : Password \cup {NoValue}]

Nothing == [address |-> NoValue, password |-> NoValue, id |-> NoValue, new |-> NoValue]

\* That the account a request names is there, that it is active unless its
\* password is being changed, and that the password it gives is the right one.
Justified(g, i, r) ==
  /\ r[i] # NoValue
  /\ g.id \in {NoValue, i}
  /\ g.address # NoValue => r[i].email = Lower(g.address)
  /\ g.new = NoValue => r[i].active
  /\ g.password # NoValue => r[i].password = g.password

JustifiedNow(g, r) == \E i \in Id : Justified(g, i, r)

\* To be used with row' and given' known: was is kept up to date.
Watch ==
  was' = [q \in Request |->
    IF step'[q] = "idle" THEN FALSE
    ELSE (was[q] /\ given'[q] = given[q]) \/ JustifiedNow(given'[q], row')]

Goto(q, s) == step' = [step EXCEPT ![q] = s]

Init ==
  /\ row = [i \in Id |-> NoValue]
  /\ tokens = {}
  /\ step = [q \in Request |-> "idle"]
  /\ given = [q \in Request |-> Nothing]
  /\ found = [q \in Request |-> NoValue]
  /\ made = [q \in Request |-> NoValue]
  /\ was = [q \in Request |-> FALSE]

-----------------------------------------------------------------------------
(* Requests begin.                                                         *)

Begin(q, s, g) ==
  /\ step[q] = "idle"
  /\ Goto(q, s)
  /\ given' = [given EXCEPT ![q] = g]
  /\ UNCHANGED <<row, tokens, found, made>>
  /\ Watch

BeginRegister(q) ==
  \E a \in Address, p \in Password :
    Begin(q, "exists", [Nothing EXCEPT !.address = a, !.password = p])

BeginLogin(q) ==
  \E a \in Address, p \in Password :
    Begin(q, "find", [Nothing EXCEPT !.address = a, !.password = p])

\* verifyRefreshToken asks for the type the token was signed with.
BeginRefresh(q) ==
  \E t \in tokens : t.kind = "refresh" /\ Begin(q, "refresh", [Nothing EXCEPT !.id = t.sub])

BeginGuarded(q) ==
  \E t \in tokens : PassesAsAccess(t) /\ Begin(q, "guard", [Nothing EXCEPT !.id = t.sub])

-----------------------------------------------------------------------------
(* Registration: create, then login with the same address and password.   *)

\* An address in use is a conflict; a weak password is refused.
CheckExists(q) ==
  /\ step[q] = "exists"
  /\ Goto(q, IF FindByEmail(Lower(given[q].address)) = {} /\ given[q].password \in Strong
             THEN "save" ELSE "refused")
  /\ UNCHANGED <<row, tokens, given, found, made>>
  /\ Watch

\* A table without a unique index.
EmailUnchecked(email) == TRUE

\* The unique index of users refuses a second row with one e-mail.
InsertAllowed(email) == FindByEmail(email) = {}

\* The password was hashed since the check; the row is inserted, or it is not
\* and the request fails.
SaveUser(q) ==
  /\ step[q] = "save"
  /\ LET email == Lower(given[q].address) IN
     IF InsertAllowed(email)
     THEN \E i \in Id :
            /\ ~ Exists(i)
            /\ row' = [row EXCEPT ![i] =
                 [email |-> email, password |-> given[q].password, active |-> TRUE]]
            /\ made' = [made EXCEPT ![q] = i]
            /\ Goto(q, "find")
     ELSE Goto(q, "refused") /\ UNCHANGED <<row, made>>
  /\ UNCHANGED <<tokens, given, found>>
  /\ Watch

-----------------------------------------------------------------------------
(* Login and refresh.                                                      *)

\* A login that does not look at the row.
LoginOnAnyRow(i) == TRUE

\* A login on a row that is not active is refused before its password is
\* looked at.
LoginAllowed(i) == row[i].active

\* validateUser reads the row once and compares the password with that.
FindUser(q) ==
  /\ step[q] = "find"
  /\ IF \E i \in FindByEmail(Lower(given[q].address)) : LoginAllowed(i)
     THEN \E i \in FindByEmail(Lower(given[q].address)) :
            /\ LoginAllowed(i)
            /\ found' = [found EXCEPT ![q] = [id |-> i, password |-> row[i].password]]
            /\ Goto(q, "sign")
     ELSE Goto(q, "refused") /\ UNCHANGED found
  /\ UNCHANGED <<row, tokens, given, made>>
  /\ Watch

FindUserToRefresh(q) ==
  /\ step[q] = "refresh"
  /\ LET i == given[q].id IN
     IF Exists(i) /\ row[i].active
     THEN found' = [found EXCEPT ![q] = [id |-> i, password |-> row[i].password]] /\ Goto(q, "sign")
     ELSE Goto(q, "refused") /\ UNCHANGED found
  /\ UNCHANGED <<row, tokens, given, made>>
  /\ Watch

\* The password is right, the login is noted, and the tokens are signed.
SignTokens(q) ==
  /\ step[q] = "sign"
  /\ IF given[q].password \in {NoValue, found[q].password}
     THEN tokens' = tokens \cup Pair(found[q].id) /\ Goto(q, "tokens")
     ELSE Goto(q, "refused") /\ UNCHANGED tokens
  /\ UNCHANGED <<row, given, found, made>>
  /\ Watch

-----------------------------------------------------------------------------
(* Guarded routes.                                                         *)

\* canActivate: the user must be there and be active.
Guard(q) ==
  /\ step[q] = "guard"
  /\ Goto(q, IF Exists(given[q].id) /\ row[given[q].id].active THEN "admitted" ELSE "refused")
  /\ UNCHANGED <<row, tokens, given, found, made>>
  /\ Watch

\* Past the guard: an API key is signed, the password is changed, or the route
\* is one of those that change nothing here (profile, logout, alerts).
GenerateApiKey(q) ==
  /\ step[q] = "admitted"
  /\ tokens' = tokens \cup {[kind |-> "api", sub |-> given[q].id]}
  /\ Goto(q, "key")
  /\ UNCHANGED <<row, given, found, made>>
  /\ Watch

BeginChange(q) ==
  /\ step[q] = "admitted"
  /\ \E p \in Password, new \in Strong :
       given' = [given EXCEPT ![q] = [given[q] EXCEPT !.password = p, !.new = new]]
  /\ Goto(q, "readOwn")
  /\ UNCHANGED <<row, tokens, found, made>>
  /\ Watch

\* changePassword compares with the row as it reads it...
ReadOwn(q) ==
  /\ step[q] = "readOwn"
  /\ Goto(q, IF row[given[q].id].password = given[q].password THEN "change" ELSE "refused")
  /\ UNCHANGED <<row, tokens, given, found, made>>
  /\ Watch

\* ...and after two awaits of bcrypt writes the one column.
ChangePassword(q) ==
  /\ step[q] = "change"
  /\ row' = [row EXCEPT ![given[q].id] = [row[given[q].id] EXCEPT !.password = given[q].new]]
  /\ Goto(q, "changed")
  /\ UNCHANGED <<tokens, given, found, made>>
  /\ Watch

-----------------------------------------------------------------------------
(* The rest.                                                               *)

\* activate and deactivate, which an operator calls.
SetActive(i) ==
  /\ Exists(i)
  /\ row' = [row EXCEPT ![i] = [row[i] EXCEPT !.active = ~ row[i].active]]
  /\ UNCHANGED <<tokens, request>>
  /\ Watch

\* A statement fails, the token has expired, or the process ends.
Fail(q) ==
  /\ step[q] \notin {"idle", "key", "tokens", "admitted", "changed", "refused"}
  /\ Goto(q, "refused")
  /\ UNCHANGED <<row, tokens, given, found, made>>
  /\ Watch

Close(q) ==
  /\ step[q] \in {"key", "tokens", "admitted", "changed", "refused"}
  /\ Goto(q, "idle")
  /\ given' = [given EXCEPT ![q] = Nothing]
  /\ found' = [found EXCEPT ![q] = NoValue]
  /\ made' = [made EXCEPT ![q] = NoValue]
  /\ UNCHANGED <<row, tokens>>
  /\ Watch

Next ==
  \/ \E q \in Request :
       \/ BeginRegister(q) \/ BeginLogin(q) \/ BeginRefresh(q) \/ BeginGuarded(q)
       \/ CheckExists(q) \/ SaveUser(q)
       \/ FindUser(q) \/ FindUserToRefresh(q) \/ SignTokens(q)
       \/ Guard(q) \/ GenerateApiKey(q) \/ BeginChange(q) \/ ReadOwn(q) \/ ChangePassword(q)
       \/ Fail(q) \/ Close(q)
  \/ \E i \in Id : SetActive(i)

Spec == Init /\ [][Next]_vars

-----------------------------------------------------------------------------
(* Properties.                                                             *)

\* Two registrations of one address, in whatever case it is typed and however
\* they overlap, make one account; and a registration answered with tokens got
\* those of the account it made, not of one made beside it.
OneAccountPerAddress ==
  /\ \A i, j \in Id : Exists(i) /\ Exists(j) /\ row[i].email = row[j].email => i = j
  /\ \A q \in Request : step[q] = "tokens" /\ made[q] # NoValue => found[q].id = made[q]

\* Whoever is let in could have been let in: a login with tokens gave the
\* password of an active account as it was at one moment of the request, a
\* refresh or a guarded route had an active account, and a changed password had
\* the old one right, whatever was switched off or changed in between.
GrantsJustified ==
  \A q \in Request : step[q] \in {"tokens", "admitted", "key", "changed"} => was[q]

=============================================================================
