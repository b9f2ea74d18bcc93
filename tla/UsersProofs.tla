----------------------------- MODULE UsersProofs -----------------------------
(***************************************************************************)
(* Proofs about Users, for any ids, addresses, passwords and requests: one *)
(* account per address, and nothing granted that was at no moment of the   *)
(* request justified.                                                      *)
(***************************************************************************)
EXTENDS Users, TLAPS

\* Rows and tokens.
RowsTyped ==
  /\ row \in [Id -> Row \cup {NoValue}]
  /\ \A t \in tokens : t.sub \in Id

Unique == \A i, j \in Id : Exists(i) /\ Exists(j) /\ row[i].email = row[j].email => i = j

RequestTyped(q) ==
  /\ step[q] \in Step /\ given[q] \in Given
  /\ found[q] \in [id : Id, password : Password] \cup {NoValue}

\* What a request came with, by where it stands.
Shape(q) ==
  /\ step[q] \in {"exists", "save", "find"} =>
       /\ given[q].address \in Address /\ given[q].password \in Password
       /\ given[q].id = NoValue /\ given[q].new = NoValue
  /\ step[q] \in {"refresh", "guard", "admitted"} =>
       /\ given[q].address = NoValue /\ given[q].password = NoValue
       /\ given[q].id \in Id /\ given[q].new = NoValue
  /\ step[q] \in {"readOwn", "change"} =>
       /\ given[q].address = NoValue /\ given[q].id \in Id
       /\ given[q].password \in Password /\ given[q].new \in Password
  /\ step[q] \in {"admitted", "readOwn", "change"} => Exists(given[q].id)

\* The account a login or a refresh has found, and the one a registration made.
Accounts(q) ==
  /\ step[q] \in {"sign", "tokens"} =>
       /\ found[q] \in [id : Id, password : Password] /\ Exists(found[q].id)
       /\ given[q].address # NoValue =>
            given[q].address \in Address /\ row[found[q].id].email = Lower(given[q].address)
  /\ step[q] = "idle" => made[q] = NoValue
  /\ made[q] # NoValue =>
       /\ made[q] \in Id /\ Exists(made[q])
       /\ given[q].address \in Address
       /\ row[made[q]].email = Lower(given[q].address)

\* When a request is sure to have been justified.
Sure(q) ==
  /\ step[q] = "sign" /\ given[q].password \in {NoValue, found[q].password} => was[q]
  /\ step[q] \in {"tokens", "admitted", "key", "change", "changed"} => was[q]

RequestInv(q) == RequestTyped(q) /\ Shape(q) /\ Accounts(q) /\ Sure(q)

Domains ==
  /\ DOMAIN step = Request /\ DOMAIN given = Request
  /\ DOMAIN found = Request /\ DOMAIN made = Request

IInv == RowsTyped /\ Unique /\ Domains /\ \A q \in Request : RequestInv(q)

-----------------------------------------------------------------------------
(* Lemmas.                                                                 *)

\* null is no value of anything.
LEMMA NoValueIsNone ==
  /\ NoValue \notin Id /\ NoValue \notin Address /\ NoValue \notin Email
  /\ NoValue \notin Password /\ NoValue \notin Row
  /\ Strong \subseteq Password
BY UsersAssumption

\* What was justified stays noted while the request is about the same thing,
\* and what is justified now is noted.
LEMMA Watched ==
  ASSUME Watch, NEW q \in Request, step'[q] # "idle"
  PROVE  /\ was[q] /\ given'[q] = given[q] => was'[q]
         /\ JustifiedNow(given'[q], row') => was'[q]
<1>1. was'[q] = IF step'[q] = "idle" THEN FALSE
                ELSE (was[q] /\ given'[q] = given[q]) \/ JustifiedNow(given'[q], row')
  BY Zenon DEF Watch
<1> QED
  BY <1>1, Zenon

\* Accounts stay, with their addresses.
RowsKept ==
  \A i \in Id : Exists(i) => row'[i] # NoValue /\ row'[i].email = row[i].email

\* A request a step is not about keeps its invariant.
LEMMA OthersKeep ==
  ASSUME NEW q \in Request, RequestInv(q), RowsKept, Watch,
         step'[q] = step[q], given'[q] = given[q], found'[q] = found[q], made'[q] = made[q]
  PROVE  RequestInv(q)'
<1>1. RequestTyped(q)'
  BY DEF RequestInv, RequestTyped
<1>2. Shape(q)'
  BY DEF RequestInv, RequestTyped, Shape, Exists, RowsKept
<1>3. Accounts(q)'
  BY NoValueIsNone DEF RequestInv, RequestTyped, Accounts, Exists, RowsKept
<1>4. step[q] # "idle" /\ was[q] => was'[q]
  BY Watched
<1>5. Sure(q)'
  BY <1>4 DEF RequestInv, Sure
<1> QED
  BY <1>1, <1>2, <1>3, <1>5 DEF RequestInv

\* A step of one request: the others keep theirs.
StepOf(q) ==
  \A p \in Request : p # q =>
    /\ step'[p] = step[p] /\ given'[p] = given[p]
    /\ found'[p] = found[p] /\ made'[p] = made[p]

\* The invariant after a step of one request that leaves the rows alone.
LEMMA RequestStep ==
  ASSUME IInv, NEW q \in Request, StepOf(q), Watch, UNCHANGED row, Domains',
         RequestInv(q)', \A t \in tokens' : t.sub \in Id
  PROVE  IInv'
<1>1. RowsKept
  BY DEF RowsKept, Exists
<1>2. \A p \in Request : RequestInv(p)'
  <2> SUFFICES ASSUME NEW p \in Request PROVE RequestInv(p)'
    OBVIOUS
  <2>1. CASE p = q
    BY <2>1
  <2>2. CASE p # q
    BY <1>1, <2>2, OthersKeep DEF IInv, StepOf
  <2> QED
    BY <2>1, <2>2
<1>3. RowsTyped' /\ Unique'
  BY DEF IInv, RowsTyped, Unique, Exists
<1> QED
  BY <1>2, <1>3 DEF IInv

\* What Nothing and the records made of it hold.
LEMMA GivenTyped ==
  /\ Nothing \in Given
  /\ \A a \in Address, p \in Password :
       [Nothing EXCEPT !.address = a, !.password = p]
         = [address |-> a, password |-> p, id |-> NoValue, new |-> NoValue]
  /\ \A i \in Id : [Nothing EXCEPT !.id = i]
         = [address |-> NoValue, password |-> NoValue, id |-> i, new |-> NoValue]
<1>1. Nothing \in Given
  BY DEF Nothing, Given
<1>2. ASSUME NEW a \in Address, NEW p \in Password
      PROVE  [Nothing EXCEPT !.address = a, !.password = p]
               = [address |-> a, password |-> p, id |-> NoValue, new |-> NoValue]
  <2>1. ASSUME NEW g \in Given
        PROVE  [g EXCEPT !.address = a, !.password = p]
                 = [address |-> a, password |-> p, id |-> g.id, new |-> g.new]
    <3>1. PICK x, y, z, w : g = [address |-> x, password |-> y, id |-> z, new |-> w]
      BY DEF Given
    <3>2. [[address |-> x, password |-> y, id |-> z, new |-> w] EXCEPT !.address = a]
            = [address |-> a, password |-> y, id |-> z, new |-> w]
      OBVIOUS
    <3>3. [[address |-> a, password |-> y, id |-> z, new |-> w] EXCEPT !.password = p]
            = [address |-> a, password |-> p, id |-> z, new |-> w]
      OBVIOUS
    <3>4. [[g EXCEPT !.address = a] EXCEPT !.password = p]
            = [address |-> a, password |-> p, id |-> z, new |-> w]
      BY <3>1, <3>2, <3>3, Zenon
    <3>5. [g EXCEPT !.address = a, !.password = p] = [[g EXCEPT !.address = a] EXCEPT !.password = p]
      OBVIOUS
    <3> QED
      BY <3>1, <3>4, <3>5
  <2>2. Nothing.id = NoValue /\ Nothing.new = NoValue
    BY DEF Nothing
  <2> QED
    BY <1>1, <2>1, <2>2, Zenon
<1>3. \A i : [Nothing EXCEPT !.id = i]
         = [address |-> NoValue, password |-> NoValue, id |-> i, new |-> NoValue]
  BY DEF Nothing
<1> QED
  BY <1>1, <1>2, <1>3

\* A request begins with the shape of its first step.
LEMMA BeginKeeps ==
  ASSUME IInv, NEW q \in Request, NEW s, NEW g, Begin(q, s, g),
         \/ /\ s \in {"exists", "find"}
            /\ \E a \in Address, p \in Password :
                 g = [address |-> a, password |-> p, id |-> NoValue, new |-> NoValue]
         \/ /\ s \in {"refresh", "guard"}
            /\ \E i \in Id :
                 g = [address |-> NoValue, password |-> NoValue, id |-> i, new |-> NoValue]
  PROVE  IInv'
<1>1. /\ step[q] = "idle" /\ step'[q] = s /\ given'[q] = g
      /\ found' = found /\ made' = made /\ tokens' = tokens /\ row' = row
      /\ StepOf(q) /\ Domains' /\ Watch
  BY DEF Begin, Goto, IInv, Domains, StepOf
<1>2. RequestInv(q)
  BY DEF IInv
<1>3. RequestTyped(q)'
  BY <1>1, <1>2 DEF RequestInv, RequestTyped, Step, Given
<1>4. Shape(q)'
  BY <1>1 DEF Shape
<1>5. Accounts(q)'
  BY <1>1, <1>2 DEF RequestInv, Accounts
<1>6. Sure(q)'
  BY <1>1 DEF Sure
<1>7. RequestInv(q)'
  BY <1>3, <1>4, <1>5, <1>6 DEF RequestInv
<1> QED
  BY <1>1, <1>7, RequestStep DEF IInv, RowsTyped

\* A request is refused, or ends.
LEMMA EndKeeps ==
  ASSUME IInv, NEW q \in Request,
         \/ step' = [step EXCEPT ![q] = "refused"] /\ UNCHANGED <<given, found, made>>
         \/ Close(q),
         UNCHANGED <<row, tokens>>, Watch
  PROVE  IInv'
<1>1. /\ \/ step'[q] = "refused" /\ given' = given /\ found' = found /\ made' = made
         \/ /\ step'[q] = "idle" /\ given'[q] = Nothing
            /\ found'[q] = NoValue /\ made'[q] = NoValue
      /\ StepOf(q) /\ Domains'
  BY DEF Close, Goto, IInv, Domains, StepOf
<1>2. RequestInv(q)
  BY DEF IInv
<1>3. RequestTyped(q)'
  BY <1>1, <1>2, GivenTyped DEF RequestInv, RequestTyped, Step
<1>4. Shape(q)' /\ Sure(q)'
  BY <1>1 DEF Shape, Sure
<1>5. Accounts(q)'
  BY <1>1, <1>2 DEF RequestInv, Accounts, Exists
<1>6. RequestInv(q)'
  BY <1>3, <1>4, <1>5 DEF RequestInv
<1> QED
  BY <1>1, <1>6, RequestStep DEF IInv, RowsTyped

\* The check for the address: refused, or on to the save.
LEMMA CheckExistsKeeps ==
  ASSUME IInv, NEW q \in Request, CheckExists(q)
  PROVE  IInv'
<1>1. CASE step' = [step EXCEPT ![q] = "refused"]
  BY <1>1, EndKeeps DEF CheckExists
<1>2. CASE step' = [step EXCEPT ![q] = "save"]
  <2>1. /\ step[q] = "exists" /\ step'[q] = "save"
        /\ given' = given /\ found' = found /\ made' = made /\ row' = row
        /\ StepOf(q) /\ Domains' /\ Watch /\ tokens' = tokens
    BY <1>2 DEF CheckExists, IInv, Domains, StepOf
  <2>2. RequestInv(q)
    BY DEF IInv
  <2>3. RequestInv(q)'
    BY <2>1, <2>2 DEF RequestInv, RequestTyped, Step, Shape, Accounts, Exists, Sure
  <2> QED
    BY <2>1, <2>3, RequestStep DEF IInv, RowsTyped
<1> QED
  BY <1>1, <1>2 DEF CheckExists, Goto

\* The unique index: a row is inserted under a free id, for an address nobody
\* has.
LEMMA SaveUserKeeps ==
  ASSUME IInv, NEW q \in Request, SaveUser(q)
  PROVE  IInv'
<1> DEFINE email == Lower(given[q].address)
<1>1. CASE ~ InsertAllowed(email)
  <2>1. step' = [step EXCEPT ![q] = "refused"] /\ UNCHANGED <<row, tokens, given, found, made>> /\ Watch
    BY <1>1 DEF SaveUser, Goto
  <2> QED
    BY <2>1, EndKeeps
<1>2. CASE InsertAllowed(email)
  <2>1. PICK i \in Id :
          /\ ~ Exists(i)
          /\ row' = [row EXCEPT ![i] =
               [email |-> email, password |-> given[q].password, active |-> TRUE]]
          /\ made' = [made EXCEPT ![q] = i]
          /\ step' = [step EXCEPT ![q] = "find"]
    BY <1>2 DEF SaveUser, Goto
  <2>2. /\ step[q] = "save" /\ step'[q] = "find" /\ made'[q] = i
        /\ given' = given /\ found' = found /\ tokens' = tokens
        /\ StepOf(q) /\ Domains' /\ Watch
    BY <2>1 DEF SaveUser, IInv, Domains, StepOf
  <2>3. RequestInv(q) /\ given[q].address \in Address /\ given[q].password \in Password
    BY <2>2 DEF IInv, RequestInv, Shape
  <2>4. [email |-> email, password |-> given[q].password, active |-> TRUE] \in Row
    BY <2>3 DEF Row, Email
  <2>5. /\ row'[i] \in Row /\ row'[i].email = email
        /\ \A j \in Id : j # i => row'[j] = row[j]
        /\ row' \in [Id -> Row \cup {NoValue}]
    BY <2>1, <2>4 DEF IInv, RowsTyped
  <2>6. RowsKept
    BY <2>1, <2>5 DEF RowsKept, Exists
  <2>7. Unique'
    <3>1. \A j \in Id : Exists(j) => row[j].email # email
      BY <1>2 DEF InsertAllowed, FindByEmail
    <3> QED
      BY <2>5, <3>1 DEF IInv, Unique, Exists
  <2>8. RequestInv(q)'
    <3>1. RequestTyped(q)' /\ Shape(q)' /\ Sure(q)'
      BY <2>2, <2>3 DEF RequestInv, RequestTyped, Step, Shape, Sure
    <3>2. Accounts(q)'
      BY <2>2, <2>3, <2>5, NoValueIsNone DEF Accounts, Exists
    <3> QED
      BY <3>1, <3>2 DEF RequestInv
  <2>9. \A p \in Request : RequestInv(p)'
    <3> SUFFICES ASSUME NEW p \in Request PROVE RequestInv(p)'
      OBVIOUS
    <3>1. CASE p = q
      BY <2>8, <3>1
    <3>2. CASE p # q
      BY <2>2, <2>6, <3>2, OthersKeep DEF IInv, StepOf
    <3> QED
      BY <3>1, <3>2
  <2> QED
    BY <2>2, <2>5, <2>7, <2>9 DEF IInv, RowsTyped
<1> QED
  BY <1>1, <1>2

-----------------------------------------------------------------------------
(* Login, refresh and the guarded routes.                                  *)

\* A login finds the row of the address; it is justified then if the password
\* is the row's.
LEMMA FindUserKeeps ==
  ASSUME IInv, NEW q \in Request, FindUser(q)
  PROVE  IInv'
<1>1. CASE step' = [step EXCEPT ![q] = "refused"] /\ UNCHANGED found
  BY <1>1, EndKeeps DEF FindUser
<1>2. ASSUME NEW i \in FindByEmail(Lower(given[q].address)), LoginAllowed(i),
             found' = [found EXCEPT ![q] = [id |-> i, password |-> row[i].password]],
             step' = [step EXCEPT ![q] = "sign"]
      PROVE  IInv'
  <2>1. /\ step[q] = "find" /\ step'[q] = "sign"
        /\ found'[q] = [id |-> i, password |-> row[i].password]
        /\ given' = given /\ made' = made /\ row' = row /\ tokens' = tokens
        /\ StepOf(q) /\ Domains' /\ Watch
    BY <1>2 DEF FindUser, IInv, Domains, StepOf
  <2>2. RequestInv(q) /\ given[q].address \in Address
        /\ given[q].id = NoValue /\ given[q].new = NoValue
    BY <2>1 DEF IInv, RequestInv, Shape
  <2>3. /\ i \in Id /\ row[i] # NoValue /\ row[i].email = Lower(given[q].address)
        /\ row[i] \in Row /\ row[i].active
    BY <1>2 DEF FindByEmail, LoginAllowed, Exists, IInv, RowsTyped
  <2>4. RequestTyped(q)' /\ Shape(q)'
    BY <2>1, <2>2, <2>3 DEF RequestInv, RequestTyped, Step, Shape, Row
  <2>5. Accounts(q)'
    BY <2>1, <2>2, <2>3, NoValueIsNone DEF RequestInv, Accounts, Exists, Row
  <2>6. given[q].password \in {NoValue, row[i].password} => JustifiedNow(given'[q], row')
    BY <2>1, <2>2, <2>3, Zenon DEF JustifiedNow, Justified
  <2>7. given[q].password \in {NoValue, row[i].password} => was'[q]
    BY <2>1, <2>6, Watched
  <2>8. Sure(q)'
    BY <2>1, <2>7 DEF Sure
  <2>9. RequestInv(q)'
    BY <2>4, <2>5, <2>8 DEF RequestInv
  <2> QED
    BY <2>1, <2>9, RequestStep DEF IInv, RowsTyped
<1> QED
  BY <1>1, <1>2 DEF FindUser, Goto

\* A refresh finds the account of its token active.
LEMMA FindUserToRefreshKeeps ==
  ASSUME IInv, NEW q \in Request, FindUserToRefresh(q)
  PROVE  IInv'
<1> DEFINE i == given[q].id
<1>1. CASE step' = [step EXCEPT ![q] = "refused"] /\ UNCHANGED found
  BY <1>1, EndKeeps DEF FindUserToRefresh
<1>2. CASE /\ Exists(i) /\ row[i].active
           /\ found' = [found EXCEPT ![q] = [id |-> i, password |-> row[i].password]]
           /\ step' = [step EXCEPT ![q] = "sign"]
  <2>1. /\ step[q] = "refresh" /\ step'[q] = "sign"
        /\ found'[q] = [id |-> i, password |-> row[i].password]
        /\ given' = given /\ made' = made /\ row' = row /\ tokens' = tokens
        /\ StepOf(q) /\ Domains' /\ Watch
    BY <1>2 DEF FindUserToRefresh, IInv, Domains, StepOf
  <2>2. RequestInv(q) /\ given[q].address = NoValue /\ given[q].password = NoValue
        /\ i \in Id /\ given[q].new = NoValue
    BY <2>1 DEF IInv, RequestInv, Shape
  <2>3. row[i] # NoValue /\ row[i] \in Row /\ row[i].active
    BY <1>2, <2>2 DEF Exists, IInv, RowsTyped
  <2>4. RequestTyped(q)' /\ Shape(q)'
    BY <2>1, <2>2, <2>3 DEF RequestInv, RequestTyped, Step, Shape, Row
  <2>5. Accounts(q)'
    BY <2>1, <2>2, <2>3, NoValueIsNone DEF RequestInv, Accounts, Exists, Row
  <2>6. JustifiedNow(given'[q], row')
    BY <2>1, <2>2, <2>3, Zenon DEF JustifiedNow, Justified
  <2>7. Sure(q)'
    BY <2>1, <2>6, Watched DEF Sure
  <2>8. RequestInv(q)'
    BY <2>4, <2>5, <2>7 DEF RequestInv
  <2> QED
    BY <2>1, <2>8, RequestStep DEF IInv, RowsTyped
<1> QED
  BY <1>1, <1>2 DEF FindUserToRefresh, Goto

\* The tokens are signed for the account found, if the password was its.
LEMMA SignTokensKeeps ==
  ASSUME IInv, NEW q \in Request, SignTokens(q)
  PROVE  IInv'
<1>1. CASE step' = [step EXCEPT ![q] = "refused"] /\ UNCHANGED tokens
  BY <1>1, EndKeeps DEF SignTokens
<1>2. CASE /\ given[q].password \in {NoValue, found[q].password}
           /\ tokens' = tokens \cup Pair(found[q].id)
           /\ step' = [step EXCEPT ![q] = "tokens"]
  <2>1. /\ step[q] = "sign" /\ step'[q] = "tokens"
        /\ found' = found /\ given' = given /\ made' = made /\ row' = row
        /\ StepOf(q) /\ Domains' /\ Watch
    BY <1>2 DEF SignTokens, IInv, Domains, StepOf
  <2>2. RequestInv(q) /\ was[q] /\ found[q].id \in Id
    BY <1>2, <2>1 DEF IInv, RequestInv, RequestTyped, Accounts, Sure
  <2>3. RequestTyped(q)' /\ Shape(q)' /\ Accounts(q)'
    BY <2>1, <2>2 DEF RequestInv, RequestTyped, Step, Shape, Accounts, Exists
  <2>4. Sure(q)'
    BY <2>1, <2>2, Watched DEF Sure
  <2>5. RequestInv(q)'
    BY <2>3, <2>4 DEF RequestInv
  <2>6. \A t \in tokens' : t.sub \in Id
    BY <1>2, <2>2 DEF IInv, RowsTyped, Pair
  <2> QED
    BY <2>1, <2>5, <2>6, RequestStep
<1> QED
  BY <1>1, <1>2 DEF SignTokens, Goto

\* The guard admits who has an active account now.
LEMMA GuardKeeps ==
  ASSUME IInv, NEW q \in Request, Guard(q)
  PROVE  IInv'
<1>1. CASE step' = [step EXCEPT ![q] = "refused"]
  BY <1>1, EndKeeps DEF Guard
<1>2. CASE /\ Exists(given[q].id) /\ row[given[q].id].active
           /\ step' = [step EXCEPT ![q] = "admitted"]
  <2>1. /\ step[q] = "guard" /\ step'[q] = "admitted"
        /\ found' = found /\ given' = given /\ made' = made /\ row' = row /\ tokens' = tokens
        /\ StepOf(q) /\ Domains' /\ Watch
    BY <1>2 DEF Guard, IInv, Domains, StepOf
  <2>2. RequestInv(q) /\ given[q].address = NoValue /\ given[q].password = NoValue
        /\ given[q].id \in Id /\ given[q].new = NoValue
    BY <2>1 DEF IInv, RequestInv, Shape
  <2>3. RequestTyped(q)' /\ Shape(q)' /\ Accounts(q)'
    BY <1>2, <2>1, <2>2 DEF RequestInv, RequestTyped, Step, Shape, Accounts, Exists
  <2>4. JustifiedNow(given'[q], row')
    BY <1>2, <2>1, <2>2, Zenon DEF JustifiedNow, Justified, Exists
  <2>5. Sure(q)'
    BY <2>1, <2>4, Watched DEF Sure
  <2>6. RequestInv(q)'
    BY <2>3, <2>5 DEF RequestInv
  <2> QED
    BY <2>1, <2>6, RequestStep DEF IInv, RowsTyped
<1> QED
  BY <1>1, <1>2 DEF Guard, Goto

\* An API key for who was admitted.
LEMMA GenerateApiKeyKeeps ==
  ASSUME IInv, NEW q \in Request, GenerateApiKey(q)
  PROVE  IInv'
<1>1. /\ step[q] = "admitted" /\ step'[q] = "key"
      /\ found' = found /\ given' = given /\ made' = made /\ row' = row
      /\ tokens' = tokens \cup {[kind |-> "api", sub |-> given[q].id]}
      /\ StepOf(q) /\ Domains' /\ Watch
  BY DEF GenerateApiKey, Goto, IInv, Domains, StepOf
<1>2. RequestInv(q) /\ was[q] /\ given[q].id \in Id
  BY <1>1 DEF IInv, RequestInv, Shape, Sure
<1>3. RequestTyped(q)' /\ Shape(q)' /\ Accounts(q)'
  BY <1>1, <1>2 DEF RequestInv, RequestTyped, Step, Shape, Accounts, Exists
<1>4. Sure(q)'
  BY <1>1, <1>2, Watched DEF Sure
<1>5. RequestInv(q)'
  BY <1>3, <1>4 DEF RequestInv
<1>6. \A t \in tokens' : t.sub \in Id
  BY <1>1, <1>2 DEF IInv, RowsTyped
<1> QED
  BY <1>1, <1>5, <1>6, RequestStep

\* A password change begins.
LEMMA BeginChangeKeeps ==
  ASSUME IInv, NEW q \in Request, BeginChange(q)
  PROVE  IInv'
<1>1. PICK p \in Password, new \in Strong :
        given' = [given EXCEPT ![q] = [given[q] EXCEPT !.password = p, !.new = new]]
  BY DEF BeginChange
<1>2. /\ step[q] = "admitted" /\ step'[q] = "readOwn"
      /\ given'[q] = [given[q] EXCEPT !.password = p, !.new = new]
      /\ found' = found /\ made' = made /\ row' = row /\ tokens' = tokens
      /\ StepOf(q) /\ Domains' /\ Watch
  BY <1>1 DEF BeginChange, Goto, IInv, Domains, StepOf
<1>3. /\ RequestInv(q) /\ given[q] \in Given
      /\ given[q].address = NoValue /\ given[q].id \in Id /\ Exists(given[q].id)
  BY <1>2 DEF IInv, RequestInv, RequestTyped, Shape
<1>4. given'[q] = [address |-> NoValue, password |-> p, id |-> given[q].id, new |-> new]
  BY <1>2, <1>3 DEF Given
<1>5. RequestTyped(q)' /\ Shape(q)' /\ Sure(q)'
  BY <1>2, <1>3, <1>4, NoValueIsNone
  DEF RequestInv, RequestTyped, Step, Given, Shape, Exists, Sure
<1>6. Accounts(q)'
  BY <1>2, <1>3, NoValueIsNone DEF RequestInv, Accounts
<1>7. RequestInv(q)'
  BY <1>5, <1>6 DEF RequestInv
<1> QED
  BY <1>2, <1>7, RequestStep DEF IInv, RowsTyped

\* The old password is the row's now: the change is justified.
LEMMA ReadOwnKeeps ==
  ASSUME IInv, NEW q \in Request, ReadOwn(q)
  PROVE  IInv'
<1>1. CASE step' = [step EXCEPT ![q] = "refused"]
  BY <1>1, EndKeeps DEF ReadOwn
<1>2. CASE /\ row[given[q].id].password = given[q].password
           /\ step' = [step EXCEPT ![q] = "change"]
  <2>1. /\ step[q] = "readOwn" /\ step'[q] = "change"
        /\ found' = found /\ given' = given /\ made' = made /\ row' = row /\ tokens' = tokens
        /\ StepOf(q) /\ Domains' /\ Watch
    BY <1>2 DEF ReadOwn, IInv, Domains, StepOf
  <2>2. /\ RequestInv(q) /\ given[q].address = NoValue /\ given[q].id \in Id
        /\ given[q].new \in Password /\ Exists(given[q].id)
    BY <2>1 DEF IInv, RequestInv, Shape
  <2>3. RequestTyped(q)' /\ Shape(q)' /\ Accounts(q)'
    BY <2>1, <2>2 DEF RequestInv, RequestTyped, Step, Shape, Accounts, Exists
  <2>4. given[q].new # NoValue
    BY <2>2, NoValueIsNone
  <2>5. JustifiedNow(given'[q], row')
    BY <1>2, <2>1, <2>2, <2>4, Zenon DEF JustifiedNow, Justified, Exists
  <2>6. Sure(q)'
    BY <2>1, <2>5, Watched DEF Sure
  <2>7. RequestInv(q)'
    BY <2>3, <2>6 DEF RequestInv
  <2> QED
    BY <2>1, <2>7, RequestStep DEF IInv, RowsTyped
<1> QED
  BY <1>1, <1>2 DEF ReadOwn, Goto

\* A column of a row is written that is not its e-mail.
LEMMA RowWritten ==
  ASSUME IInv, NEW i \in Id, Exists(i), NEW r \in Row, r.email = row[i].email,
         row' = [row EXCEPT ![i] = r], UNCHANGED tokens
  PROVE  RowsTyped' /\ RowsKept /\ Unique'
<1>1. /\ row'[i] = r /\ \A j \in Id : j # i => row'[j] = row[j]
      /\ row' \in [Id -> Row \cup {NoValue}]
  BY DEF IInv, RowsTyped
<1>2. RowsTyped'
  BY <1>1 DEF IInv, RowsTyped
<1>3. RowsKept
  BY <1>1, NoValueIsNone DEF RowsKept, Exists
<1>4. \A j \in Id : (Exists(j))' => Exists(j) /\ row'[j].email = row[j].email
  BY <1>1 DEF Exists
<1>5. Unique'
  BY <1>4 DEF IInv, Unique, Exists
<1> QED
  BY <1>2, <1>3, <1>5

\* The new password is written.
LEMMA ChangePasswordKeeps ==
  ASSUME IInv, NEW q \in Request, ChangePassword(q)
  PROVE  IInv'
<1> DEFINE i == given[q].id
           r == [row[i] EXCEPT !.password = given[q].new]
<1>1. /\ step[q] = "change" /\ step'[q] = "changed" /\ row' = [row EXCEPT ![i] = r]
      /\ found' = found /\ given' = given /\ made' = made /\ tokens' = tokens
      /\ StepOf(q) /\ Domains' /\ Watch
  BY DEF ChangePassword, Goto, IInv, Domains, StepOf
<1>2. /\ RequestInv(q) /\ was[q] /\ i \in Id /\ given[q].new \in Password /\ Exists(i)
  BY <1>1 DEF IInv, RequestInv, Shape, Sure
<1>3. row[i] \in Row
  BY <1>2 DEF IInv, RowsTyped, Exists
<1>4. r \in Row /\ r.email = row[i].email
  BY <1>2, <1>3 DEF Row
<1>5. RowsTyped' /\ RowsKept /\ Unique'
  BY <1>1, <1>2, <1>4, RowWritten
<1>6. RequestTyped(q)' /\ Shape(q)'
  BY <1>1, <1>2 DEF RequestInv, RequestTyped, Step, Shape
<1>7. Accounts(q)'
  BY <1>1, <1>2, <1>5 DEF RequestInv, Accounts, Exists, RowsKept
<1>8. Sure(q)'
  BY <1>1, <1>2, Watched DEF Sure
<1>9. RequestInv(q)'
  BY <1>6, <1>7, <1>8 DEF RequestInv
<1>10. \A p \in Request : p # q => RequestInv(p)'
  BY <1>1, <1>5, OthersKeep DEF IInv, StepOf
<1> QED
  BY <1>1, <1>5, <1>9, <1>10 DEF IInv

\* An account is switched off or on.
LEMMA SetActiveKeeps ==
  ASSUME IInv, NEW i \in Id, SetActive(i)
  PROVE  IInv'
<1> DEFINE r == [row[i] EXCEPT !.active = ~ row[i].active]
<1>1. /\ Exists(i) /\ row' = [row EXCEPT ![i] = r] /\ tokens' = tokens /\ Watch
      /\ step' = step /\ given' = given /\ found' = found /\ made' = made
  BY DEF SetActive, request
<1>2. row[i] \in Row
  BY <1>1 DEF IInv, RowsTyped, Exists
<1>3. (~ row[i].active) \in BOOLEAN
  BY Zenon
<1>4. r \in Row /\ r.email = row[i].email
  BY <1>2, <1>3 DEF Row
<1>5. RowsTyped' /\ RowsKept /\ Unique'
  BY <1>1, <1>4, RowWritten
<1>6. \A p \in Request : RequestInv(p)'
  BY <1>1, <1>5, OthersKeep DEF IInv
<1> QED
  BY <1>1, <1>5, <1>6 DEF IInv, Domains

-----------------------------------------------------------------------------
(* The theorems.                                                           *)

LEMMA InitInvariant == Init => IInv
<1> SUFFICES ASSUME Init PROVE IInv
  OBVIOUS
<1>1. RowsTyped /\ Unique /\ Domains
  BY DEF Init, RowsTyped, Unique, Exists, Domains
<1>2. \A q \in Request : RequestInv(q)
  BY GivenTyped DEF Init, RequestInv, RequestTyped, Step, Shape, Accounts, Sure
<1> QED
  BY <1>1, <1>2 DEF IInv

LEMMA NextInvariant == IInv /\ [Next]_vars => IInv'
<1> SUFFICES ASSUME IInv, [Next]_vars PROVE IInv'
  OBVIOUS
<1>1. CASE UNCHANGED vars
  <2>1. /\ row' = row /\ tokens' = tokens /\ step' = step /\ given' = given
        /\ found' = found /\ made' = made /\ was' = was
    BY <1>1 DEF vars, request
  <2> QED
    BY <2>1 DEF IInv, RowsTyped, Unique, Exists, Domains, RequestInv, RequestTyped, Shape,
                Accounts, Sure
<1>2. ASSUME NEW q \in Request, BeginRegister(q) \/ BeginLogin(q) \/ BeginRefresh(q) \/ BeginGuarded(q)
      PROVE  IInv'
  <2>1. CASE BeginRegister(q) \/ BeginLogin(q)
    <3>1. PICK s \in {"exists", "find"}, a \in Address, p \in Password :
            Begin(q, s, [Nothing EXCEPT !.address = a, !.password = p])
      BY <2>1, Zenon DEF BeginRegister, BeginLogin
    <3>2. Begin(q, s, [address |-> a, password |-> p, id |-> NoValue, new |-> NoValue])
      BY <3>1, GivenTyped
    <3> QED
      BY <3>2, BeginKeeps
  <2>2. CASE BeginRefresh(q) \/ BeginGuarded(q)
    BY <2>2, GivenTyped, BeginKeeps DEF BeginRefresh, BeginGuarded, IInv, RowsTyped
  <2> QED
    BY <1>2, <2>1, <2>2
<1>3. ASSUME NEW q \in Request,
             CheckExists(q) \/ SaveUser(q) \/ FindUser(q) \/ FindUserToRefresh(q) \/ SignTokens(q)
      PROVE  IInv'
  BY <1>3, CheckExistsKeeps, SaveUserKeeps, FindUserKeeps, FindUserToRefreshKeeps, SignTokensKeeps
<1>4. ASSUME NEW q \in Request,
             Guard(q) \/ GenerateApiKey(q) \/ BeginChange(q) \/ ReadOwn(q) \/ ChangePassword(q)
      PROVE  IInv'
  BY <1>4, GuardKeeps, GenerateApiKeyKeeps, BeginChangeKeeps, ReadOwnKeeps, ChangePasswordKeeps
<1>5. ASSUME NEW q \in Request, Fail(q) \/ Close(q)
      PROVE  IInv'
  BY <1>5, EndKeeps DEF Fail, Close, Goto
<1>6. ASSUME NEW i \in Id, SetActive(i)
      PROVE  IInv'
  BY <1>6, SetActiveKeeps
<1> QED
  BY <1>1, <1>2, <1>3, <1>4, <1>5, <1>6 DEF Next

\* The inductive invariant: rows are told apart by their e-mail, a request has
\* the shape of the step it is at, and what it is sure of was justified.
THEOREM Invariance == Spec => []IInv
BY InitInvariant, NextInvariant, PTL DEF Spec

\* Registrations of one address, overlapping as they may, make one account, and
\* one that is answered with tokens made the account they are for.
THEOREM OneAccount == Spec => []OneAccountPerAddress
<1>1. IInv => OneAccountPerAddress
  <2> SUFFICES ASSUME IInv PROVE OneAccountPerAddress
    OBVIOUS
  <2>1. ASSUME NEW q \in Request, step[q] = "tokens", made[q] # NoValue
        PROVE  found[q].id = made[q]
    <3>1. RequestInv(q)
      BY DEF IInv
    <3>2. /\ Exists(found[q].id) /\ found[q].id \in Id
          /\ made[q] \in Id /\ Exists(made[q]) /\ row[made[q]].email = Lower(given[q].address)
          /\ given[q].address \in Address
      BY <2>1, <3>1 DEF RequestInv, RequestTyped, Accounts
    <3>3. row[found[q].id].email = Lower(given[q].address)
      BY <2>1, <3>1, <3>2, NoValueIsNone DEF RequestInv, Accounts
    <3> QED
      BY <3>2, <3>3 DEF IInv, Unique
  <2> QED
    BY <2>1 DEF OneAccountPerAddress, IInv, Unique
<1> QED
  BY <1>1, Invariance, PTL

\* Tokens, admissions, API keys and changed passwords go to requests that were
\* justified at a moment since they began.
THEOREM GrantsAreJustified == Spec => []GrantsJustified
<1>1. IInv => GrantsJustified
  BY DEF IInv, RequestInv, Sure, GrantsJustified
<1> QED
  BY <1>1, Invariance, PTL

=============================================================================
