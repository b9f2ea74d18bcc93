----------------------------- MODULE AlertCache -----------------------------
(***************************************************************************)
(* AlertConfigService over AlertConfigRepository, and the lists of active  *)
(* alerts CacheWarmingService puts into Redis.                             *)
(*                                                                         *)
(* A request on an alert is several statements: the alert is read, then    *)
(* written, then read again for the answer, with requests of other users,  *)
(* tabs and processes in between.  Every process warms the cache when it   *)
(* starts and every hour; the lists in it are dropped by their time to     *)
(* live and by nothing else.                                               *)
(***************************************************************************)
EXTENDS Naturals, FiniteSets

CONSTANTS
  Alert,      \* ids of rows of alert_configs
  User,
  Request,    \* bound: the requests made
  Process,    \* processes that warm the cache
  NoValue,    \* null
  Prices,     \* prices in drops
  Edits       \* bound: the bodies requests have

Field == {"active", "min", "max", "channels"}

\* channels stands for the answer of validateNotificationChannels.
Allowed(f) ==
  IF f = "active" THEN {TRUE, FALSE}
  ELSE IF f = "channels" THEN {"usable", "unusable"}
  ELSE Prices \cup {NoValue}

IsEdit(e) == /\ DOMAIN e \subseteq Field
             /\ \A f \in DOMAIN e : e[f] \in Allowed(f)

ASSUME CacheAssumption ==
  /\ Prices \subseteq Nat
  /\ NoValue \notin Nat
  /\ NoValue \notin Request \cup User
  /\ \A e \in Edits : IsEdit(e)

VARIABLES
  status,   \* per alert: unused, present or deleted
  owner,    \* per alert, user_id
  row,      \* per alert, the fields of its row
  at,       \* per request, where it stands
  target,   \* per request, its alert
  found,    \* per request, the fields of the alert it read
  change,   \* per request, the fields it names and the values it gives them
  last,     \* history: per alert and field, the request that last wrote it
  pc,       \* per process, where warmCache stands; "idle": not isWarming
  lists,    \* per process, the lists still to be put, by user
  cached    \* per user, the list in Redis

alerts   == <<status, owner, row, last>>
requests == <<at, target, found, change>>
warming  == <<pc, lists>>
vars     == <<alerts, requests, warming, cached>>

-----------------------------------------------------------------------------
(* What is stored and what is allowed.                                     *)

Present(a) == status[a] = "present"

IsRow(x) == /\ DOMAIN x = Field
            /\ \A f \in Field : x[f] \in Allowed(f)

NewRow == [f \in Field |-> IF f = "active" THEN TRUE
                           ELSE IF f = "channels" THEN "usable" ELSE NoValue]

\* The values a new row gets: no body of create names isActive.
CreatedRow(e) == [f \in Field |-> IF f # "active" /\ f \in DOMAIN e THEN e[f] ELSE NewRow[f]]

Names(e, f) == f \in DOMAIN e /\ e[f] # NoValue

\* A comparison that lets equal prices pass.
RangeAcceptedLoose(e) == Names(e, "min") /\ Names(e, "max") => e["min"] <= e["max"]

\* Only a body with both prices is compared, never a body with the row.
RangeAccepted(e) == Names(e, "min") /\ Names(e, "max") => e["min"] < e["max"]

ChannelsAccepted(e) == "channels" \in DOMAIN e => e["channels"] = "usable"

Accepted(e) == RangeAccepted(e) /\ ChannelsAccepted(e)

\* The row as saving the entity that was read would leave it.
UpdatedFromFound(r) ==
  [f \in Field |-> IF f \in DOMAIN change[r] THEN change[r][f] ELSE found[r][f]]

\* The row after repository.update: the fields named, the others as they are
\* in the table at that time.
Updated(r) ==
  [f \in Field |-> IF f \in DOMAIN change[r] THEN change[r][f] ELSE row[target[r]][f]]

Init ==
  /\ owner \in [Alert -> User \cup {NoValue}]
  /\ status = [a \in Alert |-> IF owner[a] = NoValue THEN "unused" ELSE "present"]
  /\ row = [a \in Alert |-> NewRow]
  /\ last = [a \in Alert |-> [f \in Field |-> NoValue]]
  /\ at = [r \in Request |-> "new"]
  /\ target = [r \in Request |-> NoValue]
  /\ found = [r \in Request |-> NewRow]
  /\ change = [r \in Request |-> <<>>]
  /\ pc = [p \in Process |-> "query"]
  /\ lists = [p \in Process |-> <<>>]
  /\ cached = [u \in User |-> NoValue]

-----------------------------------------------------------------------------
(* Requests.                                                               *)

\* The request has its answer, and what it had read goes with it.
Answered(r) ==
  /\ at' = [at EXCEPT ![r] = "done"]
  /\ target' = [target EXCEPT ![r] = NoValue]
  /\ found' = [found EXCEPT ![r] = NewRow]

\* create: checked, then saved under a new id.  Not accepted, nothing happens.
Create(r) ==
  /\ at[r] = "new"
  /\ \E a \in Alert, u \in User, e \in Edits :
       /\ status[a] = "unused"
       /\ "channels" \in DOMAIN e
       /\ Accepted(e)
       /\ status' = [status EXCEPT ![a] = "present"]
       /\ owner' = [owner EXCEPT ![a] = u]
       /\ row' = [row EXCEPT ![a] = CreatedRow(e)]
       /\ change' = [change EXCEPT ![r] = CreatedRow(e)]
       /\ last' = [last EXCEPT ![a] = [f \in Field |-> r]]
  /\ Answered(r)
  /\ UNCHANGED <<warming, cached>>

\* The reading part of update, toggleActive and delete, which refuse an alert
\* that is absent or of another user.
FindAs(r, a, u, step, e) ==
  /\ at[r] = "new"
  /\ Present(a)
  /\ owner[a] = u
  /\ at' = [at EXCEPT ![r] = step]
  /\ target' = [target EXCEPT ![r] = a]
  /\ found' = [found EXCEPT ![r] = row[a]]
  /\ change' = [change EXCEPT ![r] = e]
  /\ UNCHANGED <<alerts, warming, cached>>

FindToUpdate(r) ==
  \E a \in Alert, u \in User, e \in Edits : Accepted(e) /\ FindAs(r, a, u, "update", e)

FindToToggle(r) ==
  \E a \in Alert, u \in User :
    FindAs(r, a, u, "update", [f \in {"active"} |-> ~ row[a]["active"]])

FindToDelete(r) == \E a \in Alert, u \in User : FindAs(r, a, u, "delete", <<>>)

\* The request is refused where it begins: not found, of another user, not
\* accepted.
Refuse(r) ==
  /\ at[r] = "new"
  /\ \/ \E a \in Alert, u \in User : ~ Present(a) \/ owner[a] # u
     \/ \E e \in Edits : ~ Accepted(e)
  /\ Answered(r)
  /\ UNCHANGED <<alerts, change, warming, cached>>

Update(r) ==
  /\ at[r] = "update"
  /\ Present(target[r])
  /\ row' = [row EXCEPT ![target[r]] = Updated(r)]
  /\ last' = [last EXCEPT ![target[r]] =
       [f \in Field |-> IF f \in DOMAIN change[r] THEN r ELSE last[target[r]][f]]]
  /\ Answered(r)
  /\ UNCHANGED <<status, owner, change, warming, cached>>

Delete(r) ==
  /\ at[r] = "delete"
  /\ Present(target[r])
  /\ status' = [status EXCEPT ![target[r]] = "deleted"]
  /\ Answered(r)
  /\ UNCHANGED <<owner, row, last, change, warming, cached>>

\* The alert is gone when it is to be written: no row is affected and the
\* request fails.  Or the process ends before the request does.
Fail(r) ==
  /\ at[r] \in {"update", "delete"}
  /\ Answered(r)
  /\ change' = [change EXCEPT ![r] = <<>>]
  /\ UNCHANGED <<alerts, warming, cached>>

-----------------------------------------------------------------------------
(* The cache.                                                              *)

ActiveOf(u) ==
  [a \in {b \in Alert : Present(b) /\ owner[b] = u /\ row[b]["active"]} |-> row[a]]

\* Users without an active alert do not appear among the lists.
ActiveLists ==
  [u \in {v \in User : \E a \in Alert : Present(a) /\ owner[a] = v /\ row[a]["active"]}
     |-> ActiveOf(u)]

\* warmCache by the hour; while isWarming it is left at once.
StartWarming(p) ==
  /\ pc[p] = "idle"
  /\ pc' = [pc EXCEPT ![p] = "query"]
  /\ UNCHANGED <<alerts, requests, lists, cached>>

QueryAlerts(p) ==
  /\ pc[p] = "query"
  /\ pc' = [pc EXCEPT ![p] = "put"]
  /\ lists' = [lists EXCEPT ![p] = ActiveLists]
  /\ UNCHANGED <<alerts, requests, cached>>

\* One list after the other, in the order of the query.
PutList(p) ==
  /\ pc[p] = "put"
  /\ \E u \in DOMAIN lists[p] :
       /\ cached' = [cached EXCEPT ![u] = lists[p][u]]
       /\ lists' = [lists EXCEPT ![p] = [v \in DOMAIN lists[p] \ {u} |-> lists[p][v]]]
  /\ UNCHANGED <<alerts, requests, pc>>

\* All lists are put, or the query or a put failed: either way the flag is
\* lowered, and the lists that were not put are as they were.
EndWarming(p) ==
  /\ pc[p] \in {"query", "put"}
  /\ pc' = [pc EXCEPT ![p] = "idle"]
  /\ lists' = [lists EXCEPT ![p] = <<>>]
  /\ UNCHANGED <<alerts, requests, cached>>

\* A process ends; the next one warms the cache as it starts.
Restart(p) ==
  /\ pc' = [pc EXCEPT ![p] = "query"]
  /\ lists' = [lists EXCEPT ![p] = <<>>]
  /\ UNCHANGED <<alerts, requests, cached>>

\* Entries put without a time to live.
ExpireNever(u) == FALSE /\ UNCHANGED vars

\* The time to live of an entry, five minutes, is over.
Expire(u) ==
  /\ cached[u] # NoValue
  /\ cached' = [cached EXCEPT ![u] = NoValue]
  /\ UNCHANGED <<alerts, requests, warming>>

Warm(p) == QueryAlerts(p) \/ PutList(p) \/ EndWarming(p)

Next ==
  \/ \E r \in Request :
       \/ Create(r) \/ FindToUpdate(r) \/ FindToToggle(r) \/ FindToDelete(r)
       \/ Refuse(r) \/ Update(r) \/ Delete(r) \/ Fail(r)
  \/ \E p \in Process : StartWarming(p) \/ Warm(p) \/ Restart(p)
  \/ \E u \in User : Expire(u)

\* What the code schedules: the statements of a warm-up follow each other, and
\* Redis drops an entry whose time is over.  Nothing is assumed of requests and
\* of the hourly timer.
Fairness ==
  /\ \A p \in Process : WF_vars(Warm(p))
  /\ \A u \in User : WF_vars(Expire(u))

Spec == Init /\ [][Next]_vars /\ Fairness

-----------------------------------------------------------------------------
(* Properties.                                                             *)

IsList(l) == /\ DOMAIN l \subseteq Alert
             /\ \A a \in DOMAIN l : IsRow(l[a]) /\ l[a]["active"]

AlertsTyped ==
  /\ status \in [Alert -> {"unused", "present", "deleted"}]
  /\ owner \in [Alert -> User \cup {NoValue}]
  /\ \A a \in Alert : Present(a) => owner[a] \in User
  /\ DOMAIN row = Alert /\ \A a \in Alert : IsRow(row[a])
  /\ last \in [Alert -> [Field -> Request \cup {NoValue}]]

RequestsTyped ==
  /\ at \in [Request -> {"new", "update", "delete", "done"}]
  /\ target \in [Request -> Alert \cup {NoValue}]
  /\ \A r \in Request : at[r] \in {"update", "delete"} => target[r] \in Alert
  /\ DOMAIN found = Request /\ \A r \in Request : IsRow(found[r])
  /\ DOMAIN change = Request /\ \A r \in Request : IsEdit(change[r])

CacheTyped ==
  /\ pc \in [Process -> {"idle", "query", "put"}]
  /\ DOMAIN lists = Process
  /\ \A p \in Process : /\ DOMAIN lists[p] \subseteq User
                       /\ \A u \in DOMAIN lists[p] : IsList(lists[p][u])
  /\ DOMAIN cached = User
  /\ \A u \in User : cached[u] # NoValue => IsList(cached[u])

\* The variables stay in their types: in particular rows keep one value of the
\* right kind per column, and lists hold rows of active alerts.
TypeOK == AlertsTyped /\ RequestsTyped /\ CacheTyped

\* No edit is undone by a request that did not name the field: every column
\* holds what the last request that named it gave it, whatever other requests
\* read the alert before and wrote it after (update, alert-config.service.ts;
\* partial update, alert-config.repository.ts).
EditsKept ==
  \A a \in Alert, f \in Field :
    last[a][f] # NoValue => /\ f \in DOMAIN change[last[a][f]]
                            /\ row[a][f] = change[last[a][f]][f]

\* The two prices of an alert were given by one request.
Together(a) == last[a]["min"] = last[a]["max"] /\ last[a]["min"] # NoValue

\* What one request put into an alert was acceptable: its channels are usable,
\* and two prices that came together are in order.  Nothing is said of prices
\* that came with different requests: the body is never compared with the row.
StoredIsAccepted ==
  \A a \in Alert :
    /\ row[a]["channels"] = "usable"
    /\ Together(a) /\ row[a]["min"] # NoValue /\ row[a]["max"] # NoValue
         => row[a]["min"] < row[a]["max"]

\* When edits cease, no list in Redis stays what the alerts of its user no
\* longer are: the lists read before are put or dropped, and a list nobody puts
\* any more, because its user has no active alert left, leaves by its time to
\* live.  Failed warm-ups, restarts and overlapping processes do not matter.
CacheCatchesUp == <>[](\A u \in User : cached[u] # NoValue => cached[u] = ActiveOf(u))

=============================================================================
