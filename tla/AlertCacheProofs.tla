--------------------------- MODULE AlertCacheProofs ---------------------------
(***************************************************************************)
(* Proofs about AlertCache, for any alerts, users, requests, processes,    *)
(* prices and bodies: the types, and that neither overlapping requests     *)
(* undo an edit nor a request that was not acceptable gets into a row.     *)
(***************************************************************************)
EXTENDS AlertCache, TLAPS

\* What is to be written was accepted when it was asked for.
PendingAccepted == \A r \in Request : at[r] = "update" => Accepted(change[r])

\* Whoever wrote a field last has its answer, so that nothing it asked for
\* changes any more.
WritersDone ==
  \A a \in Alert, f \in Field : last[a][f] # NoValue => at[last[a][f]] = "done"

IInv == TypeOK /\ PendingAccepted /\ WritersDone /\ EditsKept /\ StoredIsAccepted

-----------------------------------------------------------------------------
(* Rows and edits.                                                         *)

\* The columns are four, and a body is no more than some of them.
LEMMA EditTypes ==
  /\ \A e \in Edits : IsEdit(e)
  /\ IsEdit(<<>>)
  /\ NoValue \notin Request \cup User
BY CacheAssumption DEF IsEdit

\* The defaults of a row are values of their columns.
LEMMA NewRowTyped == IsRow(NewRow) /\ NewRow["channels"] = "usable"
<1>1. \A f \in Field : NewRow[f] \in Allowed(f)
  BY DEF NewRow, Allowed, Field
<1> QED
  BY <1>1 DEF IsRow, NewRow, Field

\* A row made of a body and the defaults is a row.
LEMMA CreatedRowTyped ==
  ASSUME NEW e, IsEdit(e)
  PROVE  /\ DOMAIN CreatedRow(e) = Field
         /\ \A f \in Field : CreatedRow(e)[f] =
              (IF f # "active" /\ f \in DOMAIN e THEN e[f] ELSE NewRow[f])
         /\ IsRow(CreatedRow(e))
         /\ IsEdit(CreatedRow(e))
<1>1. /\ DOMAIN CreatedRow(e) = Field
      /\ \A f \in Field : CreatedRow(e)[f] =
           (IF f # "active" /\ f \in DOMAIN e THEN e[f] ELSE NewRow[f])
  BY DEF CreatedRow
<1>2. \A f \in Field : CreatedRow(e)[f] \in Allowed(f)
  BY <1>1, NewRowTyped DEF IsEdit, IsRow
<1> QED
  BY <1>1, <1>2 DEF IsRow, IsEdit

\* An update replaces some columns of a row.
LEMMA UpdatedTyped ==
  ASSUME NEW r \in Request, IsEdit(change[r]), IsRow(row[target[r]])
  PROVE  /\ IsRow(Updated(r))
         /\ \A f \in Field : Updated(r)[f] =
              (IF f \in DOMAIN change[r] THEN change[r][f] ELSE row[target[r]][f])
BY DEF Updated, IsEdit, IsRow

\* A toggle names one column and gives it one of its values.
LEMMA ToggleTyped ==
  ASSUME NEW b
  PROVE  LET e == [f \in {"active"} |-> ~ b] IN IsEdit(e) /\ Accepted(e)
<1> DEFINE e == [f \in {"active"} |-> ~ b]
<1>1. DOMAIN e = {"active"}
  OBVIOUS
<1>2. e["active"] \in {TRUE, FALSE}
  OBVIOUS
<1>3. IsEdit(e)
  BY <1>1, <1>2 DEF IsEdit, Allowed, Field
<1>4. Accepted(e)
  BY <1>1 DEF Accepted, RangeAccepted, ChannelsAccepted, Names
<1> QED
  BY <1>3, <1>4

-----------------------------------------------------------------------------
(* Types.                                                                  *)

\* The initial states are typed.
LEMMA InitTyped == Init => TypeOK
<1> SUFFICES ASSUME Init PROVE TypeOK
  OBVIOUS
<1>1. AlertsTyped
  BY NewRowTyped DEF Init, AlertsTyped, Present
<1>2. RequestsTyped
  BY NewRowTyped, EditTypes DEF Init, RequestsTyped
<1>3. CacheTyped
  BY DEF Init, CacheTyped
<1> QED
  BY <1>1, <1>2, <1>3 DEF TypeOK

\* An answer keeps the types of what a request knows.
LEMMA AnsweredTyped ==
  ASSUME RequestsTyped, NEW r \in Request, Answered(r),
         DOMAIN change' = Request, \A q \in Request : IsEdit(change'[q])
  PROVE  RequestsTyped'
BY NewRowTyped DEF RequestsTyped, Answered

\* What is not touched keeps its type.
LEMMA UntouchedTyped ==
  /\ AlertsTyped /\ UNCHANGED alerts => AlertsTyped'
  /\ RequestsTyped /\ UNCHANGED requests => RequestsTyped'
  /\ CacheTyped /\ UNCHANGED <<warming, cached>> => CacheTyped'
BY DEF AlertsTyped, RequestsTyped, CacheTyped, Present, alerts, requests, warming

\* The new alert is a row, and its body stays one.
LEMMA CreateTyped ==
  ASSUME TypeOK, NEW r \in Request, Create(r)
  PROVE  TypeOK'
<1>1. PICK a \in Alert, u \in User, e \in Edits :
        /\ status' = [status EXCEPT ![a] = "present"]
        /\ owner' = [owner EXCEPT ![a] = u]
        /\ row' = [row EXCEPT ![a] = CreatedRow(e)]
        /\ change' = [change EXCEPT ![r] = CreatedRow(e)]
        /\ last' = [last EXCEPT ![a] = [f \in Field |-> r]]
  BY DEF Create
<1>2. IsRow(CreatedRow(e)) /\ IsEdit(CreatedRow(e))
  BY EditTypes, CreatedRowTyped
<1>3. AlertsTyped'
  BY <1>1, <1>2 DEF TypeOK, AlertsTyped, Present
<1>4. DOMAIN change' = Request /\ \A q \in Request : IsEdit(change'[q])
  BY <1>1, <1>2 DEF TypeOK, RequestsTyped
<1>5. RequestsTyped'
  BY <1>4, AnsweredTyped DEF Create, TypeOK
<1>6. CacheTyped'
  BY UntouchedTyped DEF Create, TypeOK
<1> QED
  BY <1>3, <1>5, <1>6 DEF TypeOK

\* What a request reads is a row, and what it is about to do is well formed.
LEMMA FindTyped ==
  ASSUME TypeOK, NEW r \in Request, NEW a \in Alert, NEW u \in User,
         NEW step \in {"update", "delete"}, NEW e, IsEdit(e), FindAs(r, a, u, step, e)
  PROVE  TypeOK'
<1>1. RequestsTyped'
  BY DEF FindAs, TypeOK, RequestsTyped, AlertsTyped
<1> QED
  BY <1>1, UntouchedTyped DEF FindAs, TypeOK

\* An update writes a row.
LEMMA UpdateTyped ==
  ASSUME TypeOK, NEW r \in Request, Update(r)
  PROVE  TypeOK'
<1>1. target[r] \in Alert /\ IsRow(Updated(r))
  BY UpdatedTyped DEF Update, TypeOK, RequestsTyped, AlertsTyped
<1>2. \A a \in Alert : IsRow(row'[a])
  BY <1>1 DEF Update, TypeOK, AlertsTyped
<1>3. last' \in [Alert -> [Field -> Request \cup {NoValue}]]
  BY <1>1 DEF Update, TypeOK, AlertsTyped
<1>4. AlertsTyped'
  BY <1>1, <1>2, <1>3 DEF Update, TypeOK, AlertsTyped, Present
<1>5. RequestsTyped'
  BY AnsweredTyped DEF Update, TypeOK, RequestsTyped
<1> QED
  BY <1>4, <1>5, UntouchedTyped DEF Update, TypeOK

\* The lists that are read have rows of active alerts.
LEMMA ListsTyped ==
  ASSUME TypeOK
  PROVE  /\ DOMAIN ActiveLists \subseteq User
         /\ \A u \in DOMAIN ActiveLists : IsList(ActiveLists[u])
<1>1. \A u \in User : IsList(ActiveOf(u))
  <2> SUFFICES ASSUME NEW u \in User PROVE IsList(ActiveOf(u))
    OBVIOUS
  <2>1. DOMAIN ActiveOf(u) \subseteq Alert
    BY DEF ActiveOf
  <2>2. \A a \in DOMAIN ActiveOf(u) : ActiveOf(u)[a] = row[a] /\ row[a]["active"]
    BY DEF ActiveOf
  <2> QED
    BY <2>1, <2>2 DEF IsList, TypeOK, AlertsTyped
<1> QED
  BY <1>1 DEF ActiveLists

\* Every step keeps the types.
LEMMA NextTyped ==
  ASSUME TypeOK, [Next]_vars
  PROVE  TypeOK'
<1>1. CASE \E r \in Request : Create(r)
  BY <1>1, CreateTyped
<1>2. ASSUME NEW r \in Request, FindToUpdate(r) PROVE TypeOK'
  BY <1>2, EditTypes, FindTyped DEF FindToUpdate
<1>3. ASSUME NEW r \in Request, FindToToggle(r) PROVE TypeOK'
  <2>1. PICK a \in Alert, u \in User :
          FindAs(r, a, u, "update", [f \in {"active"} |-> ~ row[a]["active"]])
    BY <1>3 DEF FindToToggle
  <2>2. IsEdit([f \in {"active"} |-> ~ row[a]["active"]])
    BY ToggleTyped
  <2> QED
    BY <2>1, <2>2, FindTyped
<1>4. ASSUME NEW r \in Request, FindToDelete(r) PROVE TypeOK'
  BY <1>4, EditTypes, FindTyped DEF FindToDelete
<1>5. ASSUME NEW r \in Request, Refuse(r) PROVE TypeOK'
  <2>1. RequestsTyped'
    BY <1>5, AnsweredTyped DEF Refuse, TypeOK, RequestsTyped
  <2> QED
    BY <1>5, <2>1, UntouchedTyped DEF Refuse, TypeOK
<1>6. CASE \E r \in Request : Update(r)
  BY <1>6, UpdateTyped
<1>7. ASSUME NEW r \in Request, Delete(r) PROVE TypeOK'
  <2>1. RequestsTyped'
    BY <1>7, AnsweredTyped DEF Delete, TypeOK, RequestsTyped
  <2>2. AlertsTyped'
    BY <1>7 DEF Delete, TypeOK, AlertsTyped, Present
  <2> QED
    BY <1>7, <2>1, <2>2, UntouchedTyped DEF Delete, TypeOK
<1>8. ASSUME NEW r \in Request, Fail(r) PROVE TypeOK'
  <2>1. RequestsTyped'
    BY <1>8, AnsweredTyped, EditTypes DEF Fail, TypeOK, RequestsTyped
  <2> QED
    BY <1>8, <2>1, UntouchedTyped DEF Fail, TypeOK
<1>9. ASSUME NEW p \in Process, StartWarming(p) \/ EndWarming(p) \/ Restart(p)
      PROVE  TypeOK'
  <2>1. CacheTyped'
    BY <1>9 DEF StartWarming, EndWarming, Restart, TypeOK, CacheTyped, IsList
  <2> QED
    BY <1>9, <2>1, UntouchedTyped DEF StartWarming, EndWarming, Restart, TypeOK
<1>10. ASSUME NEW p \in Process, QueryAlerts(p) PROVE TypeOK'
  <2>1. CacheTyped'
    BY <1>10, ListsTyped DEF QueryAlerts, TypeOK, CacheTyped, IsList
  <2> QED
    BY <1>10, <2>1, UntouchedTyped DEF QueryAlerts, TypeOK
<1>11. ASSUME NEW p \in Process, PutList(p) PROVE TypeOK'
  <2>1. PICK u \in DOMAIN lists[p] :
          /\ cached' = [cached EXCEPT ![u] = lists[p][u]]
          /\ lists' = [lists EXCEPT ![p] = [v \in DOMAIN lists[p] \ {u} |-> lists[p][v]]]
    BY <1>11 DEF PutList
  <2>2. CacheTyped'
    BY <1>11, <2>1 DEF PutList, TypeOK, CacheTyped, IsList
  <2> QED
    BY <1>11, <2>2, UntouchedTyped DEF PutList, TypeOK
<1>12. ASSUME NEW u \in User, Expire(u) PROVE TypeOK'
  <2>1. CacheTyped'
    BY <1>12 DEF Expire, warming, TypeOK, CacheTyped, IsList
  <2> QED
    BY <1>12, <2>1, UntouchedTyped DEF Expire, TypeOK
<1>13. CASE UNCHANGED vars
  BY <1>13, UntouchedTyped DEF vars, TypeOK
<1> QED
  BY <1>1, <1>2, <1>3, <1>4, <1>5, <1>6, <1>7, <1>8, <1>9, <1>10, <1>11, <1>12, <1>13
     DEF Next, Warm

-----------------------------------------------------------------------------
(* Writers and what they wrote.                                            *)

\* The parts of the invariant beside the types.
Deep == PendingAccepted /\ WritersDone /\ EditsKept /\ StoredIsAccepted

\* The invariant holds at the start: nothing is written, nothing is pending.
LEMMA InitInvariant == Init => IInv
<1> SUFFICES ASSUME Init PROVE IInv
  OBVIOUS
<1>1. PendingAccepted /\ WritersDone /\ EditsKept
  BY DEF Init, PendingAccepted, WritersDone, EditsKept
<1>2. StoredIsAccepted
  BY NewRowTyped DEF Init, StoredIsAccepted, Together, Field
<1> QED
  BY <1>1, <1>2, InitTyped DEF IInv

\* A step that leaves the alerts alone, and of the requests only some that have
\* no answer yet, can disturb nothing but what is pending.
LEMMA AlertsUntouched ==
  ASSUME IInv, UNCHANGED <<row, last>>,
         \A q \in Request : at[q] = "done" => at'[q] = "done" /\ change'[q] = change[q],
         PendingAccepted'
  PROVE  Deep'
<1>1. \A a \in Alert, f \in Field : last[a][f] # NoValue =>
        /\ last[a][f] \in Request
        /\ at'[last[a][f]] = "done" /\ change'[last[a][f]] = change[last[a][f]]
  BY DEF IInv, TypeOK, AlertsTyped, WritersDone
<1>2. WritersDone' /\ EditsKept'
  BY <1>1 DEF IInv, WritersDone, EditsKept
<1>3. StoredIsAccepted'
  BY DEF IInv, StoredIsAccepted, Together
<1> QED
  BY <1>2, <1>3 DEF Deep

\* A request is answered: only what other requests have pending is left.
LEMMA AnsweredFacts ==
  ASSUME RequestsTyped, NEW r \in Request, Answered(r)
  PROVE  /\ at'[r] = "done"
         /\ \A q \in Request : q # r => at'[q] = at[q]
         /\ \A q \in Request : at'[q] = "update" => q # r /\ at[q] = "update"
BY DEF RequestsTyped, Answered

\* Creation: the writer of all columns is the request, which is done.
LEMMA CreateKeeps ==
  ASSUME IInv, NEW r \in Request, Create(r)
  PROVE  Deep'
<1>1. PICK b \in Alert, e \in Edits :
        /\ "channels" \in DOMAIN e
        /\ Accepted(e)
        /\ row' = [row EXCEPT ![b] = CreatedRow(e)]
        /\ change' = [change EXCEPT ![r] = CreatedRow(e)]
        /\ last' = [last EXCEPT ![b] = [f \in Field |-> r]]
  BY DEF Create
<1>2. /\ at[r] = "new" /\ at'[r] = "done"
      /\ \A q \in Request : q # r => at'[q] = at[q] /\ change'[q] = change[q]
      /\ \A q \in Request : at'[q] = "update" => q # r /\ at[q] = "update"
      /\ change'[r] = CreatedRow(e)
  BY <1>1, AnsweredFacts DEF Create, IInv, TypeOK, RequestsTyped
<1>3. /\ row'[b] = CreatedRow(e) /\ \A f \in Field : last'[b][f] = r
      /\ \A a \in Alert : a # b => row'[a] = row[a] /\ last'[a] = last[a]
  BY <1>1 DEF IInv, TypeOK, AlertsTyped
<1>4. IsEdit(e) /\ r # NoValue
  BY EditTypes
<1>5. \A a \in Alert, f \in Field : last[a][f] # NoValue =>
        last[a][f] \in Request /\ last[a][f] # r
  BY <1>2 DEF IInv, WritersDone, TypeOK, AlertsTyped
<1>6. PendingAccepted'
  BY <1>2 DEF IInv, PendingAccepted
<1>7. WritersDone'
  BY <1>2, <1>3, <1>5 DEF IInv, WritersDone
<1>8. EditsKept'
  <2> SUFFICES ASSUME NEW a \in Alert, NEW f \in Field, last'[a][f] # NoValue
               PROVE  /\ f \in DOMAIN change'[last'[a][f]]
                      /\ row'[a][f] = change'[last'[a][f]][f]
    BY DEF EditsKept
  <2>1. CASE a = b
    BY <1>2, <1>3, <1>4, <2>1, CreatedRowTyped
  <2>2. CASE a # b
    BY <1>2, <1>3, <1>5, <2>2 DEF IInv, EditsKept
  <2> QED
    BY <2>1, <2>2
<1>9. StoredIsAccepted'
  <2>1. /\ CreatedRow(e)["channels"] = "usable"
        /\ CreatedRow(e)["min"] # NoValue /\ CreatedRow(e)["max"] # NoValue
             => CreatedRow(e)["min"] < CreatedRow(e)["max"]
    <3>1. {"min", "max", "channels"} \subseteq Field /\ NewRow["min"] = NoValue /\ NewRow["max"] = NoValue
      BY DEF Field, NewRow
    <3> QED
      BY <1>1, <1>4, <3>1, CreatedRowTyped
         DEF Accepted, RangeAccepted, ChannelsAccepted, Names
  <2>2. \A a \in Alert : a # b => (Together(a)' <=> Together(a))
    BY <1>3 DEF Together
  <2> QED
    BY <1>3, <2>1, <2>2 DEF IInv, StoredIsAccepted
<1> QED
  BY <1>6, <1>7, <1>8, <1>9 DEF Deep

\* An update writes the columns it names, as it was accepted; the two prices
\* have one writer afterwards only if it named both or they had one before.
LEMMA UpdateKeeps ==
  ASSUME IInv, NEW r \in Request, Update(r)
  PROVE  Deep'
<1> DEFINE b == target[r]
<1>1. b \in Alert /\ Accepted(change[r]) /\ IsEdit(change[r]) /\ r # NoValue
  BY EditTypes DEF Update, IInv, TypeOK, RequestsTyped, PendingAccepted
<1>2. /\ at[r] = "update" /\ at'[r] = "done" /\ change' = change
      /\ \A q \in Request : q # r => at'[q] = at[q]
      /\ \A q \in Request : at'[q] = "update" => q # r /\ at[q] = "update"
  BY AnsweredFacts DEF Update, IInv, TypeOK
<1>3. /\ \A f \in Field : row'[b][f] = (IF f \in DOMAIN change[r] THEN change[r][f] ELSE row[b][f])
      /\ \A f \in Field : last'[b][f] = (IF f \in DOMAIN change[r] THEN r ELSE last[b][f])
      /\ \A a \in Alert : a # b => row'[a] = row[a] /\ last'[a] = last[a]
  <2>1. row' = [row EXCEPT ![b] = Updated(r)] /\ IsRow(row[b])
    BY <1>1 DEF Update, IInv, TypeOK, AlertsTyped
  <2>2. row'[b] = Updated(r) /\ \A a \in Alert : a # b => row'[a] = row[a]
    BY <1>1, <2>1 DEF IInv, TypeOK, AlertsTyped
  <2>3. \A f \in Field : last'[b][f] = (IF f \in DOMAIN change[r] THEN r ELSE last[b][f])
    BY <1>1 DEF Update, IInv, TypeOK, AlertsTyped
  <2>4. \A a \in Alert : a # b => last'[a] = last[a]
    BY <1>1 DEF Update, IInv, TypeOK, AlertsTyped
  <2> QED
    BY <1>1, <2>1, <2>2, <2>3, <2>4, UpdatedTyped
<1>4. \A a \in Alert, f \in Field : last[a][f] # NoValue =>
        last[a][f] \in Request /\ last[a][f] # r
  BY <1>2 DEF IInv, WritersDone, TypeOK, AlertsTyped
<1>5. PendingAccepted'
  BY <1>2 DEF IInv, PendingAccepted
<1>6. WritersDone'
  BY <1>2, <1>3, <1>4 DEF IInv, WritersDone
<1>7. EditsKept'
  <2> SUFFICES ASSUME NEW a \in Alert, NEW f \in Field, last'[a][f] # NoValue
               PROVE  /\ f \in DOMAIN change'[last'[a][f]]
                      /\ row'[a][f] = change'[last'[a][f]][f]
    BY DEF EditsKept
  <2>1. CASE a = b /\ f \in DOMAIN change[r]
    BY <1>2, <1>3, <2>1
  <2>2. CASE a # b \/ f \notin DOMAIN change[r]
    BY <1>1, <1>2, <1>3, <2>2 DEF IInv, EditsKept
  <2> QED
    BY <2>1, <2>2
<1>8. StoredIsAccepted'
  <2> SUFFICES ASSUME NEW a \in Alert
               PROVE  /\ row'[a]["channels"] = "usable"
                      /\ (Together(a)' /\ row'[a]["min"] # NoValue /\ row'[a]["max"] # NoValue)
                           => row'[a]["min"] < row'[a]["max"]
    BY DEF StoredIsAccepted
  <2>1. CASE a # b
    BY <1>3, <2>1 DEF IInv, StoredIsAccepted, Together
  <2>2. CASE a = b
    <3>1. {"min", "max", "channels"} \subseteq Field
      BY DEF Field
    <3>2. row'[b]["channels"] = "usable"
      BY <1>1, <1>3, <3>1 DEF IInv, StoredIsAccepted, Accepted, ChannelsAccepted
    <3>3. CASE "min" \in DOMAIN change[r] /\ "max" \in DOMAIN change[r]
      BY <1>1, <1>3, <2>2, <3>1, <3>2, <3>3 DEF Accepted, RangeAccepted, Names
    <3>4. CASE "min" \notin DOMAIN change[r] /\ "max" \notin DOMAIN change[r]
      BY <1>3, <2>2, <3>1, <3>2, <3>4, <1>1 DEF IInv, StoredIsAccepted, Together
    <3>5. CASE \/ "min" \in DOMAIN change[r] /\ "max" \notin DOMAIN change[r]
               \/ "min" \notin DOMAIN change[r] /\ "max" \in DOMAIN change[r]
      <4>1. ~ (last'[a]["min"] = last'[a]["max"] /\ last'[a]["min"] # NoValue)
        BY <1>1, <1>3, <1>4, <2>2, <3>1, <3>5
      <4> QED
        BY <2>2, <3>2, <4>1 DEF Together
    <3> QED
      BY <3>3, <3>4, <3>5
  <2> QED
    BY <2>1, <2>2
<1> QED
  BY <1>5, <1>6, <1>7, <1>8 DEF Deep

\* Every step keeps what is said of writers and of what they wrote.
LEMMA NextKeeps ==
  ASSUME IInv, [Next]_vars
  PROVE  Deep'
<1>1. CASE \E r \in Request : Create(r)
  BY <1>1, CreateKeeps
<1>2. CASE \E r \in Request : Update(r)
  BY <1>2, UpdateKeeps
<1>3. ASSUME NEW r \in Request, NEW a \in Alert, NEW u \in User,
             NEW step \in {"update", "delete"}, NEW e, Accepted(e), FindAs(r, a, u, step, e)
      PROVE  Deep'
  <2>1. /\ \A q \in Request : at[q] = "done" => at'[q] = "done" /\ change'[q] = change[q]
        /\ PendingAccepted'
        /\ UNCHANGED <<row, last>>
    BY <1>3 DEF FindAs, alerts, IInv, TypeOK, RequestsTyped, PendingAccepted
  <2> QED
    BY <2>1, AlertsUntouched
<1>4. ASSUME NEW r \in Request, FindToUpdate(r) PROVE Deep'
  BY <1>3, <1>4 DEF FindToUpdate
<1>5. ASSUME NEW r \in Request, FindToToggle(r) PROVE Deep'
  <2>1. PICK a \in Alert, u \in User :
          FindAs(r, a, u, "update", [f \in {"active"} |-> ~ row[a]["active"]])
    BY <1>5 DEF FindToToggle
  <2>2. Accepted([f \in {"active"} |-> ~ row[a]["active"]])
    BY ToggleTyped
  <2> QED
    BY <1>3, <2>1, <2>2
<1>6. ASSUME NEW r \in Request, FindToDelete(r) PROVE Deep'
  <2>1. Accepted(<<>>)
    BY DEF Accepted, RangeAccepted, ChannelsAccepted, Names
  <2> QED
    BY <1>3, <1>6, <2>1 DEF FindToDelete
<1>7. ASSUME NEW r \in Request, Refuse(r) \/ Delete(r) \/ Fail(r)
      PROVE  Deep'
  <2>1. /\ at[r] # "done" /\ Answered(r) /\ UNCHANGED <<row, last>>
        /\ \A q \in Request : q # r => change'[q] = change[q]
    BY <1>7 DEF Refuse, Delete, Fail, alerts, IInv, TypeOK, RequestsTyped
  <2>2. /\ \A q \in Request : at[q] = "done" => at'[q] = "done" /\ change'[q] = change[q]
        /\ PendingAccepted'
    BY <2>1, AnsweredFacts DEF IInv, TypeOK, RequestsTyped, PendingAccepted
  <2> QED
    BY <2>1, <2>2, AlertsUntouched
<1>8. CASE UNCHANGED <<alerts, requests>>
  <2>1. UNCHANGED <<row, last, at, change>>
    BY <1>8 DEF alerts, requests
  <2> QED
    BY <2>1, AlertsUntouched DEF IInv, PendingAccepted
<1>9. ASSUME NEW p \in Process, StartWarming(p) \/ Warm(p) \/ Restart(p)
      PROVE  UNCHANGED <<alerts, requests>>
  BY <1>9 DEF StartWarming, Warm, QueryAlerts, PutList, EndWarming, Restart
<1>10. ASSUME NEW u \in User, Expire(u) PROVE UNCHANGED <<alerts, requests>>
  BY <1>10 DEF Expire
<1>11. CASE UNCHANGED vars
  BY <1>8, <1>11 DEF vars
<1> QED
  BY <1>1, <1>2, <1>4, <1>5, <1>6, <1>7, <1>8, <1>9, <1>10, <1>11 DEF Next

\* The invariant is kept by every step.
LEMMA NextInvariant == IInv /\ [Next]_vars => IInv'
BY NextTyped, NextKeeps DEF IInv, Deep

-----------------------------------------------------------------------------
(* The theorems.                                                           *)

\* The inductive invariant holds in every behaviour, however the requests of
\* AlertConfigService and the warm-ups of CacheWarmingService interleave.
THEOREM Invariance == Spec => []IInv
BY InitInvariant, NextInvariant, PTL DEF Spec

\* Every column keeps a value of its kind, and every list in Redis or on its
\* way there has rows of active alerts only (warmActiveAlerts).
THEOREM TypeCorrect == Spec => []TypeOK
BY Invariance, PTL DEF IInv

\* No request undoes what another gave a column it does not name (update,
\* toggleActive, alert-config.service.ts).
THEOREM EditsAreKept == Spec => []EditsKept
BY Invariance, PTL DEF IInv

\* Every stored alert has channels that are usable, and two prices that one
\* request gave are in order (create, update, alert-config.service.ts).
THEOREM OnlyAcceptedIsStored == Spec => []StoredIsAccepted
BY Invariance, PTL DEF IInv

=============================================================================
