------------------------ MODULE XrplConnectionProofs ------------------------
(***************************************************************************)
(* Proofs about the XRPL connection: LedgerGaps and NodeConnections, for   *)
(* any nodes, limits, backfills, attempts, timers and clients, and about   *)
(* the checks of SystemHealth that report it, for any checks and failures. *)
(***************************************************************************)
EXTENDS LedgerGaps, NodeConnections, SystemHealth, TLAPS

-----------------------------------------------------------------------------
(* LedgerGaps.                                                             *)

(***************************************************************************)
(* The inductive invariant.  NoSilentGap needs that lastSeenLedger, which  *)
(* may move back, is never above the highest ledger seen: a new gap then   *)
(* starts no higher than the first ledger that is not yet accounted for.   *)
(* It also needs that a backfill has fetched all it has passed, for its    *)
(* gap is dropped without looking at what was fetched.                     *)
(***************************************************************************)

LastSeenWithinTop ==
  /\ lastSeenLedger <= topSeen
  /\ lastSeenLedger = 0 => topSeen = 0

PassedIsFetched ==
  \A b \in Backfiller : backfill[b].running =>
    \A l \in Nat : backfill[b].start <= l /\ l < backfill[b].next => l \in fetched

GapsIInv ==
  /\ GapsTypeOK
  /\ LastSeenWithinTop
  /\ PassedIsFetched
  /\ NoSilentGap

-----------------------------------------------------------------------------


\* An idle backfill is a backfill.
LEMMA NoBackfillType == NoBackfill \in Backfill
  BY GapBoundAssumption DEF NoBackfill, Backfill

\* Type correctness is inductive on its own.
LEMMA GapsTypeStep == GapsTypeOK /\ [GapsNext]_gapsVars => GapsTypeOK'
<1> SUFFICES ASSUME GapsTypeOK, [GapsNext]_gapsVars PROVE GapsTypeOK'
  OBVIOUS
<1> USE GapBoundAssumption
<1>1. CASE CloseLedger
  BY <1>1 DEF CloseLedger, GapsTypeOK, memory, history
<1>2. CASE Crash
  <2>1. backfill' \in [Backfiller -> Backfill]
    BY <1>2, NoBackfillType DEF Crash
  <2>2. ledgerGaps' \subseteq Gap
    BY <1>2 DEF Crash
  <2>3. up' \in BOOLEAN
    BY <1>2, Zenon DEF Crash
  <2>4. nextMessage' \in [Node -> Nat] /\ crashes' \in Nat
    BY <1>2 DEF Crash, GapsTypeOK
  <2> QED
    BY <1>2, <2>1, <2>2, <2>3, <2>4 DEF Crash, GapsTypeOK, history
<1>3. CASE Restart
  BY <1>3 DEF Restart, GapsTypeOK, memory, history
<1>4. ASSUME NEW n \in Node, Connect(n) PROVE GapsTypeOK'
  BY <1>4 DEF Connect, GapsTypeOK, memory, history
<1>5. ASSUME NEW n \in Node, Disconnect(n) PROVE GapsTypeOK'
  BY <1>5 DEF Disconnect, GapsTypeOK, memory, history
<1>6. ASSUME NEW n \in Node, HandleLedgerClosed(n) PROVE GapsTypeOK'
  <2>1. nextMessage[n] \in Nat
    BY DEF GapsTypeOK
  <2>2. NewGaps(nextMessage[n]) \subseteq Gap
    BY <2>1 DEF NewGaps, Gap, GapsTypeOK
  <2>3. /\ nextMessage' \in [Node -> Nat]
        /\ lastSeenLedger' \in Nat /\ firstSeen' \in Nat
        /\ topSeen' \in Nat
    BY <1>6, <2>1 DEF HandleLedgerClosed, GapsTypeOK
  <2>4. ledgerGaps' \subseteq Gap /\ reported' \subseteq Nat
    BY <1>6, <2>1, <2>2 DEF HandleLedgerClosed, GapsTypeOK
  <2> QED
    BY <1>6, <2>3, <2>4 DEF HandleLedgerClosed, GapsTypeOK
<1>7. ASSUME NEW n \in Node, RefuseLedgerMessage(n) PROVE GapsTypeOK'
  BY <1>7 DEF RefuseLedgerMessage, GapsTypeOK, memory, history
<1>8. ASSUME NEW b \in Backfiller, NEW gap \in ledgerGaps, StartBackfill(b, gap)
      PROVE  GapsTypeOK'
  <2>1. gap.startLedger \in Nat /\ gap.endLedger \in Nat
    BY DEF GapsTypeOK, Gap
  <2> QED
    BY <1>8, <2>1 DEF StartBackfill, GapsTypeOK, Backfill, memory, history
<1>9. ASSUME NEW b \in Backfiller, FetchLedger(b) PROVE GapsTypeOK'
  <2> DEFINE moved == [backfill EXCEPT ![b].next = @ + 1]
  <2>1. backfill[b] \in Backfill
    BY DEF GapsTypeOK
  <2>2. moved \in [Backfiller -> Backfill]
    BY <2>1 DEF GapsTypeOK, Backfill
  <2>3. backfill' \in [Backfiller -> Backfill]
    <3>1. backfill' = [moved EXCEPT ![b].tries = 0]
      BY <1>9 DEF FetchLedger
    <3>2. 0 \in 0 .. RetryAttempts
      OBVIOUS
    <3> QED
      BY <2>2, <3>1, <3>2 DEF Backfill
  <2>4. fetched' \subseteq Nat
    BY <1>9, <2>1 DEF FetchLedger, GapsTypeOK, Backfill
  <2> QED
    BY <1>9, <2>3, <2>4 DEF FetchLedger, GapsTypeOK, memory
<1>10. ASSUME NEW b \in Backfiller, RequestFails(b) PROVE GapsTypeOK'
  <2>1. CASE backfill[b].tries < RetryAttempts
    BY <1>10, <2>1 DEF RequestFails, GapsTypeOK, Backfill, memory, history
  <2>2. CASE ~(backfill[b].tries < RetryAttempts)
    BY <1>10, <2>2, NoBackfillType DEF RequestFails, GapsTypeOK, memory, history
  <2> QED
    BY <2>1, <2>2
<1>11. ASSUME NEW b \in Backfiller, FinishBackfill(b) PROVE GapsTypeOK'
  BY <1>11, NoBackfillType DEF FinishBackfill, GapsTypeOK, history
<1>12. CASE UNCHANGED gapsVars
  BY <1>12 DEF gapsVars, GapsTypeOK, memory, history
<1> QED
  BY <1>1, <1>2, <1>3, <1>4, <1>5, <1>6, <1>7, <1>8, <1>9, <1>10, <1>11, <1>12
     DEF GapsNext

\* A message leaves no hole: what lies between the highest ledger seen and the
\* new one is in the gap that starts after the last message.
LEMMA HandleKeepsNoSilentGap ==
  ASSUME GapsIInv, NEW n \in Node, HandleLedgerClosed(n)
  PROVE  LastSeenWithinTop' /\ NoSilentGap'
<1> DEFINE l == nextMessage[n]
<1>1. l \in Nat /\ l # 0
  BY DEF HandleLedgerClosed, HasMessage, GapsIInv, GapsTypeOK
<1>2. /\ lastSeenLedger \in Nat /\ topSeen \in Nat /\ firstSeen \in Nat
      /\ lastSeenLedger <= topSeen
      /\ lastSeenLedger = 0 => topSeen = 0
  BY DEF GapsIInv, GapsTypeOK, LastSeenWithinTop
<1>3. LastSeenWithinTop'
  BY <1>1, <1>2 DEF HandleLedgerClosed, LastSeenWithinTop
<1>4. ASSUME NEW k \in firstSeen' .. topSeen' PROVE Accounted(k)'
  <2>1. k \in Nat
    BY <1>1, <1>2, <1>4 DEF HandleLedgerClosed
  <2>2. CASE k = l
    BY <2>2 DEF HandleLedgerClosed, Accounted
  <2>3. CASE k # l /\ k <= topSeen
    <3>1. k \in firstSeen .. topSeen /\ topSeen > 0
      BY <1>1, <1>2, <1>4, <2>1, <2>3 DEF HandleLedgerClosed
    <3>2. Accounted(k)
      BY <3>1 DEF GapsIInv, NoSilentGap
    <3> QED
      BY <3>2 DEF Accounted, InGap, HandleLedgerClosed
  <2>4. CASE k # l /\ k > topSeen
    <3>1. topSeen < k /\ k < l
      BY <1>1, <1>2, <1>4, <2>1, <2>4 DEF HandleLedgerClosed
    <3>2. lastSeenLedger # 0
      BY <1>1, <1>2, <1>4, <2>1, <2>4, <3>1 DEF HandleLedgerClosed
    <3>3. [startLedger |-> lastSeenLedger + 1, endLedger |-> l - 1] \in ledgerGaps'
      BY <1>1, <1>2, <2>1, <3>1, <3>2 DEF HandleLedgerClosed, NewGaps
    <3>4. k \in lastSeenLedger + 1 .. l - 1
      BY <1>1, <1>2, <2>1, <3>1
    <3> QED
      BY <3>3, <3>4 DEF Accounted, InGap
  <2> QED
    BY <1>2, <2>1, <2>2, <2>3, <2>4
<1> QED
  BY <1>3, <1>4 DEF NoSilentGap

\* A backfill that finishes has fetched its whole range, so the gap with those
\* bounds is no longer needed.
LEMMA FinishedIsFetched ==
  ASSUME GapsTypeOK, PassedIsFetched, NEW b \in Backfiller, FinishBackfill(b),
         NEW gap \in ledgerGaps, gap \notin ledgerGaps',
         NEW l \in gap.startLedger .. gap.endLedger
  PROVE  l \in fetched
<1>1. gap.startLedger = backfill[b].start /\ gap.endLedger = backfill[b].end
  BY DEF FinishBackfill
<1>2. backfill[b].running /\ backfill[b].next > backfill[b].end
  BY DEF FinishBackfill, RangeDone
<1>3. backfill[b].start \in Nat /\ backfill[b].end \in Nat /\ backfill[b].next \in Nat
  BY DEF GapsTypeOK, Backfill
<1> QED
  BY <1>1, <1>2, <1>3 DEF PassedIsFetched

\* Dropping the gap of a finished backfill opens no hole.
LEMMA FinishKeepsNoSilentGap ==
  ASSUME GapsIInv, NEW b \in Backfiller, FinishBackfill(b)
  PROVE  NoSilentGap'
<1>1. UNCHANGED <<firstSeen, topSeen, reported, fetched>>
  BY DEF FinishBackfill, history
<1>2. ASSUME NEW l \in firstSeen .. topSeen, topSeen > 0 PROVE Accounted(l)'
  <2>1. Accounted(l)
    BY <1>2 DEF GapsIInv, NoSilentGap
  <2>2. CASE l \in reported \/ l \in fetched
    BY <1>1, <2>2 DEF Accounted
  <2>3. CASE InGap(l)
    <3>1. PICK gap \in ledgerGaps : l \in gap.startLedger .. gap.endLedger
      BY <2>3 DEF InGap
    <3>2. CASE gap \in ledgerGaps'
      BY <3>1, <3>2 DEF Accounted, InGap
    <3>3. CASE gap \notin ledgerGaps'
      <4>1. l \in fetched
        BY <3>1, <3>3, FinishedIsFetched DEF GapsIInv
      <4> QED
        BY <1>1, <4>1 DEF Accounted
    <3> QED
      BY <3>2, <3>3
  <2> QED
    BY <2>1, <2>2, <2>3 DEF Accounted
<1> QED
  BY <1>1, <1>2 DEF NoSilentGap

\* The backfills keep track of what they fetched.
LEMMA PassedIsFetchedStep ==
  GapsTypeOK /\ PassedIsFetched /\ [GapsNext]_gapsVars => PassedIsFetched'
<1> SUFFICES ASSUME GapsTypeOK, PassedIsFetched, [GapsNext]_gapsVars PROVE PassedIsFetched'
  OBVIOUS
<1>1. CASE UNCHANGED <<backfill, fetched>>
  BY <1>1 DEF PassedIsFetched
<1>2. CASE Crash
  BY <1>2 DEF Crash, PassedIsFetched, NoBackfill
<1>3. ASSUME NEW b \in Backfiller, NEW gap \in ledgerGaps, StartBackfill(b, gap)
      PROVE  PassedIsFetched'
  <2>1. gap.startLedger \in Nat
    BY DEF GapsTypeOK, Gap
  <2> QED
    BY <1>3, <2>1 DEF StartBackfill, PassedIsFetched, GapsTypeOK, history
<1>4. ASSUME NEW b \in Backfiller, FetchLedger(b) PROVE PassedIsFetched'
  <2> SUFFICES ASSUME NEW c \in Backfiller, backfill'[c].running, NEW l \in Nat,
                      backfill'[c].start <= l, l < backfill'[c].next
               PROVE  l \in fetched'
    BY DEF PassedIsFetched
  <2>1. CASE c # b
    BY <1>4, <2>1 DEF FetchLedger, PassedIsFetched, GapsTypeOK
  <2>2. CASE c = b
    <3>1. backfill[b] \in Backfill
      BY DEF GapsTypeOK
    <3>2. /\ backfill'[b].next = backfill[b].next + 1
          /\ backfill'[b].start = backfill[b].start
          /\ backfill[b].running
      BY <1>4, <3>1 DEF FetchLedger, GapsTypeOK, Backfill
    <3>3. l = backfill[b].next \/ l < backfill[b].next
      BY <2>2, <3>1, <3>2 DEF Backfill
    <3> QED
      BY <1>4, <2>2, <3>2, <3>3 DEF FetchLedger, PassedIsFetched
  <2> QED
    BY <2>1, <2>2
<1>5. ASSUME NEW b \in Backfiller, RequestFails(b) PROVE PassedIsFetched'
  BY <1>5 DEF RequestFails, PassedIsFetched, GapsTypeOK, Backfill, NoBackfill, history
<1>6. ASSUME NEW b \in Backfiller, FinishBackfill(b) PROVE PassedIsFetched'
  BY <1>6 DEF FinishBackfill, PassedIsFetched, GapsTypeOK, Backfill, NoBackfill, history
<1>7. CASE \/ CloseLedger \/ Restart \/ UNCHANGED gapsVars
           \/ \E n \in Node : \/ Connect(n) \/ Disconnect(n)
                              \/ HandleLedgerClosed(n) \/ RefuseLedgerMessage(n)
  BY <1>1, <1>7 DEF CloseLedger, Restart, Connect, Disconnect, HandleLedgerClosed,
     RefuseLedgerMessage, gapsVars, history
<1> QED
  BY <1>2, <1>3, <1>4, <1>5, <1>6, <1>7 DEF GapsNext

\* What accounts for a ledger keeps accounting for it while the memory stays
\* or the fetched ledgers grow.
LEMMA NoSilentGapStep == GapsIInv /\ [GapsNext]_gapsVars => LastSeenWithinTop' /\ NoSilentGap'
<1> SUFFICES ASSUME GapsIInv, [GapsNext]_gapsVars PROVE LastSeenWithinTop' /\ NoSilentGap'
  OBVIOUS
<1>1. CASE UNCHANGED memory /\ reported' = reported /\ fetched \subseteq fetched'
  BY <1>1 DEF GapsIInv, memory, LastSeenWithinTop, NoSilentGap, Accounted, InGap
<1>2. CASE Crash
  BY <1>2 DEF Crash, LastSeenWithinTop, NoSilentGap
<1>3. ASSUME NEW n \in Node, HandleLedgerClosed(n)
      PROVE  LastSeenWithinTop' /\ NoSilentGap'
  BY <1>3, HandleKeepsNoSilentGap
<1>4. ASSUME NEW b \in Backfiller, FinishBackfill(b)
      PROVE  LastSeenWithinTop' /\ NoSilentGap'
  BY <1>4, FinishKeepsNoSilentGap DEF FinishBackfill, LastSeenWithinTop, GapsIInv
<1>5. CASE \/ CloseLedger \/ Restart \/ UNCHANGED gapsVars
           \/ \E n \in Node : Connect(n) \/ Disconnect(n) \/ RefuseLedgerMessage(n)
           \/ \E b \in Backfiller : \/ \E gap \in ledgerGaps : StartBackfill(b, gap)
                                    \/ FetchLedger(b) \/ RequestFails(b)
  BY <1>1, <1>5 DEF CloseLedger, Restart, Connect, Disconnect, RefuseLedgerMessage,
     StartBackfill, FetchLedger, RequestFails, gapsVars, history
<1> QED
  BY <1>2, <1>3, <1>4, <1>5 DEF GapsNext

-----------------------------------------------------------------------------

\* The inductive invariant holds in every behaviour.
THEOREM GapsInvariance == GapsSpec => []GapsIInv
<1>1. GapsInit => GapsIInv
  BY GapBoundAssumption DEF GapsInit, GapsIInv, GapsTypeOK, LastSeenWithinTop, PassedIsFetched,
     NoSilentGap, NoBackfill, Backfill
<1>2. GapsIInv /\ [GapsNext]_gapsVars => GapsIInv'
  BY GapsTypeStep, PassedIsFetchedStep, NoSilentGapStep DEF GapsIInv
<1> QED
  BY <1>1, <1>2, PTL DEF GapsSpec

\* Every variable keeps its type; a recorded gap is never empty.
THEOREM GapsTypeCorrect == GapsSpec => []GapsTypeOK
<1>1. GapsIInv => GapsTypeOK
  BY DEF GapsIInv
<1> QED
  BY <1>1, GapsInvariance, PTL

\* Since the process started, no ledger below the highest one reported is
\* neither reported, nor fetched, nor in a gap.
THEOREM HolesAreKnown == GapsSpec => []NoSilentGap
<1>1. GapsIInv => NoSilentGap
  BY DEF GapsIInv
<1> QED
  BY <1>1, GapsInvariance, PTL

\* A running process forgets a gap only when all of it has been fetched.
THEOREM ClosedGapsAreFetched == GapsSpec => GapClosedOnlyWhenFetched
<1> DEFINE Closed ==
      \A gap \in ledgerGaps : gap \notin ledgerGaps' /\ up' =>
        \A l \in gap.startLedger .. gap.endLedger : l \in fetched
<1>1. GapsIInv /\ [GapsNext]_gapsVars => [Closed]_gapsVars
  <2> SUFFICES ASSUME GapsIInv, [GapsNext]_gapsVars PROVE Closed
    OBVIOUS
  <2>1. ASSUME NEW b \in Backfiller, FinishBackfill(b) PROVE Closed
    BY <2>1, FinishedIsFetched DEF GapsIInv
  <2>2. CASE ~up' \/ ledgerGaps \subseteq ledgerGaps'
    BY <2>2
  <2>3. CASE \/ CloseLedger \/ Crash \/ Restart \/ UNCHANGED gapsVars
             \/ \E n \in Node : \/ Connect(n) \/ Disconnect(n)
                                \/ HandleLedgerClosed(n) \/ RefuseLedgerMessage(n)
             \/ \E b \in Backfiller : \/ \E gap \in ledgerGaps : StartBackfill(b, gap)
                                      \/ FetchLedger(b) \/ RequestFails(b)
    BY <2>2, <2>3 DEF CloseLedger, Crash, Restart, Connect, Disconnect,
       HandleLedgerClosed, RefuseLedgerMessage, StartBackfill, FetchLedger,
       RequestFails, gapsVars, memory
  <2> QED
    BY <2>1, <2>3 DEF GapsNext
<1> QED
  BY <1>1, GapsInvariance, PTL DEF GapsSpec, GapClosedOnlyWhenFetched

-----------------------------------------------------------------------------
(* NodeConnections.                                                        *)

(***************************************************************************)
(* The inductive invariant.  A ping that was answered makes its node       *)
(* healthy, so HealthFlagHonest needs to know that a ping whose client has *)
(* not gone is of a client that is still connected, in the map or not.     *)
(***************************************************************************)

PingTracksClient ==
  \A n \in Node :
    /\ ping[n] = "current" => connected[n]
    /\ ping[n] = "replaced" => replaced[n] > 0

NodesIInv == NodesTypeOK /\ PingTracksClient /\ HealthFlagHonest

-----------------------------------------------------------------------------
(* The operators the actions are made of.                                  *)

FlagTypes ==
  /\ isHealthy \in [Node -> BOOLEAN]
  /\ failures \in [Node -> 0 .. MaxConsecutiveFailures]

\* A failure keeps the count at or below the limit.
LEMMA FailTypes ==
  ASSUME NodesTypeOK, NEW n \in Node, Fail(n)
  PROVE  FlagTypes'
<1>1. isHealthy' \in [Node -> BOOLEAN]
  BY Zenon DEF Fail, NodesTypeOK
<1>2. Bump(n) \in 0 .. MaxConsecutiveFailures
  BY LimitAssumption DEF Bump, NodesTypeOK
<1>3. failures' \in [Node -> 0 .. MaxConsecutiveFailures]
  BY <1>2 DEF Fail, NodesTypeOK
<1> QED
  BY <1>1, <1>3 DEF FlagTypes

\* Firing the breaker begins an attempt or counts a failure.
LEMMA FireTypes ==
  ASSUME NodesTypeOK, NEW n \in Node, NEW flag \in BOOLEAN, Fire(n, flag)
  PROVE  /\ FlagTypes'
         /\ breaker' \in [Node -> {"closed", "open", "halfOpen", "trial"}]
         /\ running' \in [Node -> Nat]
         /\ late' \in [Node -> Nat]
<1>1. CASE breaker[n] \in {"closed", "halfOpen"}
  <2>1. isHealthy' \in [Node -> BOOLEAN]
    BY <1>1, Zenon DEF Fire, NodesTypeOK
  <2> QED
    BY <1>1, <2>1 DEF Fire, NodesTypeOK, FlagTypes
<1>2. CASE breaker[n] \notin {"closed", "halfOpen"}
  BY <1>2, FailTypes DEF Fire, NodesTypeOK, attempts
<1> QED
  BY <1>1, <1>2

\* A client that is put into the map keeps the types.
LEMMA EstablishTypes ==
  ASSUME NodesTypeOK, NEW n \in Node, Establish(n)
  PROVE  /\ FlagTypes'
         /\ connected' \in [Node -> BOOLEAN]
         /\ replaced' \in [Node -> Nat]
         /\ ping' \in [Node -> {"none", "current", "replaced", "gone"}]
<1>1. isHealthy' \in [Node -> BOOLEAN] /\ connected' \in [Node -> BOOLEAN]
  BY Zenon DEF Establish, NodesTypeOK
<1>2. failures' \in [Node -> 0 .. MaxConsecutiveFailures]
  BY LimitAssumption DEF Establish, NodesTypeOK
<1>3. replaced' \in [Node -> Nat]
  BY DEF Establish, NodesTypeOK
<1>4. ping' \in [Node -> {"none", "current", "replaced", "gone"}]
  BY DEF Establish, NodesTypeOK
<1> QED
  BY <1>1, <1>2, <1>3, <1>4 DEF FlagTypes

\* So does a disconnection.
LEMMA DisconnectionTypes ==
  ASSUME NodesTypeOK, NEW n \in Node, HandleDisconnection(n)
  PROVE  FlagTypes' /\ timers' \in [Node -> Nat]
BY FailTypes DEF HandleDisconnection, NodesTypeOK

-----------------------------------------------------------------------------
(* Types.                                                                  *)

\* Type correctness is inductive on its own.
LEMMA NodesTypeStep == NodesTypeOK /\ [NodesNext]_nodesVars => NodesTypeOK'
<1> SUFFICES ASSUME NodesTypeOK, [NodesNext]_nodesVars PROVE NodesTypeOK'
  OBVIOUS
<1>1. CASE StartupEnds
  BY <1>1 DEF StartupEnds, NodesTypeOK, clients, flags, attempts
<1>2. CASE StartAgain
  <2>1. /\ settled' \in [Node -> BOOLEAN] /\ connected' \in [Node -> BOOLEAN]
        /\ isHealthy' \in [Node -> BOOLEAN]
    BY <1>2, Zenon DEF StartAgain
  <2>2. failures' \in [Node -> 0 .. MaxConsecutiveFailures]
    BY <1>2, LimitAssumption DEF StartAgain
  <2> QED
    BY <1>2, <2>1, <2>2 DEF StartAgain, NodesTypeOK
<1>3. ASSUME NEW n \in Node, NodeGoesOrComes(n) PROVE NodesTypeOK'
  <2>1. reachable' \in [Node -> BOOLEAN]
    BY <1>3, Zenon DEF NodeGoesOrComes, NodesTypeOK
  <2> QED
    BY <1>3, <2>1 DEF NodeGoesOrComes, NodesTypeOK, clients, flags, attempts
<1>4. ASSUME NEW n \in Node, ConnectSucceeds(n) PROVE NodesTypeOK'
  <2>1. settled' \in [Node -> BOOLEAN]
    BY <1>4, Zenon DEF ConnectSucceeds, NodesTypeOK
  <2>2. running' \in [Node -> Nat]
    BY <1>4 DEF ConnectSucceeds, NodesTypeOK
  <2>3. breaker' \in [Node -> {"closed", "open", "halfOpen", "trial"}]
    BY <1>4 DEF ConnectSucceeds, NodesTypeOK
  <2> QED
    BY <1>4, <2>1, <2>2, <2>3, EstablishTypes DEF ConnectSucceeds, NodesTypeOK, FlagTypes
<1>5. ASSUME NEW n \in Node, ConnectFails(n) \/ ConnectTimesOut(n) PROVE NodesTypeOK'
  <2>1. settled' \in [Node -> BOOLEAN]
    BY <1>5, Zenon DEF ConnectFails, ConnectTimesOut, NodesTypeOK
  <2>2. running' \in [Node -> Nat] /\ late' \in [Node -> Nat]
    BY <1>5 DEF ConnectFails, ConnectTimesOut, NodesTypeOK
  <2>3. breaker' \in [Node -> {"closed", "open", "halfOpen", "trial"}]
    BY <1>5 DEF ConnectFails, ConnectTimesOut, NodesTypeOK
  <2>4. FlagTypes'
    BY <1>5, FailTypes DEF ConnectFails, ConnectTimesOut
  <2> QED
    BY <1>5, <2>1, <2>2, <2>3, <2>4
       DEF ConnectFails, ConnectTimesOut, NodesTypeOK, FlagTypes, clients
<1>6. ASSUME NEW n \in Node, LateConnect(n) PROVE NodesTypeOK'
  <2>1. late' \in [Node -> Nat]
    BY <1>6 DEF LateConnect, NodesTypeOK
  <2> QED
    BY <1>6, <2>1, EstablishTypes DEF LateConnect, NodesTypeOK, FlagTypes
<1>7. ASSUME NEW n \in Node, LateFailure(n) PROVE NodesTypeOK'
  BY <1>7 DEF LateFailure, NodesTypeOK, clients, flags
<1>8. ASSUME NEW n \in Node, BreakerHalfOpens(n) PROVE NodesTypeOK'
  BY <1>8 DEF BreakerHalfOpens, NodesTypeOK, clients, flags
<1>9. ASSUME NEW n \in Node, ClientDrops(n) PROVE NodesTypeOK'
  <2>1. connected' \in [Node -> BOOLEAN]
    BY <1>9, Zenon DEF ClientDrops, NodesTypeOK
  <2>2. ping' \in [Node -> {"none", "current", "replaced", "gone"}]
    BY <1>9 DEF ClientDrops, NodesTypeOK
  <2> QED
    BY <1>9, <2>1, <2>2, DisconnectionTypes
       DEF ClientDrops, NodesTypeOK, FlagTypes, attempts
<1>10. ASSUME NEW n \in Node, ReplacedClientDrops(n) PROVE NodesTypeOK'
  <2>1. replaced' \in [Node -> Nat]
    BY <1>10 DEF ReplacedClientDrops, NodesTypeOK
  <2>2. ping' \in [Node -> {"none", "current", "replaced", "gone"}]
    BY <1>10 DEF ReplacedClientDrops, NodesTypeOK
  <2> QED
    BY <1>10, <2>1, <2>2, DisconnectionTypes
       DEF ReplacedClientDrops, NodesTypeOK, FlagTypes, attempts
<1>11. ASSUME NEW n \in Node, ReconnectTimerFires(n) PROVE NodesTypeOK'
  <2>1. timers' \in [Node -> Nat]
    BY <1>11 DEF ReconnectTimerFires, NodesTypeOK
  <2>2. isHealthy[n] \in BOOLEAN
    BY Zenon DEF NodesTypeOK
  <2> QED
    BY <1>11, <2>1, <2>2, FireTypes
       DEF ReconnectTimerFires, NodesTypeOK, FlagTypes, clients
<1>12. ASSUME NEW n \in Node, HealthCheck(n) PROVE NodesTypeOK'
  <2>1. CASE connected[n]
    BY <1>12, <2>1 DEF HealthCheck, NodesTypeOK, clients, flags, attempts
  <2>2. CASE ~connected[n] /\ failures[n] < MaxConsecutiveFailures
    BY <1>12, <2>2, FireTypes DEF HealthCheck, NodesTypeOK, FlagTypes, clients
  <2>3. CASE ~connected[n] /\ ~(failures[n] < MaxConsecutiveFailures)
    <3>1. isHealthy' \in [Node -> BOOLEAN]
      BY <1>12, <2>3, Zenon DEF HealthCheck, NodesTypeOK
    <3> QED
      BY <1>12, <2>3, <3>1 DEF HealthCheck, NodesTypeOK, clients, attempts
  <2> QED
    BY <2>1, <2>2, <2>3
<1>13. ASSUME NEW n \in Node, PingAnswered(n) \/ PingRejected(n) PROVE NodesTypeOK'
  <2>1. ping' \in [Node -> {"none", "current", "replaced", "gone"}]
    BY <1>13 DEF PingAnswered, PingRejected, NodesTypeOK
  <2>2. FlagTypes'
    <3>1. CASE Fail(n)
      BY <3>1, FailTypes
    <3>2. CASE /\ isHealthy' = [isHealthy EXCEPT ![n] = TRUE]
               /\ failures' = [failures EXCEPT ![n] = 0]
      <4>1. isHealthy' \in [Node -> BOOLEAN]
        BY <3>2, Zenon DEF NodesTypeOK
      <4> QED
        BY <3>2, <4>1, LimitAssumption DEF NodesTypeOK, FlagTypes
    <3> QED
      BY <1>13, <3>1, <3>2, Zenon DEF PingAnswered, PingRejected
  <2> QED
    BY <1>13, <2>1, <2>2
       DEF PingAnswered, PingRejected, NodesTypeOK, FlagTypes, clients, attempts
<1>14. CASE UNCHANGED nodesVars
  BY <1>14 DEF nodesVars, NodesTypeOK, clients, flags, attempts
<1> QED
  BY <1>1, <1>2, <1>3, <1>4, <1>5, <1>6, <1>7, <1>8, <1>9, <1>10, <1>11, <1>12,
     <1>13, <1>14 DEF NodesNext

-----------------------------------------------------------------------------
(* The pings and the flag.                                                 *)

\* A ping follows its client: into the replaced ones, and away with it.
LEMMA PingStep == NodesTypeOK /\ PingTracksClient /\ [NodesNext]_nodesVars => PingTracksClient'
<1> SUFFICES ASSUME NodesTypeOK, PingTracksClient, [NodesNext]_nodesVars, NEW m \in Node
             PROVE  /\ ping'[m] = "current" => connected'[m]
                    /\ ping'[m] = "replaced" => replaced'[m] > 0
  BY DEF PingTracksClient
<1> DEFINE Goal == /\ ping'[m] = "current" => connected'[m]
                   /\ ping'[m] = "replaced" => replaced'[m] > 0
<1>1. CASE UNCHANGED <<connected, replaced, ping>>
  BY <1>1 DEF PingTracksClient
<1>2. CASE StartAgain
  BY <1>2 DEF StartAgain
<1>3. ASSUME NEW n \in Node, Establish(n) PROVE Goal
  BY <1>3 DEF Establish, NodesTypeOK, PingTracksClient
<1>4. ASSUME NEW n \in Node, ClientDrops(n) PROVE Goal
  BY <1>4 DEF ClientDrops, NodesTypeOK, PingTracksClient
<1>5. ASSUME NEW n \in Node, ReplacedClientDrops(n) PROVE Goal
  BY <1>5 DEF ReplacedClientDrops, NodesTypeOK, PingTracksClient
<1>6. ASSUME NEW n \in Node, HealthCheck(n) PROVE Goal
  BY <1>6 DEF HealthCheck, NodesTypeOK, PingTracksClient, clients
<1>7. ASSUME NEW n \in Node, PingAnswered(n) \/ PingRejected(n) PROVE Goal
  BY <1>7 DEF PingAnswered, PingRejected, NodesTypeOK, PingTracksClient, clients
<1>8. CASE \/ StartupEnds \/ UNCHANGED nodesVars
           \/ \E n \in Node : \/ NodeGoesOrComes(n) \/ ConnectFails(n)
                              \/ ConnectTimesOut(n) \/ LateFailure(n)
                              \/ BreakerHalfOpens(n) \/ ReconnectTimerFires(n)
  BY <1>1, <1>8 DEF StartupEnds, NodeGoesOrComes, ConnectFails, ConnectTimesOut,
     LateFailure, BreakerHalfOpens, ReconnectTimerFires, nodesVars, clients
<1>9. CASE \E n \in Node : ConnectSucceeds(n) \/ LateConnect(n)
  BY <1>3, <1>9 DEF ConnectSucceeds, LateConnect
<1> QED
  BY <1>2, <1>4, <1>5, <1>6, <1>7, <1>8, <1>9 DEF NodesNext

Honest(n) ==
  isHealthy[n] => (connected[n] \/ replaced[n] > 0) /\ failures[n] = 0

\* The node whose failure is counted is not healthy; the others are untouched.
LEMMA FailKeepsHonest ==
  ASSUME NodesTypeOK, HealthFlagHonest, NEW n \in Node, Fail(n), NEW m \in Node,
         m # n => connected'[m] = connected[m] /\ replaced'[m] = replaced[m]
  PROVE  Honest(m)'
<1>1. CASE m = n
  <2>1. isHealthy'[n] = FALSE
    BY Zenon DEF Fail, NodesTypeOK
  <2> QED
    BY <1>1, <2>1 DEF Honest
<1>2. CASE m # n
  <2>1. isHealthy'[m] = isHealthy[m] /\ failures'[m] = failures[m]
    BY <1>2 DEF Fail, NodesTypeOK
  <2> QED
    BY <1>2, <2>1 DEF Honest, HealthFlagHonest
<1> QED
  BY <1>1, <1>2

\* Every step keeps the flag honest.
LEMMA HonestStep ==
  NodesTypeOK /\ PingTracksClient /\ HealthFlagHonest /\ [NodesNext]_nodesVars => HealthFlagHonest'
<1> SUFFICES ASSUME NodesTypeOK, PingTracksClient, HealthFlagHonest, [NodesNext]_nodesVars,
                    NEW m \in Node
             PROVE  Honest(m)'
  BY DEF HealthFlagHonest, Honest
<1>1. CASE UNCHANGED <<clients, flags>>
  BY <1>1 DEF HealthFlagHonest, Honest, clients, flags
<1>2. CASE StartAgain
  BY <1>2 DEF StartAgain, Honest
<1>3. ASSUME NEW n \in Node, Establish(n) PROVE Honest(m)'
  BY <1>3 DEF Establish, NodesTypeOK, HealthFlagHonest, Honest
<1>4. ASSUME NEW n \in Node, Fail(n), UNCHANGED clients PROVE Honest(m)'
  BY <1>4, FailKeepsHonest DEF clients
<1>5. ASSUME NEW n \in Node, ClientDrops(n) PROVE Honest(m)'
  <2>1. m # n => connected'[m] = connected[m] /\ replaced'[m] = replaced[m]
    BY <1>5 DEF ClientDrops, NodesTypeOK
  <2> QED
    BY <1>5, <2>1, FailKeepsHonest DEF ClientDrops, HandleDisconnection
<1>6. ASSUME NEW n \in Node, ReplacedClientDrops(n) PROVE Honest(m)'
  <2>1. m # n => connected'[m] = connected[m] /\ replaced'[m] = replaced[m]
    BY <1>6 DEF ReplacedClientDrops, NodesTypeOK
  <2> QED
    BY <1>6, <2>1, FailKeepsHonest DEF ReplacedClientDrops, HandleDisconnection
<1>7. ASSUME NEW n \in Node, UNCHANGED <<clients, failures>>,
             \/ isHealthy' = [isHealthy EXCEPT ![n] = FALSE]
             \/ isHealthy' = [isHealthy EXCEPT ![n] = isHealthy[n]]
      PROVE  Honest(m)'
  <2>1. isHealthy'[m] => isHealthy[m]
    <3>1. CASE isHealthy' = [isHealthy EXCEPT ![n] = FALSE]
      <4>1. m = n => isHealthy'[m] = FALSE
        BY <3>1, Zenon DEF NodesTypeOK
      <4>2. m # n => isHealthy'[m] = isHealthy[m]
        BY <3>1 DEF NodesTypeOK
      <4> QED
        BY <4>1, <4>2
    <3>2. CASE isHealthy' = [isHealthy EXCEPT ![n] = isHealthy[n]]
      BY <3>2 DEF NodesTypeOK
    <3> QED
      BY <1>7, <3>1, <3>2
  <2> QED
    BY <1>7, <2>1 DEF HealthFlagHonest, Honest, clients
<1>8. ASSUME NEW n \in Node, ReconnectTimerFires(n) PROVE Honest(m)'
  <2>1. UNCHANGED clients
    BY <1>8 DEF ReconnectTimerFires
  <2>2. \/ Fail(n)
        \/ /\ failures' = failures
           /\ isHealthy' = [isHealthy EXCEPT ![n] = isHealthy[n]]
    BY <1>8 DEF ReconnectTimerFires, Fire
  <2> QED
    BY <1>4, <1>7, <2>1, <2>2
<1>9. ASSUME NEW n \in Node, HealthCheck(n) PROVE Honest(m)'
  <2>1. UNCHANGED clients
    BY <1>9 DEF HealthCheck
  <2>2. \/ Fail(n)
        \/ UNCHANGED flags
        \/ failures' = failures /\ isHealthy' = [isHealthy EXCEPT ![n] = FALSE]
    BY <1>9, Zenon DEF HealthCheck, Fire
  <2> QED
    BY <1>1, <1>4, <1>7, <2>1, <2>2
<1>10. ASSUME NEW n \in Node, PingAnswered(n) PROVE Honest(m)'
  <2>1. UNCHANGED clients
    BY <1>10 DEF PingAnswered
  <2>2. connected[n] \/ replaced[n] > 0
    BY <1>10 DEF PingAnswered, PingTracksClient
  <2>3. \/ Fail(n)
        \/ /\ isHealthy' = [isHealthy EXCEPT ![n] = TRUE]
           /\ failures' = [failures EXCEPT ![n] = 0]
    BY <1>10, Zenon DEF PingAnswered
  <2>4. CASE /\ isHealthy' = [isHealthy EXCEPT ![n] = TRUE]
             /\ failures' = [failures EXCEPT ![n] = 0]
    BY <2>1, <2>2, <2>4 DEF NodesTypeOK, HealthFlagHonest, Honest, clients
  <2> QED
    BY <1>4, <2>1, <2>3, <2>4
<1>11. ASSUME NEW n \in Node, ConnectFails(n) \/ ConnectTimesOut(n) \/ PingRejected(n)
       PROVE  Honest(m)'
  BY <1>4, <1>11 DEF ConnectFails, ConnectTimesOut, PingRejected
<1>12. CASE \E n \in Node : ConnectSucceeds(n) \/ LateConnect(n)
  BY <1>3, <1>12 DEF ConnectSucceeds, LateConnect
<1>13. CASE \/ StartupEnds \/ UNCHANGED nodesVars
            \/ \E n \in Node : \/ NodeGoesOrComes(n) \/ LateFailure(n)
                               \/ BreakerHalfOpens(n)
  BY <1>1, <1>13 DEF StartupEnds, NodeGoesOrComes, LateFailure, BreakerHalfOpens, nodesVars
<1> QED
  BY <1>2, <1>5, <1>6, <1>8, <1>9, <1>10, <1>11, <1>12, <1>13 DEF NodesNext

-----------------------------------------------------------------------------

\* The inductive invariant holds in every behaviour.
THEOREM NodesInvariance == NodesSpec => []NodesIInv
<1>1. NodesInit => NodesIInv
  <2> SUFFICES ASSUME NodesInit PROVE NodesIInv
    OBVIOUS
  <2>1. /\ settled \in [Node -> BOOLEAN] /\ connected \in [Node -> BOOLEAN]
        /\ isHealthy \in [Node -> BOOLEAN]
    BY Zenon DEF NodesInit
  <2>2. failures \in [Node -> 0 .. MaxConsecutiveFailures]
    BY LimitAssumption DEF NodesInit
  <2>3. NodesTypeOK
    BY <2>1, <2>2 DEF NodesInit, NodesTypeOK
  <2>4. PingTracksClient /\ HealthFlagHonest
    BY DEF NodesInit, PingTracksClient, HealthFlagHonest
  <2> QED
    BY <2>3, <2>4 DEF NodesIInv
<1>2. NodesIInv /\ [NodesNext]_nodesVars => NodesIInv'
  BY NodesTypeStep, PingStep, HonestStep DEF NodesIInv
<1> QED
  BY <1>1, <1>2, PTL DEF NodesSpec

\* Every variable keeps its type; the failure count stays within the limit.
THEOREM NodesTypeCorrect == NodesSpec => []NodesTypeOK
<1>1. NodesIInv => NodesTypeOK
  BY DEF NodesIInv
<1> QED
  BY <1>1, NodesInvariance, PTL

\* A node is reported healthy only while one of its clients is connected.
THEOREM HealthIsHonest == NodesSpec => []HealthFlagHonest
<1>1. NodesIInv => HealthFlagHonest
  BY DEF NodesIInv
<1> QED
  BY <1>1, NodesInvariance, PTL

-----------------------------------------------------------------------------
(* SystemHealth.                                                           *)

(***************************************************************************)
(* The inductive invariant.  AnswersHonest needs what every result says    *)
(* before they are put together (SystemSound), for the end-to-end check    *)
(* what it has passed (EndToEndSound), and that a check notices how the    *)
(* parts are while it runs (PresentSeen).                                  *)
(***************************************************************************)

CheckState ==
  [kind : {"idle", "system", "endToEnd"},
   step : {"idle", "users", "activity", "notifications"},
   database : {"pending", "healthy", "unhealthy"},
   alerts : {"pending", "healthy", "degraded"},
   notifications : {"pending", "healthy", "degraded"},
   nodes : {"pending", "healthy", "degraded", "unhealthy"},
   queue : {"pending", "healthy", "degraded"},
   answer : {"pending", "healthy", "degraded", "unhealthy"}]

PartsTyped ==
  /\ DOMAIN part = Part
  /\ \A p \in Part : part[p] \in Condition(p)

HealthTypeOK ==
  /\ PartsTyped
  /\ check \in [Check -> CheckState]
  /\ redis \in [Check \cup Probe -> {"idle", "set", "get", "del", "healthy", "unhealthy"}]
  /\ seen \in [Check -> [Part -> SUBSET UNION {Condition(p) : p \in Part}]]

PresentSeen == \A c \in Check : Running(c) => \A p \in Part : part[p] \in seen[c][p]

\* The key of a check that has set it is there, or was taken.
KeySound(c) ==
  /\ check[c].kind # "system" => redis[c] = "idle"
  /\ redis[c] \in {"set", "get", "del"} => check[c].answer = "pending"
  /\ redis[c] = "get" => key \/ c \in robbed
  /\ redis[c] = "healthy" => "up" \in seen[c]["redis"]
  /\ redis[c] = "unhealthy" => c \in robbed \/ "down" \in seen[c]["redis"]

SystemSound(c) ==
  check[c].kind = "system" =>
    /\ check[c].step = "idle"
    /\ "pending" \in {check[c].database, check[c].alerts, check[c].notifications}
         => check[c].answer = "pending"
    /\ check[c].database = "healthy" => seen[c]["database"] \cap {"up", "empty"} # {}
    /\ "unhealthy" = check[c].database \/ "degraded" \in {check[c].alerts, check[c].notifications}
         => "down" \in seen[c]["database"]
    /\ check[c].nodes = "healthy" => "all" \in seen[c]["nodes"]
    /\ check[c].nodes = "degraded" => "some" \in seen[c]["nodes"]
    /\ check[c].nodes = "unhealthy" => "none" \in seen[c]["nodes"]
    /\ check[c].queue = "healthy" => seen[c]["channel"] \cap {"open", "gone"} # {}
    /\ check[c].queue = "degraded" => "none" \in seen[c]["channel"]

EndToEndSound(c) ==
  /\ check[c].step # "idle" => check[c].kind = "endToEnd" /\ check[c].answer = "pending"
  /\ check[c].step \in {"activity", "notifications"} =>
       "up" \in seen[c]["database"] /\ ~ (seen[c]["nodes"] \subseteq {"none"})

Sound(c) ==
  KeySound(c) /\ SystemSound(c) /\ EndToEndSound(c) /\ AnswerHonest(c)

HealthIInv ==
  HealthTypeOK /\ PresentSeen /\ \A c \in Check : Sound(c)

-----------------------------------------------------------------------------

\* The parts, and how each can be.
LEMMA PartFacts ==
  /\ Part = {"database", "nodes", "channel", "redis"}
  /\ Condition("database") = {"up", "empty", "down"} /\ Condition("nodes") = {"all", "some", "none"}
  /\ Condition("channel") = {"none", "open", "gone"} /\ Condition("redis") = {"up", "down"}
  /\ Good("database") = {"up", "empty"} /\ Good("nodes") = {"all"}
  /\ Good("channel") = {"open", "gone"} /\ Good("redis") = {"up"}
  /\ Failed("database") = {"down"} /\ Failed("nodes") = {"none"}
  /\ Failed("channel") = {} /\ Failed("redis") = {"down"}
BY DEF Part, Condition, Good, Failed

\* What is sound of a check stays so while others act, the parts change, and
\* its key goes with the check taking note.
LEMMA SoundStays ==
  ASSUME NEW c \in Check, Sound(c),
         check'[c] = check[c], redis'[c] = redis[c],
         \A p \in Part : seen[c][p] \subseteq seen'[c][p],
         c \in robbed => c \in robbed',
         redis[c] = "get" /\ key => key' \/ c \in robbed'
  PROVE  Sound(c)'
<1> USE PartFacts
<1>1. KeySound(c)'
  BY DEF Sound, KeySound
<1>2. SystemSound(c)'
  BY DEF Sound, SystemSound
<1>3. EndToEndSound(c)'
  BY DEF Sound, EndToEndSound
<1>4. AnswerHonest(c)'
  BY DEF Sound, AnswerHonest
<1> QED
  BY <1>1, <1>2, <1>3, <1>4 DEF Sound

\* Types of the records the checks begin and end with.
LEMMA CheckStateFacts ==
  /\ Idle \in CheckState
  /\ \A n \in {"healthy", "degraded", "unhealthy"}, q \in {"healthy", "degraded"} :
       [Idle EXCEPT !.kind = "system", !.nodes = n, !.queue = q] \in CheckState
  /\ [Idle EXCEPT !.kind = "endToEnd", !.step = "users"] \in CheckState
  /\ \A a \in {"healthy", "unhealthy"} :
       [Idle EXCEPT !.kind = "endToEnd", !.answer = a] \in CheckState
BY DEF Idle, CheckState

-----------------------------------------------------------------------------
(* The steps of SystemHealth.                                              *)

\* A part that changes is noted by the checks that run, and so is a key that
\* Redis lost with it.
LEMMA ChangeStep ==
  ASSUME HealthIInv, Change
  PROVE  HealthIInv'
<1> USE PartFacts
<1>p. PICK p \in Part : \E v \in Condition(p) \ {part[p]} : PartChanges(p, v)
  BY DEF Change
<1>v. PICK v \in Condition(p) \ {part[p]} : PartChanges(p, v)
  BY <1>p
<1>1. /\ part' = [part EXCEPT ![p] = v]
      /\ seen' = [c \in Check |->
           IF Running(c) THEN [seen[c] EXCEPT ![p] = seen[c][p] \cup {v}] ELSE seen[c]]
      /\ (key' = key /\ robbed' = robbed) \/ KeyGone({})
  BY <1>v DEF PartChanges
<1>2. UNCHANGED <<redis, check>>
  BY DEF Change
<1>3. v \in UNION {Condition(q) : q \in Part}
  BY <1>v
<1>4. HealthTypeOK'
  <2>1. PartsTyped'
    BY <1>1 DEF HealthIInv, HealthTypeOK, PartsTyped
  <2>2. seen' \in [Check -> [Part -> SUBSET UNION {Condition(q) : q \in Part}]]
    <3> SUFFICES ASSUME NEW c \in Check
                 PROVE  seen'[c] \in [Part -> SUBSET UNION {Condition(q) : q \in Part}]
      BY <1>1
    <3>1. seen[c] \in [Part -> SUBSET UNION {Condition(q) : q \in Part}]
      BY DEF HealthIInv, HealthTypeOK
    <3>2. [seen[c] EXCEPT ![p] = seen[c][p] \cup {v}] \in [Part -> SUBSET UNION {Condition(q) : q \in Part}]
      BY <1>1, <1>3, <3>1
    <3> QED
      BY <1>1, <3>1, <3>2
  <2> QED
    BY <1>2, <2>1, <2>2 DEF HealthIInv, HealthTypeOK
<1>5. ASSUME NEW c \in Check PROVE \A q \in Part : seen[c][q] \subseteq seen'[c][q]
  BY <1>1 DEF HealthIInv, HealthTypeOK
<1>6. PresentSeen'
  <2> SUFFICES ASSUME NEW c \in Check, Running(c), NEW q \in Part
               PROVE  part'[q] \in seen'[c][q]
    BY <1>2 DEF PresentSeen, Running
  <2>1. part[q] \in seen[c][q]
    BY DEF HealthIInv, PresentSeen
  <2> QED
    BY <1>1, <2>1 DEF HealthIInv, HealthTypeOK, PartsTyped
<1>7. ASSUME NEW c \in Check PROVE Sound(c)'
  <2>1. redis[c] = "get" /\ key => key' \/ c \in robbed'
    BY <1>1 DEF KeyGone, HealthIInv, HealthTypeOK
  <2>2. c \in robbed => c \in robbed'
    BY <1>1 DEF KeyGone
  <2> QED
    BY <1>2, <1>5, <2>1, <2>2, SoundStays DEF HealthIInv
<1> QED
  BY <1>4, <1>6, <1>7 DEF HealthIInv

\* The steps on Redis, of a check or of a probe.
LEMMA RedisSteps ==
  ASSUME HealthIInv, NEW c \in Check \cup Probe,
         SetKey(c) \/ GetKey(c) \/ DeleteKey(c) \/ BeginProbe(c) \/ Expire
  PROVE  HealthIInv'
<1> USE PartFacts
<1>1. UNCHANGED <<part, check, seen>>
  BY DEF SetKey, GetKey, DeleteKey, BeginProbe, Expire, world
<1>2. PICK to \in {"set", "get", "del", "healthy", "unhealthy"} :
        redis' = [redis EXCEPT ![c] = to] \/ redis' = redis
  BY DEF SetKey, GetKey, DeleteKey, BeginProbe, Expire, RedisStep
<1>3. HealthTypeOK' /\ PresentSeen'
  BY <1>1, <1>2 DEF HealthIInv, HealthTypeOK, PartsTyped, PresentSeen, Running
<1>4. /\ robbed \subseteq robbed'
      /\ \A d \in Check : redis'[d] = redis[d] /\ redis[d] = "get" /\ key => key' \/ d \in robbed'
  BY DEF SetKey, GetKey, DeleteKey, BeginProbe, Expire, RedisStep, KeyGone, HealthIInv, HealthTypeOK
<1>5. ASSUME NEW d \in Check, redis'[d] = redis[d] PROVE Sound(d)'
  BY <1>1, <1>4, <1>5, SoundStays DEF HealthIInv
<1>6. ASSUME NEW d \in Check, redis'[d] # redis[d] PROVE Sound(d)'
  <2>1. d = c /\ d \notin Probe
    BY <1>2, <1>6, HealthAssumption DEF HealthIInv, HealthTypeOK
  <2>2. SetKey(d) \/ GetKey(d) \/ DeleteKey(d)
    BY <1>6, <2>1 DEF BeginProbe, Expire
  <2>3. redis[d] \in {"set", "get", "del"} /\ Sound(d)
    BY <2>2 DEF SetKey, GetKey, DeleteKey, HealthIInv
  <2>4. check[d].kind = "system" /\ check[d].answer = "pending"
    BY <2>3 DEF Sound, KeySound
  <2>5. part["redis"] \in {"up", "down"} /\ part["redis"] \in seen[d]["redis"]
    BY <2>4 DEF HealthIInv, HealthTypeOK, PartsTyped, PresentSeen, Running
  <2>6. KeySound(d)'
    <3>1. CASE SetKey(d)
      BY <1>1, <2>4, <2>5, <3>1 DEF SetKey, RedisStep, KeySound, HealthIInv, HealthTypeOK
    <3>2. CASE GetKey(d)
      BY <1>1, <2>3, <2>4, <2>5, <3>2 DEF GetKey, RedisStep, KeySound, Sound, HealthIInv, HealthTypeOK
    <3>3. CASE DeleteKey(d)
      BY <1>1, <2>4, <2>5, <3>3 DEF DeleteKey, RedisStep, KeySound, HealthIInv, HealthTypeOK
    <3> QED
      BY <2>2, <3>1, <3>2, <3>3
  <2>7. (SystemSound(d) /\ EndToEndSound(d) /\ AnswerHonest(d))'
    BY <1>1, <2>3, <2>4 DEF Sound, SystemSound, EndToEndSound, AnswerHonest
  <2> QED
    BY <2>6, <2>7 DEF Sound
<1> QED
  BY <1>3, <1>5, <1>6 DEF HealthIInv

\* A part answers a system check.
LEMMA PartAnswers ==
  ASSUME HealthIInv, NEW c \in Check,
         CheckDatabase(c) \/ CheckAlerts(c) \/ CheckNotifications(c)
  PROVE  HealthIInv'
<1> USE PartFacts
<1>1. UNCHANGED <<part, key, redis, seen, robbed>>
  BY DEF CheckDatabase, CheckAlerts, CheckNotifications, world
<1>2. /\ check[c] \in CheckState /\ check[c].kind = "system" /\ Sound(c)
      /\ part["database"] \in {"up", "empty", "down"}
  BY DEF CheckDatabase, CheckAlerts, CheckNotifications, HealthIInv, HealthTypeOK, PartsTyped
<1>3. check[c].answer = "pending"
  BY <1>2 DEF CheckDatabase, CheckAlerts, CheckNotifications, Sound, SystemSound
<1>4. part["database"] \in seen[c]["database"]
  BY <1>2, <1>3 DEF HealthIInv, PresentSeen, Running
<1>5. /\ check' \in [Check -> CheckState]
      /\ \A d \in Check \ {c} : check'[d] = check[d]
      /\ \A f \in {"kind", "step", "nodes", "queue", "answer"} : check'[c][f] = check[c][f]
  BY <1>2 DEF CheckDatabase, CheckAlerts, CheckNotifications, HealthIInv, HealthTypeOK,
              CheckState, AlertsHealth, NotificationsHealth
<1>6. HealthTypeOK' /\ PresentSeen'
  BY <1>1, <1>2, <1>3, <1>5 DEF HealthIInv, HealthTypeOK, PartsTyped, PresentSeen, Running
<1>7. ASSUME NEW d \in Check \ {c} PROVE Sound(d)'
  BY <1>1, <1>5, SoundStays DEF HealthIInv
<1>8. Sound(c)'
  <2>1. /\ check'[c].kind = "system" /\ check'[c].answer = "pending" /\ check'[c].step = "idle"
        /\ check'[c].nodes = check[c].nodes /\ check'[c].queue = check[c].queue
    BY <1>2, <1>3, <1>5 DEF Sound, SystemSound
  <2>2. /\ check'[c].database = "healthy" => seen[c]["database"] \cap {"up", "empty"} # {}
        /\ "unhealthy" = check'[c].database \/ "degraded" \in {check'[c].alerts, check'[c].notifications}
             => "down" \in seen[c]["database"]
    <3>1. CASE CheckDatabase(c)
      BY <1>2, <1>4, <3>1 DEF CheckDatabase, DatabaseAnswers, CheckState, Sound, SystemSound,
                              HealthIInv, HealthTypeOK
    <3>2. CASE CheckAlerts(c)
      BY <1>2, <1>4, <3>2 DEF CheckAlerts, AlertsHealth, DatabaseAnswers, CheckState, Sound,
                              SystemSound, HealthIInv, HealthTypeOK
    <3>3. CASE CheckNotifications(c)
      BY <1>2, <1>4, <3>3 DEF CheckNotifications, NotificationsHealth, DatabaseAnswers, CheckState,
                              Sound, SystemSound, HealthIInv, HealthTypeOK
    <3> QED
      BY <3>1, <3>2, <3>3
  <2>3. SystemSound(c)'
    BY <1>1, <1>2, <2>1, <2>2 DEF Sound, SystemSound
  <2> QED
    BY <1>1, <1>2, <2>1, <2>3 DEF Sound, KeySound, EndToEndSound, AnswerHonest
<1> QED
  BY <1>6, <1>7, <1>8 DEF HealthIInv

\* A system check has all its results and is answered.
LEMMA SystemAnswers ==
  ASSUME HealthIInv, NEW c \in Check, AnswerSystem(c)
  PROVE  HealthIInv'
<1> USE PartFacts
<1> DEFINE answer == OverallStatus(Results(c))
<1>1. UNCHANGED <<part, key, redis, seen, robbed>>
  BY DEF AnswerSystem, world
<1>2. /\ check[c] \in CheckState /\ check[c].kind = "system" /\ Sound(c)
      /\ Results(c) \subseteq Result /\ check[c].answer = "pending"
      /\ check' = [check EXCEPT ![c].answer = answer]
  BY DEF AnswerSystem, Running, HealthIInv, HealthTypeOK
<1>3. answer \in {"healthy", "degraded", "unhealthy"}
  BY DEF OverallStatus, WorstOf
<1>4. /\ check' \in [Check -> CheckState]
      /\ \A d \in Check \ {c} : check'[d] = check[d]
      /\ check'[c] = [check[c] EXCEPT !.answer = answer]
  BY <1>2, <1>3 DEF HealthIInv, HealthTypeOK, CheckState
<1>5. /\ check'[c].answer = answer /\ check'[c].kind = "system" /\ check'[c].step = check[c].step
      /\ check'[c].database = check[c].database /\ check'[c].alerts = check[c].alerts
      /\ check'[c].notifications = check[c].notifications
      /\ check'[c].nodes = check[c].nodes /\ check'[c].queue = check[c].queue
  BY <1>2, <1>4 DEF CheckState
<1>6. HealthTypeOK' /\ PresentSeen'
  BY <1>1, <1>2, <1>3, <1>4, <1>5 DEF HealthIInv, HealthTypeOK, PartsTyped, PresentSeen, Running
<1>7. ASSUME NEW d \in Check \ {c} PROVE Sound(d)'
  BY <1>1, <1>4, SoundStays DEF HealthIInv
<1>8. Sound(c)'
  <2>1. /\ check[c].database \in {"healthy", "unhealthy"} /\ redis[c] \in Result
        /\ check[c].alerts \in Result /\ check[c].notifications \in Result
        /\ check[c].nodes \in Result /\ check[c].queue \in Result
    BY <1>2 DEF Results, Result, CheckState
  <2>2. KeySound(c)' /\ SystemSound(c)' /\ EndToEndSound(c)'
    BY <1>1, <1>2, <1>5, <2>1 DEF Sound, KeySound, SystemSound, EndToEndSound, Result
  <2>3. answer = "healthy" =>
          /\ check[c].database = "healthy" /\ check[c].nodes = "healthy"
          /\ check[c].queue = "healthy" /\ redis[c] = "healthy"
    BY <2>1 DEF OverallStatus, WorstOf, Results, Result
  <2>4. answer = "unhealthy" => "unhealthy" \in {check[c].database, check[c].nodes, redis[c]}
    BY <1>2 DEF OverallStatus, WorstOf, Results, CheckState
  <2>5. answer = "degraded" =>
          "degraded" \in {check[c].alerts, check[c].notifications, check[c].nodes, check[c].queue}
    BY <1>2, <1>3, HealthAssumption DEF OverallStatus, WorstOf, Results, CheckState, HealthIInv, HealthTypeOK
  <2>6. answer = "healthy" => \A p \in Part : seen[c][p] \cap Good(p) # {}
    BY <1>2, <2>3 DEF Sound, SystemSound, KeySound
  <2>7. answer = "unhealthy" => c \in robbed \/ \E p \in Part : seen[c][p] \cap Failed(p) # {}
    BY <1>2, <2>4 DEF Sound, SystemSound, KeySound
  <2>8. answer = "degraded" => \E p \in Part : ~ (seen[c][p] \subseteq Good(p))
    BY <1>2, <2>5 DEF Sound, SystemSound
  <2>9. AnswerHonest(c)'
    BY <1>1, <1>5, <2>6, <2>7, <2>8 DEF AnswerHonest
  <2> QED
    BY <2>2, <2>9 DEF Sound
<1> QED
  BY <1>6, <1>7, <1>8 DEF HealthIInv

\* A check begins: it knows how the parts are now, and nothing else.
LEMMA CheckBegins ==
  ASSUME HealthIInv, NEW c \in Check, BeginSystem(c) \/ BeginEndToEnd(c)
  PROVE  HealthIInv'
<1> USE PartFacts
<1>1. /\ UNCHANGED <<part, key>>
      /\ seen' = [seen EXCEPT ![c] = [p \in Part |-> {part[p]}]]
      /\ check[c].kind = "idle" /\ Sound(c) /\ PartsTyped
  BY DEF BeginSystem, BeginEndToEnd, world, HealthIInv, HealthTypeOK
<1>2. /\ \A d \in Check \ {c} : /\ check'[d] = check[d] /\ redis'[d] = redis[d]
                               /\ seen'[d] = seen[d] /\ (d \in robbed <=> d \in robbed')
      /\ \A p \in Part : seen'[c][p] = {part[p]}
  BY <1>1 DEF BeginSystem, BeginEndToEnd, RedisStep, HealthIInv, HealthTypeOK
<1>3. \A p \in Part : part[p] \in Condition(p)
  BY <1>1 DEF PartsTyped
<1>4. seen' \in [Check -> [Part -> SUBSET UNION {Condition(p) : p \in Part}]]
  <2>1. [p \in Part |-> {part[p]}] \in [Part -> SUBSET UNION {Condition(p) : p \in Part}]
    BY <1>3
  <2> QED
    BY <1>1, <2>1 DEF HealthIInv, HealthTypeOK
<1>5. /\ NodesResult \in {"healthy", "degraded", "unhealthy"}
      /\ QueueResult \in {"healthy", "degraded"}
      /\ NodesResult = "healthy" => part["nodes"] = "all"
      /\ NodesResult = "degraded" => part["nodes"] = "some"
      /\ NodesResult = "unhealthy" => part["nodes"] = "none"
      /\ QueueResult = "healthy" => part["channel"] \in {"open", "gone"}
      /\ QueueResult = "degraded" => part["channel"] = "none"
  BY <1>3 DEF NodesResult, NodesAre, QueueResult, QueueHealth
<1>6. \E state \in CheckState : check' = [check EXCEPT ![c] = state]
  <2>1. CASE BeginSystem(c)
    <3> DEFINE state == [Idle EXCEPT !.kind = "system", !.nodes = NodesResult, !.queue = QueueResult]
    <3>1. state \in CheckState
      BY <1>5, CheckStateFacts
    <3>2. check' = [check EXCEPT ![c] = state]
      BY <2>1 DEF BeginSystem
    <3> QED
      BY <3>1, <3>2
  <2>2. CASE BeginEndToEnd(c)
    BY <2>2, CheckStateFacts DEF BeginEndToEnd
  <2> QED
    BY <2>1, <2>2
<1>7. /\ check' \in [Check -> CheckState]
      /\ redis' \in [Check \cup Probe -> {"idle", "set", "get", "del", "healthy", "unhealthy"}]
  <2>1. check' \in [Check -> CheckState]
    BY <1>6 DEF HealthIInv, HealthTypeOK
  <2>2. redis' \in [Check \cup Probe -> {"idle", "set", "get", "del", "healthy", "unhealthy"}]
    BY DEF BeginSystem, BeginEndToEnd, RedisStep, HealthIInv, HealthTypeOK
  <2> QED
    BY <2>1, <2>2
<1>8. HealthTypeOK' /\ PresentSeen'
  <2>1. HealthTypeOK'
    BY <1>1, <1>4, <1>7 DEF HealthTypeOK, PartsTyped
  <2>2. PresentSeen'
    BY <1>1, <1>2 DEF HealthIInv, PresentSeen, Running
  <2> QED
    BY <2>1, <2>2
<1>9. ASSUME NEW d \in Check \ {c} PROVE Sound(d)'
  BY <1>1, <1>2, SoundStays DEF HealthIInv
<1>10. Sound(c)'
  <2>1. CASE BeginSystem(c)
    <3>1. /\ check'[c].kind = "system" /\ check'[c].step = "idle" /\ check'[c].answer = "pending"
          /\ check'[c].database = "pending" /\ check'[c].alerts = "pending"
          /\ check'[c].notifications = "pending" /\ check'[c].nodes = NodesResult
          /\ check'[c].queue = QueueResult /\ redis'[c] = "set"
      BY <2>1 DEF BeginSystem, RedisStep, Idle, HealthIInv, HealthTypeOK
    <3> QED
      BY <1>2, <1>5, <3>1 DEF Sound, KeySound, SystemSound, EndToEndSound, AnswerHonest
  <2>2. CASE BeginEndToEnd(c)
    <3>1. /\ check'[c].kind = "endToEnd" /\ check'[c].step = "users" /\ check'[c].answer = "pending"
          /\ redis'[c] = "idle"
      BY <1>1, <2>2 DEF BeginEndToEnd, Idle, Sound, KeySound, HealthIInv, HealthTypeOK
    <3> QED
      BY <3>1 DEF Sound, KeySound, SystemSound, EndToEndSound, AnswerHonest
  <2> QED
    BY <2>1, <2>2
<1> QED
  BY <1>8, <1>9, <1>10 DEF HealthIInv

\* The end-to-end check goes on, or fails and answers.
LEMMA EndToEndGoesOn ==
  ASSUME HealthIInv, NEW c \in Check, CountUsers(c) \/ CountRecent(c)
  PROVE  HealthIInv'
<1> USE PartFacts
<1>1. UNCHANGED <<part, key, redis, seen, robbed>>
  BY DEF CountUsers, CountRecent, world
<1>2. /\ check[c] \in CheckState /\ Sound(c) /\ check[c].kind = "endToEnd"
      /\ check[c].answer = "pending" /\ redis[c] = "idle"
  BY DEF CountUsers, CountRecent, HealthIInv, HealthTypeOK, Sound, EndToEndSound, KeySound
<1>3. /\ part["database"] \in {"up", "empty", "down"} /\ part["database"] \in seen[c]["database"]
      /\ part["nodes"] \in {"all", "some", "none"} /\ part["nodes"] \in seen[c]["nodes"]
  BY <1>2 DEF HealthIInv, HealthTypeOK, PartsTyped, PresentSeen, Running
<1>4. \/ \E answer \in {"healthy", "unhealthy"} :
           /\ check' = [check EXCEPT ![c] = [Idle EXCEPT !.kind = "endToEnd", !.answer = answer]]
           /\ answer = "healthy" => "up" \in seen[c]["database"] /\ ~ (seen[c]["nodes"] \subseteq {"none"})
           /\ answer = "unhealthy" =>
                \/ seen[c]["database"] \cap {"down", "empty"} # {}
                \/ "none" \in seen[c]["nodes"]
      \/ \E step \in {"activity", "notifications"} :
           /\ check' = [check EXCEPT ![c].step = step]
           /\ "up" \in seen[c]["database"] /\ ~ (seen[c]["nodes"] \subseteq {"none"})
  <2>1. CASE CountUsers(c)
    BY <1>3, <2>1 DEF CountUsers, AnswerEndToEnd, NodesAre
  <2>2. CASE CountRecent(c)
    BY <1>2, <1>3, <2>2 DEF CountRecent, AnswerEndToEnd, DatabaseAnswers, Sound, EndToEndSound
  <2> QED
    BY <2>1, <2>2
<1>5. /\ \A d \in Check \ {c} : check'[d] = check[d]
      /\ check' \in [Check -> CheckState]
      /\ check'[c].kind = "endToEnd"
      /\ \/ check'[c].answer \in {"healthy", "unhealthy"}
         \/ check'[c].step \in {"activity", "notifications"} /\ check'[c].answer = "pending"
  <2>1. ASSUME NEW answer \in {"healthy", "unhealthy"},
               check' = [check EXCEPT ![c] = [Idle EXCEPT !.kind = "endToEnd", !.answer = answer]]
        PROVE  /\ \A d \in Check \ {c} : check'[d] = check[d]
               /\ check' \in [Check -> CheckState]
               /\ check'[c].kind = "endToEnd" /\ check'[c].answer = answer
    <3> DEFINE state == [Idle EXCEPT !.kind = "endToEnd", !.answer = answer]
    <3>1. state \in CheckState
      BY CheckStateFacts
    <3>2. state.kind = "endToEnd" /\ state.answer = answer
      BY DEF Idle
    <3>3. check' = [check EXCEPT ![c] = state]
      BY <2>1
    <3> HIDE DEF state
    <3> QED
      BY <3>1, <3>2, <3>3 DEF HealthIInv, HealthTypeOK
  <2>2. ASSUME NEW step \in {"activity", "notifications"}, check' = [check EXCEPT ![c].step = step]
        PROVE  /\ \A d \in Check \ {c} : check'[d] = check[d]
               /\ check' \in [Check -> CheckState]
               /\ check'[c].kind = "endToEnd" /\ check'[c].step = step
               /\ check'[c].answer = "pending"
    BY <1>2, <2>2 DEF HealthIInv, HealthTypeOK, CheckState
  <2> QED
    BY <1>4, <2>1, <2>2
<1>6. Sound(c)'
  <2>1. CASE check'[c].answer = "pending"
    <3>1. "up" \in seen[c]["database"] /\ ~ (seen[c]["nodes"] \subseteq {"none"})
      <4>1. ASSUME NEW answer \in {"healthy", "unhealthy"},
                   check' = [check EXCEPT ![c] = [Idle EXCEPT !.kind = "endToEnd", !.answer = answer]]
            PROVE  FALSE
        BY <2>1, <4>1 DEF HealthIInv, HealthTypeOK, Idle
      <4> QED
        BY <1>4, <4>1
    <3> QED
      BY <1>1, <1>2, <1>5, <2>1, <3>1 DEF Sound, KeySound, SystemSound, EndToEndSound, AnswerHonest
  <2>2. CASE check'[c].answer # "pending"
    <3>1. PICK answer \in {"healthy", "unhealthy"} :
           /\ check' = [check EXCEPT ![c] = [Idle EXCEPT !.kind = "endToEnd", !.answer = answer]]
           /\ answer = "healthy" => "up" \in seen[c]["database"] /\ ~ (seen[c]["nodes"] \subseteq {"none"})
           /\ answer = "unhealthy" =>
                \/ seen[c]["database"] \cap {"down", "empty"} # {}
                \/ "none" \in seen[c]["nodes"]
      BY <1>2, <1>4, <2>2 DEF HealthIInv, HealthTypeOK, CheckState
    <3>2. check'[c].step = "idle" /\ check'[c].answer = answer
      BY <3>1 DEF Idle, HealthIInv, HealthTypeOK
    <3> QED
      BY <1>1, <1>2, <1>5, <3>1, <3>2 DEF Sound, KeySound, SystemSound, EndToEndSound, AnswerHonest
  <2> QED
    BY <2>1, <2>2
<1>7. HealthTypeOK' /\ PresentSeen'
  BY <1>1, <1>2, <1>5 DEF HealthIInv, HealthTypeOK, PartsTyped, PresentSeen, Running
<1>8. ASSUME NEW d \in Check \ {c} PROVE Sound(d)'
  BY <1>1, <1>5, SoundStays DEF HealthIInv
<1> QED
  BY <1>6, <1>7, <1>8 DEF HealthIInv

\* An answer that was sent is forgotten.
LEMMA CheckCloses ==
  ASSUME HealthIInv, NEW c \in Check, Close(c)
  PROVE  HealthIInv'
<1> USE PartFacts
<1>1. /\ UNCHANGED <<part, key>>
      /\ check' = [check EXCEPT ![c] = Idle] /\ redis' = [redis EXCEPT ![c] = "idle"]
      /\ seen' = [seen EXCEPT ![c] = [p \in Part |-> {}]] /\ robbed' = robbed \ {c}
  BY DEF Close, RedisStep, world
<1>2. HealthTypeOK'
  BY <1>1, CheckStateFacts DEF HealthIInv, HealthTypeOK, PartsTyped
<1>3. Idle.kind = "idle" /\ Idle.step = "idle" /\ Idle.answer = "pending"
  BY DEF Idle
<1>4. PresentSeen'
  BY <1>1, <1>3 DEF HealthIInv, HealthTypeOK, PresentSeen, Running
<1>5. ASSUME NEW d \in Check \ {c} PROVE Sound(d)'
  BY <1>1, SoundStays DEF HealthIInv, HealthTypeOK
<1>6. Sound(c)'
  BY <1>1, <1>3 DEF HealthIInv, HealthTypeOK, Sound, KeySound, SystemSound, EndToEndSound, AnswerHonest
<1> QED
  BY <1>2, <1>4, <1>5, <1>6 DEF HealthIInv

\* The inductive invariant of the health checks holds in every behaviour.
THEOREM HealthInvariance == HealthSpec => []HealthIInv
<1>1. HealthInit => HealthIInv
  <2> SUFFICES ASSUME HealthInit PROVE HealthIInv
    OBVIOUS
  <2>1. Idle.kind = "idle" /\ Idle.step = "idle" /\ Idle.answer = "pending"
    BY DEF Idle
  <2>2. HealthTypeOK
    BY CheckStateFacts DEF HealthInit, HealthTypeOK, PartsTyped
  <2>3. PresentSeen
    BY <2>1 DEF HealthInit, PresentSeen, Running
  <2>4. \A c \in Check : Sound(c)
    BY <2>1 DEF HealthInit, Sound, KeySound, SystemSound, EndToEndSound, AnswerHonest
  <2> QED
    BY <2>2, <2>3, <2>4 DEF HealthIInv
<1>2. HealthIInv /\ [HealthNext]_healthVars => HealthIInv'
  <2> SUFFICES ASSUME HealthIInv, [HealthNext]_healthVars PROVE HealthIInv'
    OBVIOUS
  <2>1. CASE Change
    BY <2>1, ChangeStep
  <2>2. CASE Expire
    <3>1. CASE Check \cup Probe = {}
      <4>1. UNCHANGED <<part, redis, check, seen>> /\ Check = {}
        BY <2>2, <3>1 DEF Expire, world
      <4> QED
        BY <4>1 DEF HealthIInv, HealthTypeOK, PartsTyped, PresentSeen
    <3>2. CASE Check \cup Probe # {}
      BY <2>2, <3>2, RedisSteps
    <3> QED
      BY <3>1, <3>2
  <2>3. ASSUME NEW c \in Check \cup Probe, SetKey(c) \/ GetKey(c) \/ DeleteKey(c) \/ BeginProbe(c)
        PROVE  HealthIInv'
    BY <2>3, RedisSteps
  <2>4. ASSUME NEW c \in Check, BeginSystem(c) \/ BeginEndToEnd(c)
        PROVE  HealthIInv'
    BY <2>4, CheckBegins
  <2>5. ASSUME NEW c \in Check, CheckDatabase(c) \/ CheckAlerts(c) \/ CheckNotifications(c)
        PROVE  HealthIInv'
    BY <2>5, PartAnswers
  <2>6. ASSUME NEW c \in Check, AnswerSystem(c) PROVE HealthIInv'
    BY <2>6, SystemAnswers
  <2>7. ASSUME NEW c \in Check, CountUsers(c) \/ CountRecent(c) PROVE HealthIInv'
    BY <2>7, EndToEndGoesOn
  <2>8. ASSUME NEW c \in Check, Close(c) PROVE HealthIInv'
    BY <2>8, CheckCloses
  <2>9. CASE UNCHANGED healthVars
    <3>1. UNCHANGED <<part, key, redis, check, seen, robbed>>
      BY <2>9 DEF healthVars, world
    <3>2. HealthTypeOK' /\ PresentSeen'
      BY <3>1 DEF HealthIInv, HealthTypeOK, PartsTyped, PresentSeen, Running
    <3>3. ASSUME NEW c \in Check PROVE Sound(c)'
      BY <3>1, SoundStays DEF HealthIInv
    <3> QED
      BY <3>2, <3>3 DEF HealthIInv
  <2> QED
    BY <2>1, <2>2, <2>3, <2>4, <2>5, <2>6, <2>7, <2>8, <2>9 DEF HealthNext
<1> QED
  BY <1>1, <1>2, PTL DEF HealthSpec

\* The answer of /health/system, /health/ready and /health/e2e was so at a
\* moment of the check, however many checks share the key in Redis and however
\* often the parts fail and recover. Of the queue it says only that a channel
\* was once set: the field keeps a dead channel, and getHealth tests no more.
THEOREM AnswersAreHonest == HealthSpec => []AnswersHonest
<1>1. HealthIInv => AnswersHonest
  BY DEF HealthIInv, Sound, AnswersHonest
<1> QED
  BY <1>1, HealthInvariance, PTL

=============================================================================
