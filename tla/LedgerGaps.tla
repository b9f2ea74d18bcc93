----------------------------- MODULE LedgerGaps -----------------------------
(***************************************************************************)
(* How XRPLConnectionManagerService notices ledgers it was not told about  *)
(* and fetches them afterwards: handleLedgerClosed, which compares every   *)
(* ledger message with the last one, and backfillLedgerRange with retry(). *)
(*                                                                         *)
(* Every connected node sends its own sequence of ledger messages, and all *)
(* of them go through one lastSeenLedger.  A node may be behind the        *)
(* network.  A message stands for its ledger and the transactions in it.   *)
(* lastSeenLedger and the gaps live in memory.                             *)
(***************************************************************************)
EXTENDS Naturals, XrplNodes

CONSTANTS
  Backfiller,     \* calls of backfillLedgerRange that may overlap
  RetryAttempts,  \* XRPL_CONSTANTS.RETRY_ATTEMPTS
  MaxLag,         \* bound: how far behind a node is when it connects
  MaxLedger,      \* bound: ledgers the network closes
  MaxCrashes      \* bound: process crashes

ASSUME GapBoundAssumption ==
  /\ RetryAttempts \in Nat
  /\ MaxLag \in Nat
  /\ MaxLedger \in Nat
  /\ MaxCrashes \in Nat

VARIABLES
  up,              \* whether the process runs
  head,            \* the last ledger the network closed
  nextMessage,     \* per node, the ledger its client reports next; 0: no client
  lastSeenLedger,  \* this.lastSeenLedger
  ledgerGaps,      \* this.ledgerGaps
  backfill,        \* per caller, its range, position and failed tries
  firstSeen,       \* history: the first ledger reported since the start
  topSeen,         \* history: the highest ledger reported since the start
  reported,        \* history: ledgers reported by some node
  fetched,         \* history: ledgers fetched by a backfill
  crashes

memory  == <<lastSeenLedger, ledgerGaps, firstSeen, topSeen>>
history == <<reported, fetched>>
gapsVars    == <<up, head, nextMessage, memory, backfill, history, crashes>>

Gap == {gap \in [startLedger : Nat, endLedger : Nat] : gap.startLedger <= gap.endLedger}

Backfill ==
  [running : BOOLEAN, start : Nat, end : Nat, next : Nat, tries : 0 .. RetryAttempts]

NoBackfill == [running |-> FALSE, start |-> 0, end |-> 0, next |-> 0, tries |-> 0]

GapsInit ==
  /\ up = TRUE
  /\ head = 1
  /\ nextMessage = [n \in Node |-> 0]
  /\ lastSeenLedger = 0
  /\ ledgerGaps = {}
  /\ backfill = [b \in Backfiller |-> NoBackfill]
  /\ firstSeen = 0 /\ topSeen = 0
  /\ reported = {} /\ fetched = {}
  /\ crashes = 0

-----------------------------------------------------------------------------
(* The network, the nodes and the process.                                 *)

CloseLedger ==
  /\ head < MaxLedger
  /\ head' = head + 1
  /\ UNCHANGED <<up, nextMessage, memory, backfill, history, crashes>>

\* The node reports the ledgers that it validates from now on.
Connect(n) ==
  /\ up
  /\ nextMessage[n] = 0
  /\ \E l \in 1 .. head + 1 :
       /\ l + MaxLag > head
       /\ nextMessage' = [nextMessage EXCEPT ![n] = l]
  /\ UNCHANGED <<up, head, memory, backfill, history, crashes>>

Disconnect(n) ==
  /\ nextMessage[n] # 0
  /\ nextMessage' = [nextMessage EXCEPT ![n] = 0]
  /\ UNCHANGED <<up, head, memory, backfill, history, crashes>>

Crash ==
  /\ up
  /\ crashes < MaxCrashes
  /\ crashes' = crashes + 1
  /\ up' = FALSE
  /\ nextMessage' = [n \in Node |-> 0]
  /\ lastSeenLedger' = 0
  /\ ledgerGaps' = {}
  /\ firstSeen' = 0 /\ topSeen' = 0
  /\ backfill' = [b \in Backfiller |-> NoBackfill]
  /\ UNCHANGED <<head, history>>

Restart ==
  /\ ~up
  /\ up' = TRUE
  /\ UNCHANGED <<head, nextMessage, memory, backfill, history, crashes>>

-----------------------------------------------------------------------------
(* Ledger messages.                                                        *)

\* Variant for the sensitivity checks: the gap stops one ledger early.
NewGapsShort(l) ==
  IF lastSeenLedger > 0 /\ l > lastSeenLedger + 2
    THEN {[startLedger |-> lastSeenLedger + 1, endLedger |-> l - 2]}
    ELSE {}

\* Variant: a gap is recorded for every message.
NewGapsUnchecked(l) ==
  {[startLedger |-> lastSeenLedger + 1, endLedger |-> l - 1]}

\* The gap between the last message, whichever node sent it, and ledger l.
NewGaps(l) ==
  IF lastSeenLedger > 0 /\ l > lastSeenLedger + 1
    THEN {[startLedger |-> lastSeenLedger + 1, endLedger |-> l - 1]}
    ELSE {}

HasMessage(n) == nextMessage[n] # 0 /\ nextMessage[n] <= head

HandleLedgerClosed(n) ==
  LET l == nextMessage[n] IN
  /\ HasMessage(n)
  /\ nextMessage' = [nextMessage EXCEPT ![n] = l + 1]
  /\ ledgerGaps' = ledgerGaps \cup NewGaps(l)
  /\ lastSeenLedger' = l
  /\ firstSeen' = IF lastSeenLedger = 0 THEN l ELSE firstSeen
  /\ topSeen' = IF l > topSeen THEN l ELSE topSeen
  /\ reported' = reported \cup {l}
  /\ UNCHANGED <<up, head, backfill, fetched, crashes>>

\* A message without a numeric index and a hash is refused.
RefuseLedgerMessage(n) ==
  /\ HasMessage(n)
  /\ nextMessage' = [nextMessage EXCEPT ![n] = @ + 1]
  /\ UNCHANGED <<up, head, memory, backfill, history, crashes>>

-----------------------------------------------------------------------------
(* backfillLedgerRange, called with a gap that detectLedgerGaps returned.  *)

\* getHealthyConnection throws when no node is connected, and nothing changes.
StartBackfill(b, gap) ==
  /\ ~backfill[b].running
  /\ \E n \in Node : nextMessage[n] # 0
  /\ backfill' = [backfill EXCEPT ![b] =
       [running |-> TRUE, start |-> gap.startLedger, end |-> gap.endLedger,
        next |-> gap.startLedger, tries |-> 0]]
  /\ UNCHANGED <<up, head, nextMessage, memory, history, crashes>>

FetchLedger(b) ==
  /\ backfill[b].running
  /\ backfill[b].next <= backfill[b].end
  /\ fetched' = fetched \cup {backfill[b].next}
  /\ backfill' = [backfill EXCEPT ![b].next = @ + 1, ![b].tries = 0]
  /\ UNCHANGED <<up, head, nextMessage, memory, reported, crashes>>

\* Variant: after the last try retry() begins again.
RequestFailsForEver(b) ==
  /\ backfill[b].running
  /\ backfill[b].next <= backfill[b].end
  /\ backfill' = [backfill EXCEPT ![b].tries =
       IF @ < RetryAttempts THEN @ + 1 ELSE 0]
  /\ UNCHANGED <<up, head, nextMessage, memory, history, crashes>>

\* A request fails: retry() tries it again, RetryAttempts times, and then the
\* whole call throws and the gap stays.
RequestFails(b) ==
  /\ backfill[b].running
  /\ backfill[b].next <= backfill[b].end
  /\ backfill' = IF backfill[b].tries < RetryAttempts
                   THEN [backfill EXCEPT ![b].tries = @ + 1]
                   ELSE [backfill EXCEPT ![b] = NoBackfill]
  /\ UNCHANGED <<up, head, nextMessage, memory, history, crashes>>

\* Variant: the last ledger of the range is taken as fetched.
RangeDoneEarly(b) == backfill[b].next >= backfill[b].end

RangeDone(b) == backfill[b].next > backfill[b].end

FinishBackfill(b) ==
  /\ backfill[b].running
  /\ RangeDone(b)
  /\ ledgerGaps' = {gap \in ledgerGaps :
       ~(gap.startLedger = backfill[b].start /\ gap.endLedger = backfill[b].end)}
  /\ backfill' = [backfill EXCEPT ![b] = NoBackfill]
  /\ UNCHANGED <<up, head, nextMessage, lastSeenLedger, firstSeen, topSeen,
                 history, crashes>>

-----------------------------------------------------------------------------

BackfillStep(b) == FetchLedger(b) \/ RequestFails(b) \/ FinishBackfill(b)

GapsNext ==
  \/ CloseLedger
  \/ Crash
  \/ Restart
  \/ \E n \in Node : Connect(n)
  \/ \E n \in Node : Disconnect(n)
  \/ \E n \in Node : HandleLedgerClosed(n)
  \/ \E n \in Node : RefuseLedgerMessage(n)
  \/ \E b \in Backfiller, gap \in ledgerGaps : StartBackfill(b, gap)
  \/ \E b \in Backfiller : FetchLedger(b)
  \/ \E b \in Backfiller : RequestFails(b)
  \/ \E b \in Backfiller : FinishBackfill(b)

\* A request is answered, rejected or times out.
GapsFairness == \A b \in Backfiller : WF_gapsVars(BackfillStep(b))

GapsSpec == GapsInit /\ [][GapsNext]_gapsVars /\ GapsFairness

-----------------------------------------------------------------------------
(* Properties.                                                             *)

\* The type of every variable.  A gap is never empty, and no request is tried
\* more often than RETRY_ATTEMPTS allows.
GapsTypeOK ==
  /\ up \in BOOLEAN
  /\ head \in Nat
  /\ nextMessage \in [Node -> Nat]
  /\ lastSeenLedger \in Nat
  /\ ledgerGaps \subseteq Gap
  /\ backfill \in [Backfiller -> Backfill]
  /\ firstSeen \in Nat /\ topSeen \in Nat
  /\ reported \subseteq Nat /\ fetched \subseteq Nat
  /\ crashes \in Nat

InGap(l) == \E gap \in ledgerGaps : l \in gap.startLedger .. gap.endLedger

Accounted(l) == l \in reported \/ l \in fetched \/ InGap(l)

\* Since the process started, every ledger up to the highest one reported has
\* been reported or fetched, or is in a known gap: several nodes at different
\* heights, refused messages, reconnections that skip ledgers and backfills
\* that overlap or fail never leave a hole nobody knows of.
NoSilentGap == \A l \in firstSeen .. topSeen : topSeen > 0 => Accounted(l)

\* A known gap is forgotten by a running process only when every ledger of it
\* has been fetched, however many backfills overlap or fail half way.
GapClosedOnlyWhenFetched ==
  [][ \A gap \in ledgerGaps :
        gap \notin ledgerGaps' /\ up' =>
          \A l \in gap.startLedger .. gap.endLedger : l \in fetched
    ]_gapsVars

\* A backfill comes to an end, also when every request fails: the retries are
\* bounded, and the caller gets its answer.
BackfillEnds ==
  \A b \in Backfiller : backfill[b].running ~> ~backfill[b].running
=============================================================================
