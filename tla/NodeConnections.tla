-------------------------- MODULE NodeConnections --------------------------
(***************************************************************************)
(* The connections of XRPLConnectionManagerService to its nodes: the first *)
(* attempts, the circuit breaker around every attempt, the reconnect timer *)
(* set when a client disconnects and the periodic health check.            *)
(*                                                                         *)
(* Timer and health check do not know of each other, so a node may have    *)
(* several attempts under way and, when two succeed, several connected     *)
(* clients.  Only the last one is in the connections map; the others stay  *)
(* subscribed, and their disconnection is handled as if it were the node's. *)
(* The breaker is opossum's: a failure rate above 5 % opens it, which any  *)
(* failure does at the rate of these attempts.                             *)
(***************************************************************************)
EXTENDS Naturals, XrplNodes

CONSTANTS
  MaxConsecutiveFailures,  \* this.maxConsecutiveFailures
  PingOutcomes,            \* whether an answer has result.status "success"
  MaxRunning,              \* bound: attempts of a node under way
  MaxLate,                 \* bound: attempts that outlived their timeout
  MaxReplaced,             \* bound: connected clients that were replaced
  MaxTimers                \* bound: reconnect timers of a node

ASSUME LimitAssumption ==
  /\ MaxConsecutiveFailures \in Nat \ {0}
  /\ PingOutcomes \subseteq BOOLEAN
  /\ MaxRunning \in Nat \ {0}
  /\ MaxLate \in Nat
  /\ MaxReplaced \in Nat
  /\ MaxTimers \in Nat

VARIABLES
  status,     \* of the process: "starting", "up", or "failed" to start
  reachable,  \* the node answers, in time
  settled,    \* the attempt made at startup has ended
  connected,  \* the client in the connections map is connected
  replaced,   \* connected clients that are no longer in the map
  isHealthy,  \* node.isHealthy
  failures,   \* node.consecutiveFailures, counted up to the limit
  breaker,    \* "closed", "open", "halfOpen", or "trial": half open and used
  running,    \* attempts the breaker waits for
  late,       \* attempts the breaker gave up on, still trying
  timers,     \* reconnect timers set
  ping        \* the health check's ping: "none", or what became of its client

attempts == <<breaker, running, late>>
flags    == <<isHealthy, failures>>
clients  == <<connected, replaced>>
nodesVars     == <<status, reachable, settled, clients, flags, attempts, timers,
              ping>>

\* connect() has called connectToNode for every node.
NodesInit ==
  /\ status = "starting"
  /\ reachable \in [Node -> BOOLEAN]
  /\ settled = [n \in Node |-> FALSE]
  /\ connected = [n \in Node |-> FALSE]
  /\ replaced = [n \in Node |-> 0]
  /\ isHealthy = [n \in Node |-> FALSE]
  /\ failures = [n \in Node |-> 0]
  /\ breaker = [n \in Node |-> "closed"]
  /\ running = [n \in Node |-> 1]
  /\ late = [n \in Node |-> 0]
  /\ timers = [n \in Node |-> 0]
  /\ ping = [n \in Node |-> "none"]

Alive == status # "failed"

-----------------------------------------------------------------------------
(* The network and the process.                                            *)

NodeGoesOrComes(n) ==
  /\ reachable' = [reachable EXCEPT ![n] = ~@]
  /\ UNCHANGED <<status, settled, clients, flags, attempts, timers, ping>>

\* connect() throws when no node is healthy, and the process ends.
StartupEnds ==
  /\ status = "starting"
  /\ \A n \in Node : settled[n]
  /\ status' = IF \E n \in Node : isHealthy[n] THEN "up" ELSE "failed"
  /\ UNCHANGED <<reachable, settled, clients, flags, attempts, timers, ping>>

StartAgain ==
  /\ status = "failed"
  /\ status' = "starting"
  /\ settled' = [n \in Node |-> FALSE]
  /\ connected' = [n \in Node |-> FALSE]
  /\ replaced' = [n \in Node |-> 0]
  /\ isHealthy' = [n \in Node |-> FALSE]
  /\ failures' = [n \in Node |-> 0]
  /\ breaker' = [n \in Node |-> "closed"]
  /\ running' = [n \in Node |-> 1]
  /\ late' = [n \in Node |-> 0]
  /\ timers' = [n \in Node |-> 0]
  /\ ping' = [n \in Node |-> "none"]
  /\ UNCHANGED reachable

-----------------------------------------------------------------------------
(* connectToNode.                                                          *)

\* Variant for the sensitivity checks: failures are not counted.
FailUncounted(n) ==
  /\ isHealthy' = [isHealthy EXCEPT ![n] = FALSE]
  /\ failures' = failures

Bump(n) ==
  IF failures[n] < MaxConsecutiveFailures THEN failures[n] + 1 ELSE failures[n]

Fail(n) ==
  /\ isHealthy' = [isHealthy EXCEPT ![n] = FALSE]
  /\ failures' = [failures EXCEPT ![n] = Bump(n)]

\* breaker.fire: an attempt begins, or is refused and counts as a failure.
\* What the flag was before stays when the attempt begins.
Fire(n, flag) ==
  IF breaker[n] \in {"closed", "halfOpen"}
    THEN /\ running[n] < MaxRunning
         /\ running' = [running EXCEPT ![n] = @ + 1]
         /\ breaker' = [breaker EXCEPT ![n] =
                          IF @ = "halfOpen" THEN "trial" ELSE @]
         /\ isHealthy' = [isHealthy EXCEPT ![n] = flag]
         /\ UNCHANGED <<failures, late>>
    ELSE Fail(n) /\ UNCHANGED attempts

\* The client is connected, subscribed and put into the map; the client it
\* takes the place of is not disconnected.
Establish(n) ==
  /\ connected' = [connected EXCEPT ![n] = TRUE]
  /\ IF connected[n]
       THEN /\ replaced[n] < MaxReplaced
            /\ replaced' = [replaced EXCEPT ![n] = @ + 1]
       ELSE UNCHANGED replaced
  /\ ping' = [ping EXCEPT ![n] = IF @ = "current" THEN "replaced" ELSE @]
  /\ isHealthy' = [isHealthy EXCEPT ![n] = TRUE]
  /\ failures' = [failures EXCEPT ![n] = 0]

ConnectSucceeds(n) ==
  /\ Alive
  /\ running[n] > 0
  /\ reachable[n]
  /\ running' = [running EXCEPT ![n] = @ - 1]
  /\ breaker' = [breaker EXCEPT ![n] = IF @ = "open" THEN "open" ELSE "closed"]
  /\ settled' = [settled EXCEPT ![n] = TRUE]
  /\ Establish(n)
  /\ UNCHANGED <<status, reachable, late, timers>>

\* Variant: a failure is reported although nothing is under way.
ConnectFailsAgain(n) ==
  /\ Alive
  /\ ~reachable[n]
  /\ running' = [running EXCEPT ![n] = @ - 1]
  /\ breaker' = [breaker EXCEPT ![n] = "open"]
  /\ settled' = [settled EXCEPT ![n] = TRUE]
  /\ Fail(n)
  /\ UNCHANGED <<status, reachable, clients, late, timers, ping>>

ConnectFails(n) ==
  /\ Alive
  /\ running[n] > 0
  /\ ~reachable[n]
  /\ running' = [running EXCEPT ![n] = @ - 1]
  /\ breaker' = [breaker EXCEPT ![n] = "open"]
  /\ settled' = [settled EXCEPT ![n] = TRUE]
  /\ Fail(n)
  /\ UNCHANGED <<status, reachable, clients, late, timers, ping>>

\* The breaker reports a timeout; the attempt itself goes on.
ConnectTimesOut(n) ==
  /\ Alive
  /\ running[n] > 0
  /\ ~reachable[n]
  /\ late[n] < MaxLate
  /\ running' = [running EXCEPT ![n] = @ - 1]
  /\ late' = [late EXCEPT ![n] = @ + 1]
  /\ breaker' = [breaker EXCEPT ![n] = "open"]
  /\ settled' = [settled EXCEPT ![n] = TRUE]
  /\ Fail(n)
  /\ UNCHANGED <<status, reachable, clients, timers, ping>>

\* It may still connect, which the breaker no longer notices, or fail, which
\* nothing notices.
LateConnect(n) ==
  /\ Alive
  /\ late[n] > 0
  /\ reachable[n]
  /\ late' = [late EXCEPT ![n] = @ - 1]
  /\ Establish(n)
  /\ UNCHANGED <<status, reachable, settled, breaker, running, timers>>

LateFailure(n) ==
  /\ Alive
  /\ late[n] > 0
  /\ ~reachable[n]
  /\ late' = [late EXCEPT ![n] = @ - 1]
  /\ UNCHANGED <<status, reachable, settled, clients, flags, breaker, running,
                 timers, ping>>

\* resetTimeout has passed.
BreakerHalfOpens(n) ==
  /\ Alive
  /\ breaker[n] = "open"
  /\ breaker' = [breaker EXCEPT ![n] = "halfOpen"]
  /\ UNCHANGED <<status, reachable, settled, clients, flags, running, late,
                 timers, ping>>

-----------------------------------------------------------------------------
(* handleDisconnection.                                                    *)

\* Variant: the flag is left alone.
HandleDisconnectionFlagKept(n) ==
  /\ failures' = [failures EXCEPT ![n] = Bump(n)]
  /\ timers' = IF Bump(n) < MaxConsecutiveFailures
                 THEN [timers EXCEPT ![n] = @ + 1] ELSE timers
  /\ UNCHANGED isHealthy

\* A timer is set while the limit is not reached.
HandleDisconnection(n) ==
  /\ Fail(n)
  /\ IF Bump(n) < MaxConsecutiveFailures
       THEN /\ timers[n] < MaxTimers
            /\ timers' = [timers EXCEPT ![n] = @ + 1]
       ELSE UNCHANGED timers

\* The client in the map loses its connection.  That xrpl.js connects it anew
\* on its own, without its subscriptions, is left out.
ClientDrops(n) ==
  /\ Alive
  /\ connected[n]
  /\ ~reachable[n]
  /\ connected' = [connected EXCEPT ![n] = FALSE]
  /\ ping' = [ping EXCEPT ![n] = IF @ = "current" THEN "gone" ELSE @]
  /\ HandleDisconnection(n)
  /\ UNCHANGED <<status, reachable, settled, replaced, attempts>>

\* A client that was replaced drops, with or without a ping of its own.
ReplacedClientDrops(n) ==
  /\ Alive
  /\ replaced[n] > 0
  /\ ~reachable[n]
  /\ replaced' = [replaced EXCEPT ![n] = @ - 1]
  /\ \/ ping[n] = "replaced" /\ ping' = [ping EXCEPT ![n] = "gone"]
     \/ (ping[n] = "replaced" => replaced[n] > 1) /\ UNCHANGED ping
  /\ HandleDisconnection(n)
  /\ UNCHANGED <<status, reachable, settled, connected, attempts>>

ReconnectTimerFires(n) ==
  /\ Alive
  /\ timers[n] > 0
  /\ timers' = [timers EXCEPT ![n] = @ - 1]
  /\ Fire(n, isHealthy[n])
  /\ UNCHANGED <<status, reachable, settled, clients, ping>>

-----------------------------------------------------------------------------
(* performHealthCheck.                                                     *)

\* One round for one node: ping its client, or connect unless the node was
\* given up.  A ping is over before the next round.
HealthCheck(n) ==
  /\ status = "up"
  /\ ping[n] = "none"
  /\ IF connected[n]
       THEN /\ ping' = [ping EXCEPT ![n] = "current"]
            /\ UNCHANGED <<flags, attempts>>
       ELSE /\ UNCHANGED ping
            /\ IF failures[n] < MaxConsecutiveFailures
                 THEN Fire(n, FALSE)
                 ELSE /\ isHealthy' = [isHealthy EXCEPT ![n] = FALSE]
                      /\ UNCHANGED <<failures, attempts>>
  /\ UNCHANGED <<status, reachable, settled, clients, timers>>

\* The answer counts as a success by the status inside its result.
PingAnswered(n) ==
  /\ Alive
  /\ ping[n] \in {"current", "replaced"}
  /\ reachable[n]
  /\ ping' = [ping EXCEPT ![n] = "none"]
  /\ \E success \in PingOutcomes :
       IF success
         THEN /\ isHealthy' = [isHealthy EXCEPT ![n] = TRUE]
              /\ failures' = [failures EXCEPT ![n] = 0]
         ELSE Fail(n)
  /\ UNCHANGED <<status, reachable, settled, clients, attempts, timers>>

PingRejected(n) ==
  /\ Alive
  /\ ping[n] # "none" /\ (reachable[n] => ping[n] = "gone")
  /\ ping' = [ping EXCEPT ![n] = "none"]
  /\ Fail(n)
  /\ UNCHANGED <<status, reachable, settled, clients, attempts, timers>>

-----------------------------------------------------------------------------

AttemptEnds(n) == ConnectSucceeds(n) \/ ConnectFails(n) \/ ConnectTimesOut(n)

PingEnds(n) == PingAnswered(n) \/ PingRejected(n)

NodesNext ==
  \/ StartupEnds
  \/ StartAgain
  \/ \E n \in Node : NodeGoesOrComes(n)
  \/ \E n \in Node : ConnectSucceeds(n)
  \/ \E n \in Node : ConnectFails(n)
  \/ \E n \in Node : ConnectTimesOut(n)
  \/ \E n \in Node : LateConnect(n)
  \/ \E n \in Node : LateFailure(n)
  \/ \E n \in Node : BreakerHalfOpens(n)
  \/ \E n \in Node : ClientDrops(n)
  \/ \E n \in Node : ReplacedClientDrops(n)
  \/ \E n \in Node : ReconnectTimerFires(n)
  \/ \E n \in Node : HealthCheck(n)
  \/ \E n \in Node : PingAnswered(n)
  \/ \E n \in Node : PingRejected(n)

\* Timers and the interval fire, attempts and pings have a timeout, and the
\* breaker's reset timer runs.
NodesFairness ==
  /\ WF_nodesVars(StartupEnds)
  /\ \A n \in Node :
       /\ WF_nodesVars(AttemptEnds(n))
       /\ WF_nodesVars(PingEnds(n))
       /\ WF_nodesVars(HealthCheck(n))
       /\ WF_nodesVars(ReconnectTimerFires(n))
       /\ WF_nodesVars(BreakerHalfOpens(n))

NodesSpec == NodesInit /\ [][NodesNext]_nodesVars /\ NodesFairness

-----------------------------------------------------------------------------
(* Properties.                                                             *)

\* The type of every variable; no more attempts end than have begun, and no
\* more clients are dropped than were connected.
NodesTypeOK ==
  /\ status \in {"starting", "up", "failed"}
  /\ reachable \in [Node -> BOOLEAN]
  /\ settled \in [Node -> BOOLEAN]
  /\ connected \in [Node -> BOOLEAN]
  /\ replaced \in [Node -> Nat]
  /\ isHealthy \in [Node -> BOOLEAN]
  /\ failures \in [Node -> 0 .. MaxConsecutiveFailures]
  /\ breaker \in [Node -> {"closed", "open", "halfOpen", "trial"}]
  /\ running \in [Node -> Nat]
  /\ late \in [Node -> Nat]
  /\ timers \in [Node -> Nat]
  /\ ping \in [Node -> {"none", "current", "replaced", "gone"}]

\* A node is reported healthy only while some client of it is connected and
\* no failure is counted, although timers, health checks, pings and attempts
\* that outlive their timeout all write the same two fields.
HealthFlagHonest ==
  \A n \in Node : isHealthy[n] =>
    /\ connected[n] \/ replaced[n] > 0
    /\ failures[n] = 0

\* A node that is not connected is connected in the end, or given up at the
\* failure limit: no order of timers, health checks and breaker states leaves
\* it waiting for ever below the limit.
ConnectedOrGivenUp ==
  \A n \in Node :
    (status = "up" /\ ~connected[n]) ~>
      (connected[n] \/ failures[n] = MaxConsecutiveFailures)

=============================================================================
