---------------------------- MODULE SystemHealth ----------------------------
(***************************************************************************)
(* HealthCheckService: the system check behind /health/system and          *)
(* /health/ready, and the end-to-end check behind /health/e2e.             *)
(*                                                                         *)
(* A check asks its parts while they fail and recover, and other processes *)
(* run checks of their own.  All of them prove Redis with one and the same *)
(* key.                                                                    *)
(***************************************************************************)
EXTENDS Naturals, FiniteSets

CONSTANTS
  Check,        \* checks modelled in full, each one at a time
  Probe,        \* checks elsewhere, of which only the part on Redis matters
  MaxChanges,   \* bound: times a part of the system fails or recovers
  MaxFailures   \* bound: failed end-to-end checks in a row

ASSUME HealthAssumption ==
  /\ Check \cap Probe = {}
  /\ MaxChanges \in Nat
  /\ MaxFailures \in Nat

VARIABLES
  part,       \* the parts of the system as they are
  changes,
  key,        \* whether health:check:test is in Redis
  redis,      \* per check and probe, where its part on Redis stands
  check,      \* per check, where it stands and its results
  endToEndFailureCount,
  seen,       \* history: per check, how each part was since it began
  robbed      \* history: checks whose key went between their set and their get

world == <<part, changes>>
healthVars  == <<world, key, redis, check, endToEndFailureCount, seen, robbed>>

-----------------------------------------------------------------------------
(* What is looked at.                                                      *)

\* empty: a database without a user.  nodes: whether all nodes of the XRPL
\* connection are healthy, some, or none.  channel: the field of that name in
\* RabbitMQConnectionService, which holds a channel that is open or one that
\* is gone, or was never set.
Condition(p) ==
  CASE p = "database" -> {"up", "empty", "down"}
    [] p = "nodes"    -> {"all", "some", "none"}
    [] p = "channel"  -> {"none", "open", "gone"}
    [] p = "redis"    -> {"up", "down"}

Part == {"database", "nodes", "channel", "redis"}

Result == {"healthy", "degraded", "unhealthy"}

DatabaseAnswers == part["database"] # "down"

\* getConnectionHealth counts the nodes by their health flag.
NodesAre(health) ==
  IF health = "healthy" THEN part["nodes"] # "none" ELSE part["nodes"] # "all"

\* checkXRPLConnectionHealth and checkMessageQueueHealth answer at once.
NodesResult ==
  IF ~ NodesAre("healthy") THEN "unhealthy"
  ELSE IF NodesAre("unhealthy") THEN "degraded" ELSE "healthy"

\* The field is asked whether it is set, not the channel whether it is open.
QueueHealth == IF part["channel"] = "none" THEN "degraded" ELSE "healthy"
QueueResult == QueueHealth

\* The services behind alerts and notifications have one thing each to
\* complain of (an error of findMatchingAlerts is caught inside of it), and
\* one complaint makes a service degraded.
AlertsHealth == IF DatabaseAnswers THEN "healthy" ELSE "degraded"
NotificationsHealth == IF DatabaseAnswers THEN "healthy" ELSE "degraded"

\* A system check and its results; "pending" until a part has answered.  The
\* check of metadata enrichment counts nothing and is always healthy.
Idle == [kind |-> "idle", step |-> "idle", database |-> "pending", alerts |-> "pending",
         notifications |-> "pending", nodes |-> "pending", queue |-> "pending", answer |-> "pending"]

\* The answer of a system check that looks at the worst of its parts...
WorstOf(results) ==
  IF "unhealthy" \in results THEN "unhealthy"
  ELSE IF "degraded" \in results THEN "degraded" ELSE "healthy"

\* ...and of one that looks at them while some are pending.
HealthyUnlessReported(results) ==
  IF "unhealthy" \in results THEN "unhealthy" ELSE "healthy"

OverallStatus(results) == WorstOf(results)

\* Requests are served once every onModuleInit is over, and the one of the
\* queue consumers ends a process that has got no channel by then.
HealthInit ==
  /\ part \in {s \in [Part -> UNION {Condition(p) : p \in Part}] :
                 (\A p \in Part : s[p] \in Condition(p)) /\ s["channel"] # "none"}
  /\ changes = 0
  /\ key = FALSE
  /\ redis = [c \in Check \cup Probe |-> "idle"]
  /\ check = [c \in Check |-> Idle]
  /\ endToEndFailureCount = 0
  /\ seen = [c \in Check |-> [p \in Part |-> {}]]
  /\ robbed = {}

-----------------------------------------------------------------------------
(* The world.                                                              *)

Running(c) == check[c].kind # "idle" /\ check[c].answer = "pending"

\* The key goes; who has set it and not read it yet will not find it.
KeyGone(but) ==
  /\ key' = FALSE
  /\ robbed' = robbed \cup {c \in Check \ but : redis[c] = "get"}

\* Part p comes into condition v, and the running checks take note.  Redis may
\* lose what it holds when it fails.
PartChanges(p, v) ==
  /\ part' = [part EXCEPT ![p] = v]
  /\ seen' = [c \in Check |->
       IF Running(c) THEN [seen[c] EXCEPT ![p] = seen[c][p] \cup {v}] ELSE seen[c]]
  /\ \/ UNCHANGED <<key, robbed>>
     \/ p = "redis" /\ key /\ KeyGone({})

\* Users are not deleted.  Losing the connection leaves the field with a
\* channel that is gone, a reconnection sets it, and nothing clears it: only
\* disconnect() would, when a module is destroyed.
Change ==
  /\ changes < MaxChanges
  /\ changes' = changes + 1
  /\ \E p \in Part : \E v \in Condition(p) \ {part[p]} :
       /\ ~ (p = "database" /\ part[p] = "up" /\ v = "empty")
       /\ ~ (p = "channel" /\ v = "none")
       /\ PartChanges(p, v)
  /\ UNCHANGED <<redis, check, endToEndFailureCount>>

\* The ten seconds of the key are over.
Expire ==
  /\ key
  /\ KeyGone({})
  /\ UNCHANGED <<world, redis, check, endToEndFailureCount, seen>>

-----------------------------------------------------------------------------
(* The check of Redis: set, get, del, with a value that is not compared.   *)

RedisStep(c, to) == redis' = [redis EXCEPT ![c] = to]

SetKey(c) ==
  /\ redis[c] = "set"
  /\ IF part["redis"] = "up"
     THEN key' = TRUE /\ RedisStep(c, "get")
     ELSE UNCHANGED key /\ RedisStep(c, "unhealthy")
  /\ UNCHANGED <<world, check, endToEndFailureCount, seen, robbed>>

\* An error of get counts as a value that is missing.
GetKey(c) ==
  /\ redis[c] = "get"
  /\ RedisStep(c, IF part["redis"] = "up" /\ key THEN "del" ELSE "unhealthy")
  /\ UNCHANGED <<world, key, check, endToEndFailureCount, seen, robbed>>

DeleteKey(c) ==
  /\ redis[c] = "del"
  /\ IF part["redis"] = "up"
     THEN KeyGone({c}) /\ RedisStep(c, "healthy")
     ELSE UNCHANGED <<key, robbed>> /\ RedisStep(c, "unhealthy")
  /\ UNCHANGED <<world, check, endToEndFailureCount, seen>>

BeginProbe(c) ==
  /\ c \in Probe
  /\ redis[c] \in {"idle", "healthy", "unhealthy"}
  /\ RedisStep(c, "set")
  /\ UNCHANGED <<world, key, check, endToEndFailureCount, seen, robbed>>

-----------------------------------------------------------------------------
(* The system check.                                                       *)

\* All parts are asked at once; what answers without waiting has answered.
BeginSystem(c) ==
  /\ check[c].kind = "idle"
  /\ check' = [check EXCEPT ![c] =
       [Idle EXCEPT !.kind = "system", !.nodes = NodesResult, !.queue = QueueResult]]
  /\ RedisStep(c, "set")
  /\ seen' = [seen EXCEPT ![c] = [p \in Part |-> {part[p]}]]
  /\ robbed' = robbed \ {c}
  /\ UNCHANGED <<world, key, endToEndFailureCount>>

CheckDatabase(c) ==
  /\ check[c].kind = "system" /\ check[c].database = "pending"
  /\ check' = [check EXCEPT ![c].database = IF DatabaseAnswers THEN "healthy" ELSE "unhealthy"]
  /\ UNCHANGED <<world, key, redis, endToEndFailureCount, seen, robbed>>

CheckAlerts(c) ==
  /\ check[c].kind = "system" /\ check[c].alerts = "pending"
  /\ check' = [check EXCEPT ![c].alerts = AlertsHealth]
  /\ UNCHANGED <<world, key, redis, endToEndFailureCount, seen, robbed>>

CheckNotifications(c) ==
  /\ check[c].kind = "system" /\ check[c].notifications = "pending"
  /\ check' = [check EXCEPT ![c].notifications = NotificationsHealth]
  /\ UNCHANGED <<world, key, redis, endToEndFailureCount, seen, robbed>>

Results(c) ==
  {check[c].database, check[c].alerts, check[c].notifications, check[c].nodes,
   check[c].queue, redis[c]}

\* Promise.allSettled: the answer is made when every part has its result.
AnswerSystem(c) ==
  /\ check[c].kind = "system" /\ Running(c)
  /\ Results(c) \subseteq Result
  /\ check' = [check EXCEPT ![c].answer = OverallStatus(Results(c))]
  /\ UNCHANGED <<world, key, redis, endToEndFailureCount, seen, robbed>>

-----------------------------------------------------------------------------
(* The end-to-end check.                                                   *)

BeginEndToEnd(c) ==
  /\ check[c].kind = "idle"
  /\ endToEndFailureCount < MaxFailures
  /\ check' = [check EXCEPT ![c] = [Idle EXCEPT !.kind = "endToEnd", !.step = "users"]]
  /\ seen' = [seen EXCEPT ![c] = [p \in Part |-> {part[p]}]]
  /\ UNCHANGED <<world, key, redis, endToEndFailureCount, robbed>>

AnswerEndToEnd(c, answer) ==
  /\ check' = [check EXCEPT ![c] = [Idle EXCEPT !.kind = "endToEnd", !.answer = answer]]
  /\ endToEndFailureCount' = IF answer = "healthy" THEN 0 ELSE endToEndFailureCount + 1

\* Users are counted, and in the same breath the nodes are looked at.
CountUsers(c) ==
  /\ check[c].step = "users"
  /\ IF part["database"] = "up" /\ NodesAre("healthy")
     THEN check' = [check EXCEPT ![c].step = "activity"] /\ UNCHANGED endToEndFailureCount
     ELSE AnswerEndToEnd(c, "unhealthy")
  /\ UNCHANGED <<world, key, redis, seen, robbed>>

\* Recent activities and sent notifications are counted, and a count of zero is
\* no failure.
CountRecent(c) ==
  /\ check[c].step \in {"activity", "notifications"}
  /\ IF ~ DatabaseAnswers THEN AnswerEndToEnd(c, "unhealthy")
     ELSE IF check[c].step = "activity"
     THEN check' = [check EXCEPT ![c].step = "notifications"] /\ UNCHANGED endToEndFailureCount
     ELSE AnswerEndToEnd(c, "healthy")
  /\ UNCHANGED <<world, key, redis, seen, robbed>>

\* The answer is sent; the next request may begin a check.
Close(c) ==
  /\ check[c].answer # "pending"
  /\ check' = [check EXCEPT ![c] = Idle]
  /\ RedisStep(c, "idle")
  /\ seen' = [seen EXCEPT ![c] = [p \in Part |-> {}]]
  /\ robbed' = robbed \ {c}
  /\ UNCHANGED <<world, key, endToEndFailureCount>>

HealthNext ==
  \/ Change \/ Expire
  \/ \E c \in Check \cup Probe : SetKey(c) \/ GetKey(c) \/ DeleteKey(c) \/ BeginProbe(c)
  \/ \E c \in Check :
       \/ BeginSystem(c) \/ CheckDatabase(c) \/ CheckAlerts(c) \/ CheckNotifications(c)
       \/ AnswerSystem(c)
       \/ BeginEndToEnd(c) \/ CountUsers(c) \/ CountRecent(c) \/ Close(c)

HealthSpec == HealthInit /\ [][HealthNext]_healthVars

-----------------------------------------------------------------------------
(* Properties.                                                             *)

\* What "healthy" vouches for.  Of the queue that is no more than that the
\* process has had a channel.
Good(p) == CASE p = "database" -> {"up", "empty"} [] p = "nodes" -> {"all"}
             [] p = "channel" -> {"open", "gone"} [] p = "redis" -> {"up"}

Failed(p) == CASE p = "database" -> {"down"} [] p = "nodes" -> {"none"}
               [] p = "channel" -> {} [] p = "redis" -> {"down"}

\* What a check answers was so while it ran.
AnswerHonest(c) ==
  check[c].answer # "pending" =>
    IF check[c].kind = "system"
    THEN /\ check[c].answer = "healthy" => \A p \in Part : seen[c][p] \cap Good(p) # {}
         /\ check[c].answer = "unhealthy" =>
              c \in robbed \/ \E p \in Part : seen[c][p] \cap Failed(p) # {}
         /\ check[c].answer = "degraded" => \E p \in Part : ~ (seen[c][p] \subseteq Good(p))
    ELSE /\ check[c].answer = "healthy" =>
              "up" \in seen[c]["database"] /\ ~ (seen[c]["nodes"] \subseteq {"none"})
         /\ check[c].answer = "unhealthy" =>
              \/ seen[c]["database"] \cap {"down", "empty"} # {}
              \/ "none" \in seen[c]["nodes"]

\* "healthy" says of the database, the nodes and Redis that each was good at a
\* moment of the check, and of the queue only that a channel was once set: a
\* connection that is lost does not show.  "unhealthy" (on which /health/ready
\* takes the process out of service) says that some part had failed or that the
\* key this check had set was taken away by another check or its time to live,
\* "degraded" that some part was not good.  The end-to-end check says less: the
\* database answered with a user and a node was healthy.
AnswersHonest == \A c \in Check : AnswerHonest(c)

=============================================================================
