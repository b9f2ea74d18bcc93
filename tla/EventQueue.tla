----------------------------- MODULE EventQueue -----------------------------
(***************************************************************************)
(* One queue of the broker between EventPublisherService, which publishes  *)
(* what the XRPL nodes report, and EventConsumerService, which hands every *)
(* message to a handler, and the connection both share, with its           *)
(* reconnection (RabbitMQConnectionService).                               *)
(*                                                                         *)
(* The fields connection and channel of the service are overwritten by     *)
(* every connect().  The consumer is registered once, at startup, on the   *)
(* channel of that moment, and keeps that channel for its answers.         *)
(*                                                                         *)
(* A connection is lost in two steps: the broker gives it up, which puts   *)
(* the unacknowledged messages back, and later the client notices.  What   *)
(* is written in between is lost.  Node.js ends a process that leaves a    *)
(* rejection or an error event without a handler.                          *)
(***************************************************************************)
EXTENDS Naturals, FiniteSets

CONSTANTS
  Messages,              \* what the program publishes
  Fallible,              \* the messages whose handler may throw
  MaxRetries,            \* DEFAULT_RETRY_ATTEMPTS
  Prefetch,              \* DEFAULT_PREFETCH_COUNT
  MaxReconnectAttempts,  \* maxReconnectAttempts
  MaxCopies,             \* bound: messages in the broker, duplicates included
  MaxConnections,        \* bound: connections a process uses at a time
  MaxLosses,             \* bound: lost connections and broker restarts
  MaxCrashes             \* bound: crashes from outside

ASSUME QueueAssumption ==
  /\ Messages # {} /\ Fallible \subseteq Messages
  /\ {MaxRetries, MaxReconnectAttempts, MaxLosses, MaxCrashes} \subseteq Nat
  /\ {Prefetch, MaxCopies, MaxConnections} \subseteq Nat \ {0}

Copies == 1 .. MaxCopies
Connections == 1 .. MaxConnections
None == 0

VARIABLES
  broker,             \* the broker is up
  process,            \* "starting", "running" or "dead"
  link,               \* of a connection: "free", "connecting", "linked",
                      \* "halfOpen" (only the client believes in it), "closed"
  step,               \* the await of connect() on that connection, or "idle"
  listeners,          \* how often its error and close handlers were registered
  connection,         \* this.connection
  channel,            \* this.channel, named by its connection
  consumerOn,         \* the connection whose channel the consumer holds
  reconnectAttempts,  \* this.reconnectAttempts
  timers,             \* reconnection timers set
  published,          \* messages the program has called publishEvent for
  message,            \* of a copy in the broker: what it is a copy of
  retries,            \* its x-retry-count
  place,              \* where it is, see Places
  stage,              \* what the consumer does with it: see Stages
  attempts,           \* history: deliveries of a message to the handler
  handled,            \* history: how often its handler returned
  losses, crashes     \* bound counters

Places ==
  {"unused", "ready", "unacked",  \* in the queue
   "waiting",                     \* in a temporary retry queue
   "rejected", "expired",         \* in the dead-letter queue
   "acked", "lost"}               \* no longer in the broker
Stages == {"idle", "handling", "requeueing"}

connections == <<link, step, listeners, connection, channel, consumerOn>>
reconnects  == <<reconnectAttempts, timers>>
copies      == <<message, retries, place, stage>>
history     == <<attempts, handled>>
bounds      == <<losses, crashes>>
vars == <<broker, process, connections, reconnects, published, copies, history,
          bounds>>

\* onModuleInit has called connect(), which uses connection 1.
StartLink == [k \in Connections |-> IF k = 1 THEN "connecting" ELSE "free"]
StartStep == [k \in Connections |-> IF k = 1 THEN "connect" ELSE "idle"]

Init ==
  /\ broker \in BOOLEAN
  /\ process = "starting"
  /\ link = StartLink
  /\ step = StartStep
  /\ listeners = [k \in Connections |-> 0]
  /\ connection = None
  /\ channel = None
  /\ consumerOn = None
  /\ reconnectAttempts = 0
  /\ timers = 0
  /\ published = {}
  /\ message = [c \in Copies |-> CHOOSE m \in Messages : TRUE]
  /\ retries = [c \in Copies |-> 0]
  /\ place = [c \in Copies |-> "unused"]
  /\ stage = [c \in Copies |-> "idle"]
  /\ attempts = [m \in Messages |-> 0]
  /\ handled = [m \in Messages |-> 0]
  /\ losses = 0
  /\ crashes = 0

Alive == process # "dead"

AnyOf(S) == CHOOSE x \in S : TRUE
LinkOf(field) == IF field = None THEN "none" ELSE link[field]
Unused == {c \in Copies : place[c] = "unused"}
Free ==
  {k \in Connections : /\ step[k] = "idle"
                       /\ link[k] \in {"free", "closed"}
                       /\ k \notin {connection, channel, consumerOn}}

\* The queue when the broker gives up the consumer's connection.
PutBack == [c \in Copies |-> IF place[c] = "unacked" THEN "ready" ELSE place[c]]

-----------------------------------------------------------------------------
(* The process.                                                            *)

\* Everything in memory goes, the connections with it.
Die ==
  /\ process' = "dead"
  /\ link' = [k \in Connections |-> "free"]
  /\ step' = [k \in Connections |-> "idle"]
  /\ listeners' = [k \in Connections |-> 0]
  /\ connection' = None
  /\ channel' = None
  /\ consumerOn' = None
  /\ reconnectAttempts' = 0
  /\ timers' = 0
  /\ place' = PutBack
  /\ stage' = [c \in Copies |-> "idle"]

Crash ==
  /\ Alive
  /\ crashes < MaxCrashes
  /\ crashes' = crashes + 1
  /\ Die
  /\ UNCHANGED <<broker, published, message, retries, history, losses>>

Restart ==
  /\ process = "dead"
  /\ process' = "starting"
  /\ link' = StartLink
  /\ step' = StartStep
  /\ UNCHANGED <<broker, listeners, connection, channel, consumerOn, reconnects,
                 published, copies, history, bounds>>

\* The end of startup.  The connection service has caught a failure to
\* connect; the consumers cannot be registered then, which nothing catches.
StartConsumers ==
  /\ process = "starting"
  /\ \A k \in Connections : step[k] = "idle"
  /\ IF LinkOf(channel) = "linked"
       THEN /\ process' = "running"
            /\ consumerOn' = channel
            /\ UNCHANGED <<link, step, listeners, connection, channel,
                           reconnects, place, stage>>
       ELSE /\ LinkOf(channel) \in {"none", "closed"}
            /\ Die
  /\ UNCHANGED <<broker, published, message, retries, history, bounds>>

-----------------------------------------------------------------------------
(* connect() and handleConnectionError.                                    *)

ConnectAnswered(k) ==
  /\ broker
  /\ step[k] = "connect"
  /\ link' = [link EXCEPT ![k] = "linked"]
  /\ step' = [step EXCEPT ![k] = "createChannel"]
  /\ connection' = k
  /\ UNCHANGED <<broker, process, listeners, channel, consumerOn, reconnects,
                 published, copies, history, bounds>>

\* The failure is caught and logged: nothing tries again.
ConnectRefused(k) ==
  /\ step[k] = "connect"
  /\ link' = [link EXCEPT ![k] = "free"]
  /\ step' = [step EXCEPT ![k] = "idle"]
  /\ UNCHANGED <<broker, process, listeners, connection, channel, consumerOn,
                 reconnects, published, copies, history, bounds>>

ChannelCreated(k) ==
  /\ step[k] = "createChannel"
  /\ link[k] = "linked"
  /\ step' = [step EXCEPT ![k] = "prefetch"]
  /\ channel' = k
  /\ UNCHANGED <<broker, process, link, listeners, connection, consumerOn,
                 reconnects, published, copies, history, bounds>>

\* The handlers go to this.connection, which another connect() may have set.
Prefetched(k) ==
  /\ step[k] = "prefetch"
  /\ link[k] = "linked"
  /\ step' = [step EXCEPT ![k] = "idle"]
  /\ listeners' = [listeners EXCEPT ![connection] = @ + 1]
  /\ reconnectAttempts' = 0
  /\ UNCHANGED <<broker, process, link, connection, channel, consumerOn, timers,
                 published, copies, history, bounds>>

ReconnectTimerFires ==
  /\ timers > 0
  /\ Free # {}
  /\ timers' = timers - 1
  /\ LET k == AnyOf(Free) IN
       /\ link' = [link EXCEPT ![k] = "connecting"]
       /\ step' = [step EXCEPT ![k] = "connect"]
       /\ listeners' = [listeners EXCEPT ![k] = 0]
  /\ UNCHANGED <<broker, process, connection, channel, consumerOn,
                 reconnectAttempts, published, copies, history, bounds>>

\* Variant for the sensitivity checks: attempts are not limited.
HandleConnectionErrorsForEver(n) ==
  /\ reconnectAttempts' = reconnectAttempts + n
  /\ timers' = timers + n

\* handleConnectionError, run n times.
HandleConnectionErrors(n) ==
  LET left == MaxReconnectAttempts - reconnectAttempts
      new  == IF n < left THEN n ELSE left
  IN  /\ reconnectAttempts' = reconnectAttempts + new
      /\ timers' = timers + new

\* The client emits close, and before it error unless the broker closed the
\* connection in good order.  An error nobody listens for ends the process.
ClientNotices(k) ==
  /\ link[k] = "halfOpen"
  /\ \E events \in {1, 2} :
       IF events = 2 /\ listeners[k] = 0
         THEN Die
         ELSE /\ link' = [link EXCEPT ![k] = "closed"]
              /\ step' = [step EXCEPT ![k] = "idle"]
              /\ HandleConnectionErrors(events * listeners[k])
              /\ UNCHANGED <<process, listeners, connection, channel,
                             consumerOn, place, stage>>
  /\ UNCHANGED <<broker, published, message, retries, history, bounds>>

-----------------------------------------------------------------------------
(* The network and the broker.                                             *)

ConnectionLost(k) ==
  /\ link[k] = "linked"
  /\ losses < MaxLosses
  /\ losses' = losses + 1
  /\ link' = [link EXCEPT ![k] = "halfOpen"]
  /\ place' = IF k = consumerOn THEN PutBack ELSE place
  /\ UNCHANGED <<broker, process, step, listeners, connection, channel,
                 consumerOn, reconnects, published, message, retries, stage,
                 history, crashes>>

\* The temporary queues are not durable.
BrokerStops ==
  /\ broker
  /\ losses < MaxLosses
  /\ losses' = losses + 1
  /\ broker' = FALSE
  /\ link' = [k \in Connections |->
                IF link[k] = "linked" THEN "halfOpen" ELSE link[k]]
  /\ place' = [c \in Copies |->
                 IF place[c] = "waiting" THEN "lost" ELSE PutBack[c]]
  /\ UNCHANGED <<process, step, listeners, connection, channel, consumerOn,
                 reconnects, published, message, retries, stage, history,
                 crashes>>

BrokerStarts ==
  /\ ~broker
  /\ broker' = TRUE
  /\ UNCHANGED <<process, connections, reconnects, published, copies, history,
                 bounds>>

\* The time to live of a message in the queue.
MessageExpires(c) ==
  /\ broker
  /\ place[c] = "ready"
  /\ place' = [place EXCEPT ![c] = "expired"]
  /\ UNCHANGED <<broker, process, connections, reconnects, published, message,
                 retries, stage, history, bounds>>

\* The time to live of a message in a temporary queue.
RetryDelayOver(c) ==
  /\ broker
  /\ place[c] = "waiting"
  /\ place' = [place EXCEPT ![c] = "ready"]
  /\ UNCHANGED <<broker, process, connections, reconnects, published, message,
                 retries, stage, history, bounds>>

-----------------------------------------------------------------------------
(* publishEvent.  Its callers ignore its errors, so a message that is      *)
(* skipped, refused or lost on the way is gone.                            *)

Publish(m) ==
  /\ Alive
  /\ m \notin published
  /\ published' = published \cup {m}
  /\ IF LinkOf(channel) = "linked"
       THEN /\ Unused # {}
            /\ LET c == AnyOf(Unused) IN
                 /\ message' = [message EXCEPT ![c] = m]
                 /\ place' = [place EXCEPT ![c] = "ready"]
       ELSE UNCHANGED <<message, place>>
  /\ UNCHANGED <<broker, process, connections, reconnects, retries, stage,
                 history, bounds>>

-----------------------------------------------------------------------------
(* The consumer.                                                           *)

Deliver(c) ==
  /\ LinkOf(consumerOn) = "linked"
  /\ place[c] = "ready"
  /\ Cardinality({d \in Copies : place[d] = "unacked"}) < Prefetch
  /\ place' = [place EXCEPT ![c] = "unacked"]
  /\ stage' = [stage EXCEPT ![c] = "handling"]
  /\ attempts' = [attempts EXCEPT ![message[c]] = @ + 1]
  /\ UNCHANGED <<broker, process, connections, reconnects, published, message,
                 retries, handled, bounds>>

\* ack, or reject without requeueing: it reaches the broker, is written to a
\* connection that is lost, or throws, in the error path as well.
Answer(c, where) ==
  \/ /\ link[consumerOn] = "linked"
     /\ place' = [place EXCEPT ![c] = where]
     /\ stage' = [stage EXCEPT ![c] = "idle"]
     /\ UNCHANGED <<process, connections, reconnects>>
  \/ /\ link[consumerOn] = "halfOpen"
     /\ stage' = [stage EXCEPT ![c] = "idle"]
     /\ UNCHANGED <<process, connections, reconnects, place>>
  \/ /\ link[consumerOn] = "closed"
     /\ Die

HandlerReturns(c) ==
  /\ stage[c] = "handling"
  /\ handled' = [handled EXCEPT ![message[c]] = @ + 1]
  /\ Answer(c, "acked")
  /\ UNCHANGED <<broker, published, message, retries, attempts, bounds>>

\* Variant: one retry too many.
HandlerThrowsOnceMore(c) ==
  /\ stage[c] = "handling"
  /\ message[c] \in Fallible
  /\ IF retries[c] <= MaxRetries /\ link[consumerOn] # "closed"
       THEN /\ stage' = [stage EXCEPT ![c] = "requeueing"]
            /\ UNCHANGED <<process, connections, reconnects, place>>
       ELSE Answer(c, "rejected")
  /\ UNCHANGED <<broker, published, message, retries, history, bounds>>

\* Variant: the last retry is not made.
HandlerThrowsOnceLess(c) ==
  /\ stage[c] = "handling"
  /\ message[c] \in Fallible
  /\ IF retries[c] + 1 < MaxRetries /\ link[consumerOn] # "closed"
       THEN /\ stage' = [stage EXCEPT ![c] = "requeueing"]
            /\ UNCHANGED <<process, connections, reconnects, place>>
       ELSE Answer(c, "rejected")
  /\ UNCHANGED <<broker, published, message, retries, history, bounds>>

\* Variant: the message that used up its retries is not answered.
HandlerThrowsUnanswered(c) ==
  /\ stage[c] = "handling"
  /\ message[c] \in Fallible
  /\ stage' = [stage EXCEPT ![c] =
                 IF retries[c] < MaxRetries THEN "requeueing" ELSE "idle"]
  /\ UNCHANGED <<broker, process, connections, reconnects, published, message,
                 retries, place, history, bounds>>

\* requeueWithRetry up to its await on assertQueue; or the rejection.
HandlerThrows(c) ==
  /\ stage[c] = "handling"
  /\ message[c] \in Fallible
  /\ IF retries[c] < MaxRetries /\ link[consumerOn] # "closed"
       THEN /\ stage' = [stage EXCEPT ![c] = "requeueing"]
            /\ UNCHANGED <<process, connections, reconnects, place>>
       ELSE Answer(c, "rejected")
  /\ UNCHANGED <<broker, published, message, retries, history, bounds>>

\* The temporary queue exists: the copy goes to it and the original is
\* acknowledged.  Both arrive.
RequeueWithRetry(c) ==
  /\ stage[c] = "requeueing"
  /\ link[consumerOn] = "linked"
  /\ place' = [place EXCEPT ![c] = "waiting"]
  /\ retries' = [retries EXCEPT ![c] = @ + 1]
  /\ stage' = [stage EXCEPT ![c] = "idle"]
  /\ UNCHANGED <<broker, process, connections, reconnects, published, message,
                 history, bounds>>

\* Variant: the acknowledgement goes first, and the copy is lost.
RequeueCutAckFirst(c) ==
  /\ stage[c] = "requeueing"
  /\ link[consumerOn] = "linked"
  /\ losses < MaxLosses
  /\ losses' = losses + 1
  /\ link' = [link EXCEPT ![consumerOn] = "halfOpen"]
  /\ stage' = [stage EXCEPT ![c] = "idle"]
  /\ place' = [PutBack EXCEPT ![c] = "acked"]
  /\ UNCHANGED <<broker, process, step, listeners, connection, channel,
                 consumerOn, reconnects, published, message, retries, history,
                 crashes>>

\* The connection is lost after the copy and before the acknowledgement.
RequeueCut(c) ==
  /\ stage[c] = "requeueing"
  /\ link[consumerOn] = "linked"
  /\ losses < MaxLosses
  /\ losses' = losses + 1
  /\ Unused # {}
  /\ link' = [link EXCEPT ![consumerOn] = "halfOpen"]
  /\ stage' = [stage EXCEPT ![c] = "idle"]
  /\ LET d == AnyOf(Unused) IN
       /\ message' = [message EXCEPT ![d] = message[c]]
       /\ retries' = [retries EXCEPT ![d] = retries[c] + 1]
       /\ place' = [PutBack EXCEPT ![d] = "waiting"]
  /\ UNCHANGED <<broker, process, step, listeners, connection, channel,
                 consumerOn, reconnects, published, history, crashes>>

\* The await is rejected, and so is the rejection of the message.
RequeueFails(c) ==
  /\ stage[c] = "requeueing"
  /\ link[consumerOn] = "closed"
  /\ Die
  /\ UNCHANGED <<broker, published, message, retries, history, bounds>>

HandlerEnds(c) == HandlerReturns(c) \/ HandlerThrows(c)

Next ==
  \/ Crash \/ Restart \/ StartConsumers
  \/ BrokerStops \/ BrokerStarts \/ ReconnectTimerFires
  \/ \E k \in Connections :
       \/ ConnectAnswered(k) \/ ConnectRefused(k) \/ ChannelCreated(k)
       \/ Prefetched(k) \/ ClientNotices(k) \/ ConnectionLost(k)
  \/ \E m \in Messages : Publish(m)
  \/ \E c \in Copies :
       \/ MessageExpires(c) \/ RetryDelayOver(c) \/ Deliver(c)
       \/ HandlerReturns(c) \/ HandlerThrows(c)
       \/ RequeueWithRetry(c) \/ RequeueCut(c) \/ RequeueFails(c)

\* Calls to the broker are answered, handlers end, retry delays pass.
Fairness ==
  /\ WF_vars(StartConsumers)
  /\ \A k \in Connections : WF_vars(ChannelCreated(k)) /\ WF_vars(Prefetched(k))
  /\ \A c \in Copies :
       /\ WF_vars(Deliver(c)) /\ WF_vars(HandlerEnds(c))
       /\ WF_vars(RequeueWithRetry(c)) /\ WF_vars(RetryDelayOver(c))

Spec == Init /\ [][Next]_vars /\ Fairness

-----------------------------------------------------------------------------
(* Properties.                                                             *)

TypeOK ==
  /\ broker \in BOOLEAN
  /\ process \in {"starting", "running", "dead"}
  /\ link \in [Connections -> {"free", "connecting", "linked", "halfOpen", "closed"}]
  /\ step \in [Connections -> {"idle", "connect", "createChannel", "prefetch"}]
  /\ listeners \in [Connections -> Nat]
  /\ {connection, channel, consumerOn} \subseteq Connections \cup {None}
  /\ reconnectAttempts \in 0 .. MaxReconnectAttempts
  /\ timers \in Nat
  /\ published \subseteq Messages
  /\ message \in [Copies -> Messages]
  /\ retries \in [Copies -> 0 .. MaxRetries]
  /\ place \in [Copies -> Places]
  /\ stage \in [Copies -> Stages]
  /\ attempts \in [Messages -> Nat]
  /\ handled \in [Messages -> Nat]
  /\ losses \in 0 .. MaxLosses
  /\ crashes \in 0 .. MaxCrashes

CopiesOf(m) == {c \in Copies : place[c] # "unused" /\ message[c] = m}

\* A message the broker took is handled, or the broker still has a copy of it,
\* or a stop of the broker lost it while it waited in a temporary queue.  So
\* no acknowledgement comes before its reason, the handler's return or the
\* copy in the temporary queue.
NothingLost ==
  \A m \in Messages :
    \/ CopiesOf(m) = {}
    \/ handled[m] > 0
    \/ \E c \in CopiesOf(m) : place[c] # "acked"

\* As long as no connection is lost and no crash happens, a message is handed
\* to the handler at most once and once for every retry, and not again after
\* its handler returned.
AttemptsBounded ==
  losses + crashes = 0 =>
    \A m \in Messages : attempts[m] <= MaxRetries + 1 /\ handled[m] <= 1

\* What the consumer rejected into the dead-letter queue was handed to the
\* handler once and once for every retry: however often connections, broker and
\* process went down in between, no duplicate carries a count of retries that
\* were not made.
DeadLettersWereTried ==
  \A c \in Copies : place[c] = "rejected" => attempts[message[c]] > MaxRetries

Settled(m) ==
  \/ handled[m] > 0
  \/ \E c \in CopiesOf(m) : place[c] \in {"rejected", "expired"}

\* A message the broker took is handled or ends in the dead-letter queue, if
\* no connection is lost and no crash happens.
HandledOrDeadLettered ==
  \A m \in Messages :
    CopiesOf(m) # {} ~> (Settled(m) \/ losses + crashes > 0)

=============================================================================
